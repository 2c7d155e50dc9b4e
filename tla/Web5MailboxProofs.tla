-------------------------- MODULE Web5MailboxProofs --------------------------
(***************************************************************************)
(* Proof that Web5Connect implements Mailbox, for any keys, objects and    *)
(* fetches, when the database has one connection.                          *)
(***************************************************************************)
EXTENDS Web5ConnectProofs

USE Web5Assumption

\* An insert is the only one of its object, which nobody has stored or found.
OnceInserted ==
    \A i \in 1 .. Len(statements) : statements[i].op = "insert" =>
        LET m == statements[i].row.mail
        IN  /\ \A j \in 1 .. Len(statements) :
                  statements[j].op = "insert" /\ statements[j].row.mail = m
                      => i = j
            /\ \A k \in Key : rows[k].mail # m
            /\ \A g \in Get : found[g].mail # m

Active(g) == fetch[g] \in {"select", "resume"}

\* One fetch of a patient key is in service.
OneFetch ==
    \A g, h \in Get :
        g.key = h.key /\ g.key \in Patient /\ Active(g) /\ Active(h) => g = h

\* The next select under key k comes after a delete.
DeleteAhead(k) ==
    \E i \in 1 .. Len(statements) :
        /\ statements[i].op = "delete" /\ statements[i].key = k
        /\ \A j \in 1 .. Len(statements) :
              statements[j].op = "select" /\ statements[j].get.key = k => i < j

\* An object that was taken will be gone when the next fetch looks for it, and
\* nobody else has found it.
TakenIsGone ==
    \A g \in Get : fetch[g] = "sent" /\ g.key \in Patient =>
        /\ \A m \in Mail : found[g].mail = m /\ InTable(m) => DeleteAhead(g.key)
        /\ \A h \in Get : h # g /\ fetch[h] \in {"resume", "sent"} =>
              found[h].mail # found[g].mail \/ found[g] = NoRow

MailboxInv == OnceInserted /\ OneFetch /\ TakenIsGone

------------------------------------------------------------------------------
(* The queue of statements                                                 *)

LEMMA SendShift ==
    ASSUME TypeOK, NEW s \in Statement, Send(s)
    PROVE  /\ statements' \in Seq(Statement)
           /\ Len(statements) \in Nat /\ Len(statements') = Len(statements) + 1
           /\ \A j \in 1 .. Len(statements) : statements'[j] = statements[j]
           /\ statements'[Len(statements) + 1] = s
BY AppendElements DEF TypeOK, Send

LEMMA ExecuteShift ==
    ASSUME TypeOK, InOrder, NEW i, NEW op, Execute(i, op)
    PROVE  /\ i = 1 /\ statements[1].op = op /\ statements[1] \in Statement
           /\ statements' \in Seq(Statement)
           /\ Len(statements) \in Nat /\ Len(statements) >= 1
           /\ Len(statements') = Len(statements) - 1
           /\ \A j \in 1 .. Len(statements') : statements'[j] = statements[j + 1]
<1>1. i = 1
  BY DEF Execute
<1>2. /\ i \in 1 .. Len(statements) /\ statements[i].op = op
      /\ statements[i] \in Statement /\ statements' \in Seq(Statement)
      /\ Len(statements') = Len(statements) - 1
      /\ \A j \in 1 .. Len(statements) - 1 :
            statements'[j] = statements[IF j < i THEN j ELSE j + 1]
  BY ExecuteKeeps
<1>3. Len(statements) \in Nat
  BY DEF TypeOK
<1>. QED  BY <1>1, <1>2, <1>3

LEMMA AheadAfterSend ==
    ASSUME TypeOK, NEW s \in Statement, Send(s), NEW k, DeleteAhead(k)
    PROVE  DeleteAhead(k)'
<1>1. PICK i \in 1 .. Len(statements) :
          /\ statements[i].op = "delete" /\ statements[i].key = k
          /\ \A j \in 1 .. Len(statements) :
                statements[j].op = "select" /\ statements[j].get.key = k => i < j
  BY DEF DeleteAhead
<1>2. i \in 1 .. Len(statements') /\ statements'[i] = statements[i]
  BY SendShift
<1>3. ASSUME NEW j \in 1 .. Len(statements'),
             statements'[j].op = "select", statements'[j].get.key = k
      PROVE  i < j
  <2>1. CASE j \in 1 .. Len(statements)
    BY <1>1, <1>3, <2>1, SendShift
  <2>2. CASE j = Len(statements) + 1
    BY <2>2, SendShift
  <2>. QED  BY <2>1, <2>2, SendShift
<1>. QED  BY <1>1, <1>2, <1>3 DEF DeleteAhead

LEMMA AheadAfterExecute ==
    ASSUME TypeOK, InOrder, NEW i, NEW op, Execute(i, op), NEW k,
           DeleteAhead(k), op = "delete" => statements[1].key # k
    PROVE  DeleteAhead(k)'
<1>1. PICK d \in 1 .. Len(statements) :
          /\ statements[d].op = "delete" /\ statements[d].key = k
          /\ \A j \in 1 .. Len(statements) :
                statements[j].op = "select" /\ statements[j].get.key = k => d < j
  BY DEF DeleteAhead
<1>2. d # 1
  BY <1>1, ExecuteShift
<1>3. d - 1 \in 1 .. Len(statements') /\ statements'[d - 1] = statements[d]
  BY <1>2, ExecuteShift
<1>4. ASSUME NEW j \in 1 .. Len(statements'),
             statements'[j].op = "select", statements'[j].get.key = k
      PROVE  d - 1 < j
  <2>1. j + 1 \in 1 .. Len(statements) /\ statements'[j] = statements[j + 1]
    BY ExecuteShift
  <2>2. d < j + 1
    BY <1>1, <1>4, <2>1
  <2>. QED  BY <2>2
<1>. QED  BY <1>1, <1>3, <1>4 DEF DeleteAhead

\* The select at the head of the queue finds no delete ahead of it.
LEMMA SelectAtHead ==
    ASSUME TypeOK, InOrder, NEW i, Execute(i, "select")
    PROVE  ~DeleteAhead(statements[1].get.key)
BY ExecuteShift DEF DeleteAhead

\* A delete that is sent when nobody looks for its key is ahead of who will.
LEMMA DeleteSent ==
    ASSUME TypeOK, NEW k \in Key, Send([op |-> "delete", key |-> k]),
           \A j \in 1 .. Len(statements) :
              statements[j].op = "select" => statements[j].get.key # k
    PROVE  DeleteAhead(k)'
<1>. DEFINE s == [op |-> "delete", key |-> k]
            n == Len(statements) + 1
<1>1. s \in Statement
  BY DEF Statement
<1>2. /\ n \in 1 .. Len(statements') /\ statements'[n] = s
      /\ \A j \in 1 .. Len(statements) : statements'[j] = statements[j]
      /\ Len(statements') = n /\ Len(statements) \in Nat
  BY <1>1, SendShift
<1>3. \A j \in 1 .. Len(statements') :
          statements'[j].op = "select" /\ statements'[j].get.key = k => n < j
  <2>. SUFFICES ASSUME NEW j \in 1 .. Len(statements'),
                       statements'[j].op = "select", statements'[j].get.key = k
                PROVE  FALSE
    OBVIOUS
  <2>1. CASE j \in 1 .. Len(statements)
    BY <1>2, <2>1
  <2>2. CASE j = n
    BY <1>2, <2>2
  <2>. QED  BY <1>2, <2>1, <2>2
<1>. QED  BY <1>2, <1>3 DEF DeleteAhead

\* What is not an insert leaves OnceInserted when it is sent,
LEMMA OnceAfterSend ==
    ASSUME TypeOK, OnceInserted, NEW s \in Statement, Send(s),
           s.op # "insert", UNCHANGED <<rows, found>>
    PROVE  OnceInserted'
<1>. SUFFICES ASSUME NEW i \in 1 .. Len(statements'),
                     statements'[i].op = "insert"
              PROVE  LET m == statements'[i].row.mail
                     IN  /\ \A j \in 1 .. Len(statements') :
                               /\ statements'[j].op = "insert"
                               /\ statements'[j].row.mail = m
                               => i = j
                         /\ \A k \in Key : rows[k].mail # m
                         /\ \A g \in Get : found[g].mail # m
  BY DEF OnceInserted
<1>1. \A j \in 1 .. Len(statements') : statements'[j].op = "insert" =>
          j \in 1 .. Len(statements) /\ statements'[j] = statements[j]
  BY SendShift
<1>. QED  BY <1>1 DEF OnceInserted

\* and the execution of anything as long as no object comes into the table or
\* into a fetch but from the table.
LEMMA OnceAfterExecute ==
    ASSUME TypeOK, OnceInserted, InOrder, NEW i, NEW op, Execute(i, op),
           \A k \in Key : \/ \E l \in Key : rows'[k].mail = rows[l].mail
                          \/ rows'[k].mail = Nil
                          \/ op = "insert" /\ rows'[k].mail = statements[1].row.mail,
           \A g \in Get : \/ found'[g].mail = found[g].mail
                          \/ \E k \in Key : found'[g].mail = rows[k].mail
    PROVE  OnceInserted'
<1>. SUFFICES ASSUME NEW n \in 1 .. Len(statements'),
                     statements'[n].op = "insert"
              PROVE  LET m == statements'[n].row.mail
                     IN  /\ \A j \in 1 .. Len(statements') :
                               /\ statements'[j].op = "insert"
                               /\ statements'[j].row.mail = m
                               => n = j
                         /\ \A k \in Key : rows'[k].mail # m
                         /\ \A g \in Get : found'[g].mail # m
  BY DEF OnceInserted
<1>1. /\ \A j \in 1 .. Len(statements') :
            /\ statements'[j] = statements[j + 1]
            /\ j + 1 \in 1 .. Len(statements)
      /\ 1 \in 1 .. Len(statements) /\ statements[1].op = op
  BY ExecuteShift
<1>. DEFINE m == statements[n + 1].row.mail
<1>2. /\ n + 1 \in 1 .. Len(statements) /\ statements[n + 1].op = "insert"
      /\ statements'[n] = statements[n + 1]
  BY <1>1
<1>3. /\ \A j \in 1 .. Len(statements) :
            statements[j].op = "insert" /\ statements[j].row.mail = m
                => n + 1 = j
      /\ \A k \in Key : rows[k].mail # m
      /\ \A g \in Get : found[g].mail # m
  BY <1>2 DEF OnceInserted
<1>4. m # Nil
  <2>1. statements[n + 1] \in Statement
    BY <1>2 DEF TypeOK
  <2>. QED  BY <1>2, <2>1, StatementFields, RowFields
<1>5. op = "insert" => statements[1].row.mail # m
  <2>1. n + 1 # 1
    OBVIOUS
  <2>. QED  BY <1>1, <1>3, <2>1
<1>6. \A j \in 1 .. Len(statements') :
          statements'[j].op = "insert" /\ statements'[j].row.mail = m => n = j
  BY <1>1, <1>3
<1>. QED  BY <1>2, <1>3, <1>4, <1>5, <1>6

------------------------------------------------------------------------------
(* The invariant                                                           *)

LEMMA MailboxSet ==
    ASSUME TypeOK, IInv, MailboxInv, NEW o \in Mail, Set(o) PROVE MailboxInv'
<1>. DEFINE s == [op |-> "insert", row |-> [mail |-> o, expiry |-> now + Ttl]]
<1>1. s \in Statement /\ s.op = "insert" /\ s.row.mail = o
  BY DEF Statement, Row, TypeOK
<1>2. /\ Send(s) /\ o \notin accepted
      /\ UNCHANGED <<rows, fetch, found>>
  BY DEF Set, Expiry
<1>. HIDE DEF s
<1>3. \A i \in 1 .. Len(statements) :
          statements[i].op = "insert" => statements[i].row.mail # o
  BY <1>2 DEF IInv, StatementsOK, StatementOK, Good
<1>4. /\ \A k \in Key : rows[k].mail # o
      /\ \A g \in Get : found[g].mail # o
  BY <1>2 DEF IInv, RowsOK, FoundOK, Good, NoRow
<1>5. OnceInserted'
  <2>. SUFFICES ASSUME NEW i \in 1 .. Len(statements'),
                       statements'[i].op = "insert"
                PROVE  LET m == statements'[i].row.mail
                       IN  /\ \A j \in 1 .. Len(statements') :
                                 /\ statements'[j].op = "insert"
                                 /\ statements'[j].row.mail = m
                                 => i = j
                           /\ \A k \in Key : rows[k].mail # m
                           /\ \A g \in Get : found[g].mail # m
    BY <1>2 DEF OnceInserted
  <2>1. \A j \in 1 .. Len(statements') :
            \/ j \in 1 .. Len(statements) /\ statements'[j] = statements[j]
            \/ j = Len(statements) + 1 /\ statements'[j] = s
    BY <1>1, <1>2, SendShift
  <2>2. CASE i \in 1 .. Len(statements) /\ statements'[i] = statements[i]
    BY <1>1, <1>3, <2>1, <2>2 DEF MailboxInv, OnceInserted
  <2>3. CASE i = Len(statements) + 1 /\ statements'[i] = s
    BY <1>1, <1>3, <1>4, <2>1, <2>3
  <2>. QED  BY <2>1, <2>2, <2>3
<1>6. OneFetch'
  BY <1>2 DEF MailboxInv, OneFetch, Active
<1>7. \A k : DeleteAhead(k) => DeleteAhead(k)'
  BY <1>1, <1>2, AheadAfterSend
<1>8. TakenIsGone'
  BY <1>2, <1>7 DEF MailboxInv, TakenIsGone, InTable
<1>. QED  BY <1>5, <1>6, <1>8 DEF MailboxInv

\* A select or a clean-up is sent, or nothing, and no fetch finds or returns.
LEMMA MailboxQuiet ==
    ASSUME TypeOK, MailboxInv, UNCHANGED <<rows, found>>,
           OneFetch',
           \A g \in Get : fetch'[g] \in {"resume", "sent"} => fetch'[g] = fetch[g],
           NEW s \in Statement, s.op # "insert",
           UNCHANGED statements \/ Send(s)
    PROVE  MailboxInv'
<1>1. CASE UNCHANGED statements
  BY <1>1
     DEF MailboxInv, OnceInserted, TakenIsGone, DeleteAhead, InTable
<1>2. CASE Send(s)
  <2>1. OnceInserted'
    BY <1>2, OnceAfterSend DEF MailboxInv
  <2>2. \A k : DeleteAhead(k) => DeleteAhead(k)'
    BY <1>2, AheadAfterSend
  <2>3. TakenIsGone'
    BY <2>2 DEF MailboxInv, TakenIsGone, InTable
  <2>. QED  BY <2>1, <2>3 DEF MailboxInv
<1>. QED  BY <1>1, <1>2

LEMMA MailboxFetch ==
    ASSUME TypeOK, IInv, MailboxInv, NEW g \in Get,
           \/ Fetch(g) \/ FetchFindsNothing(g) \/ FetchFindsExpired(g)
    PROVE  MailboxInv'
<1>1. /\ UNCHANGED <<rows, found>>
      /\ \A h \in Get : h # g => fetch'[h] = fetch[h]
      /\ fetch'[g] \in {"select", "notFound"}
  BY DEF Fetch, FetchFindsNothing, FetchFindsExpired, TypeOK
<1>2. OneFetch'
  <2>1. CASE Fetch(g)
    <3>1. g.key \in Patient => \A h \in Get : h.key = g.key => ~Active(h)
      BY <2>1 DEF Fetch, Active
    <3>. QED  BY <1>1, <3>1 DEF MailboxInv, OneFetch, Active
  <2>2. CASE FetchFindsNothing(g) \/ FetchFindsExpired(g)
    <3>1. fetch'[g] = "notFound"
      BY <2>2 DEF FetchFindsNothing, FetchFindsExpired, TypeOK
    <3>. QED  BY <1>1, <3>1 DEF MailboxInv, OneFetch, Active
  <2>. QED  BY <2>1, <2>2
<1>3. PICK s \in Statement : s.op # "insert" /\ (UNCHANGED statements \/ Send(s))
  <2>1. /\ [op |-> "select", get |-> g] \in Statement
        /\ [op |-> "delete", key |-> g.key] \in Statement
    BY DEF Statement
  <2>. QED  BY <2>1 DEF Fetch, FetchFindsNothing, FetchFindsExpired
<1>. QED  BY <1>1, <1>2, <1>3, MailboxQuiet

\* The answer with an object: its delete is sent, and nobody looks for it.
LEMMA MailboxReturns ==
    ASSUME TypeOK, IInv, MailboxInv, NEW g \in Get, FetchReturns(g)
    PROVE  MailboxInv'
<1>. DEFINE s == [op |-> "delete", key |-> g.key]
<1>1. s \in Statement /\ s.op = "delete" /\ g.key \in Key
  BY DEF Statement
<1>2. /\ UNCHANGED <<rows, found>> /\ Send(s)
      /\ fetch[g] = "resume" /\ fetch'[g] = "sent"
      /\ \A h \in Get : h # g => fetch'[h] = fetch[h]
  BY DEF FetchReturns, TypeOK
<1>3. OnceInserted'
  BY <1>1, <1>2, OnceAfterSend DEF MailboxInv
<1>4. OneFetch'
  BY <1>2 DEF MailboxInv, OneFetch, Active
<1>5. \A k : DeleteAhead(k) => DeleteAhead(k)'
  BY <1>1, <1>2, AheadAfterSend
<1>6. g.key \in Patient => DeleteAhead(g.key)'
  <2>. SUFFICES ASSUME g.key \in Patient PROVE DeleteAhead(g.key)'
    OBVIOUS
  <2>1. ASSUME NEW j \in 1 .. Len(statements), statements[j].op = "select",
               statements[j].get.key = g.key
        PROVE  FALSE
    <3>1. statements[j] \in Statement /\ statements[j].get \in Get
      BY <2>1, StatementFields DEF TypeOK
    <3>2. fetch[statements[j].get] = "select"
      BY <2>1 DEF IInv, StatementsOK, StatementOK
    <3>. QED
      BY <1>2, <2>1, <3>1, <3>2 DEF MailboxInv, OneFetch, Active
  <2>. QED  BY <1>1, <1>2, <2>1, DeleteSent
<1>7. ASSUME g.key \in Patient, NEW h \in Get, h # g,
             fetch[h] \in {"resume", "sent"}
      PROVE  found[h].mail # found[g].mail \/ found[g] = NoRow
  <2>. SUFFICES ASSUME found[g] # NoRow, found[h].mail = found[g].mail
                PROVE  FALSE
    OBVIOUS
  <2>1. found[g].mail \in Mail /\ found[g].mail.key = g.key
    BY RowFields DEF IInv, FoundOK, TypeOK
  <2>2. found[h] # NoRow
    BY <2>1 DEF NoRow
  <2>3. h.key = g.key
    BY <2>1, <2>2 DEF IInv, FoundOK
  <2>4. CASE fetch[h] = "resume"
    BY <1>2, <1>7, <2>3, <2>4 DEF MailboxInv, OneFetch, Active
  <2>5. CASE fetch[h] = "sent"
    BY <1>2, <1>7, <2>2, <2>3, <2>5 DEF MailboxInv, TakenIsGone
  <2>. QED  BY <1>7, <2>4, <2>5
<1>8. TakenIsGone'
  <2>. SUFFICES ASSUME NEW f \in Get, fetch'[f] = "sent", f.key \in Patient
                PROVE  /\ \A m \in Mail : found[f].mail = m /\ InTable(m)
                                              => DeleteAhead(f.key)'
                       /\ \A h \in Get : h # f /\ fetch'[h] \in {"resume", "sent"}
                             => found[h].mail # found[f].mail \/ found[f] = NoRow
    BY <1>2 DEF TakenIsGone, InTable
  <2>1. CASE f = g
    BY <1>2, <1>6, <1>7, <2>1
  <2>2. CASE f # g
    <3>1. fetch[f] = "sent"
      BY <1>2, <2>2
    <3>2. \A h \in Get : h # f /\ fetch'[h] \in {"resume", "sent"}
              => fetch[h] \in {"resume", "sent"}
      BY <1>2
    <3>. QED  BY <1>2, <1>5, <3>1, <3>2 DEF MailboxInv, TakenIsGone
  <2>. QED  BY <2>1, <2>2
<1>. QED  BY <1>3, <1>4, <1>8 DEF MailboxInv

LEMMA MailboxTimer ==
    ASSUME TypeOK, MailboxInv, CleanUp \/ Tick PROVE MailboxInv'
<1>1. PICK s \in Statement : s = [op |-> "cleanUp", at |-> now]
  BY DEF Statement, TypeOK
<1>2. OneFetch' /\ UNCHANGED <<rows, found, fetch>>
  BY DEF CleanUp, Tick, MailboxInv, OneFetch, Active
<1>. QED  BY <1>1, <1>2, MailboxQuiet DEF CleanUp, Tick

LEMMA MailboxRestart == ASSUME TypeOK, MailboxInv, Restart PROVE MailboxInv'
<1>1. /\ statements' = <<>> /\ UNCHANGED <<rows, found>>
      /\ \A g \in Get :
            /\ ~Active(g)'
            /\ fetch'[g] # "resume"
            /\ fetch'[g] = "sent" => fetch[g] = "sent" /\ ~Deleting(g.key)
  BY DEF Restart, TypeOK, Active
<1>2. OnceInserted' /\ OneFetch'
  BY <1>1 DEF OnceInserted, OneFetch
<1>3. \A k : DeleteAhead(k) => Deleting(k)
  BY DEF DeleteAhead, Deleting, TypeOK
<1>4. TakenIsGone'
  BY <1>1, <1>3 DEF MailboxInv, TakenIsGone, InTable
<1>. QED  BY <1>2, <1>4 DEF MailboxInv

LEMMA MailboxInsert ==
    ASSUME TypeOK, IInv, MailboxInv, InOrder, NEW i, Insert(i)
    PROVE  MailboxInv'
<1>. DEFINE row == statements[1].row
<1>1. /\ Execute(i, "insert") /\ i = 1 /\ statements[1].op = "insert"
      /\ 1 \in 1 .. Len(statements)
      /\ row \in Row /\ row.mail \in Mail /\ row.mail.key \in Key
  BY ExecuteShift, StatementFields, RowFields DEF Insert
<1>2. /\ UNCHANGED <<fetch, found>>
      /\ \A k \in Key : rows'[k] = rows[k] \/ rows'[k] = row
  BY <1>1 DEF Insert, TypeOK
<1>3. OnceInserted'
  BY <1>1, <1>2, OnceAfterExecute DEF MailboxInv
<1>4. OneFetch'
  BY <1>2 DEF MailboxInv, OneFetch, Active
<1>5. \A k : DeleteAhead(k) => DeleteAhead(k)'
  BY <1>1, AheadAfterExecute
<1>6. \A g \in Get : found[g].mail # row.mail
  BY <1>1 DEF MailboxInv, OnceInserted
<1>7. \A g \in Get, m \in Mail :
          found[g].mail = m /\ InTable(m)' => InTable(m)
  BY <1>2, <1>6 DEF InTable
<1>8. TakenIsGone'
  BY <1>2, <1>5, <1>7 DEF MailboxInv, TakenIsGone
<1>. QED  BY <1>3, <1>4, <1>8 DEF MailboxInv

LEMMA MailboxSelect ==
    ASSUME TypeOK, IInv, MailboxInv, InOrder, NEW i, Select(i)
    PROVE  MailboxInv'
<1>. DEFINE g == statements[1].get
<1>1. /\ Execute(i, "select") /\ i = 1 /\ statements[1].op = "select"
      /\ 1 \in 1 .. Len(statements) /\ g \in Get
  BY ExecuteShift, StatementFields DEF Select
<1>2. /\ fetch[g] = "select" /\ UNCHANGED rows
      /\ fetch'[g] = "resume" /\ found'[g] = rows[g.key]
      /\ \A h \in Get : h # g => fetch'[h] = fetch[h] /\ found'[h] = found[h]
  BY <1>1 DEF Select, TypeOK, IInv, StatementsOK, StatementOK
<1>3. OnceInserted'
  BY <1>1, <1>2, OnceAfterExecute DEF MailboxInv
<1>4. OneFetch'
  BY <1>2 DEF MailboxInv, OneFetch, Active
<1>5. \A k : DeleteAhead(k) => DeleteAhead(k)'
  BY <1>1, AheadAfterExecute
<1>6. ASSUME NEW f \in Get, fetch[f] = "sent", f.key \in Patient
      PROVE  rows[g.key].mail # found[f].mail \/ found[f] = NoRow
  <2>. SUFFICES ASSUME rows[g.key].mail = found[f].mail, found[f] # NoRow
                PROVE  FALSE
    OBVIOUS
  <2>. DEFINE m == found[f].mail
  <2>1. m \in Mail /\ m.key = f.key
    BY RowFields DEF IInv, FoundOK, TypeOK
  <2>2. rows[g.key] # NoRow
    BY <2>1 DEF NoRow
  <2>3. m.key = g.key
    BY <1>1, <2>2 DEF IInv, RowsOK
  <2>4. DeleteAhead(f.key)
    BY <1>6, <2>1, <2>3 DEF MailboxInv, TakenIsGone, InTable
  <2>. QED  BY <1>1, <2>1, <2>3, <2>4, SelectAtHead
<1>7. TakenIsGone'
  <2>. SUFFICES ASSUME NEW f \in Get, fetch'[f] = "sent", f.key \in Patient
                PROVE  /\ \A m \in Mail : found'[f].mail = m /\ InTable(m)'
                                              => DeleteAhead(f.key)'
                       /\ \A h \in Get : h # f /\ fetch'[h] \in {"resume", "sent"}
                             => \/ found'[h].mail # found'[f].mail
                                \/ found'[f] = NoRow
    BY DEF TakenIsGone
  <2>1. f # g /\ fetch[f] = "sent" /\ found'[f] = found[f]
    BY <1>2
  <2>2. \A m \in Mail : InTable(m)' => InTable(m)
    BY <1>2 DEF InTable
  <2>3. ASSUME NEW h \in Get, h # f, fetch'[h] \in {"resume", "sent"}
        PROVE  found'[h].mail # found'[f].mail \/ found'[f] = NoRow
    <3>1. CASE h = g
      BY <1>2, <1>6, <2>1, <3>1
    <3>2. CASE h # g
      BY <1>2, <2>1, <2>3, <3>2 DEF MailboxInv, TakenIsGone
    <3>. QED  BY <3>1, <3>2
  <2>. QED  BY <1>5, <2>1, <2>2, <2>3 DEF MailboxInv, TakenIsGone
<1>. QED  BY <1>3, <1>4, <1>7 DEF MailboxInv

LEMMA MailboxDelete ==
    ASSUME TypeOK, IInv, MailboxInv, InOrder, NEW i,
           Delete(i) \/ DeleteExpired(i)
    PROVE  MailboxInv'
<1>1. PICK op \in {"delete", "cleanUp"} :
          /\ Execute(i, op) /\ i = 1 /\ statements[1] \in Statement
          /\ op = "delete" => Delete(i) /\ statements[1].key \in Key
  BY ExecuteShift, StatementFields DEF Delete, DeleteExpired
<1>2. /\ UNCHANGED <<fetch, found>>
      /\ \A k \in Key : rows'[k] = rows[k] \/ rows'[k] = NoRow
      /\ op = "delete" => rows'[statements[1].key] = NoRow
  BY <1>1 DEF Delete, DeleteExpired, TypeOK
<1>3. OnceInserted'
  <2>1. \A k \in Key : rows'[k].mail = rows[k].mail \/ rows'[k].mail = Nil
    BY <1>2 DEF NoRow
  <2>. QED  BY <1>1, <1>2, <2>1, OnceAfterExecute DEF MailboxInv
<1>4. OneFetch'
  BY <1>2 DEF MailboxInv, OneFetch, Active
<1>5. \A m \in Mail : InTable(m)' =>
          InTable(m) /\ (op = "delete" => statements[1].key # m.key)
  BY <1>1, <1>2 DEF InTable, NoRow
<1>6. ASSUME NEW f \in Get, fetch[f] = "sent", f.key \in Patient,
             NEW m \in Mail, found[f].mail = m, InTable(m)'
      PROVE  DeleteAhead(f.key)'
  <2>1. InTable(m) /\ (op = "delete" => statements[1].key # m.key)
    BY <1>5, <1>6
  <2>2. DeleteAhead(f.key)
    BY <1>6, <2>1 DEF MailboxInv, TakenIsGone
  <2>3. m.key = f.key
    BY <1>6 DEF IInv, FoundOK, NoRow
  <2>. QED  BY <1>1, <2>1, <2>2, <2>3, AheadAfterExecute
<1>7. TakenIsGone'
  BY <1>2, <1>6 DEF MailboxInv, TakenIsGone
<1>. QED  BY <1>3, <1>4, <1>7 DEF MailboxInv

LEMMA NextMailbox ==
    ASSUME InOrder
    PROVE  TypeOK /\ IInv /\ MailboxInv /\ [Next]_vars => MailboxInv'
<1>. SUFFICES ASSUME TypeOK, IInv, MailboxInv, [Next]_vars PROVE MailboxInv'
  OBVIOUS
<1>1. CASE Database
  BY <1>1, MailboxInsert, MailboxSelect, MailboxDelete DEF Database
<1>2. CASE UNCHANGED vars
  BY <1>2 DEF vars, MailboxInv, OnceInserted, OneFetch, Active, TakenIsGone,
              DeleteAhead, InTable
<1>3. CASE \E g \in Get : Fetch(g) \/ Resume(g)
  BY <1>3, MailboxFetch, MailboxReturns DEF Resume
<1>. QED
  BY <1>1, <1>2, <1>3, MailboxSet, MailboxTimer, MailboxRestart DEF Next

LEMMA InitMailbox == Init => MailboxInv
BY DEF Init, MailboxInv, OnceInserted, OneFetch, Active, TakenIsGone

------------------------------------------------------------------------------
(* The refinement                                                          *)

boxAccepted == accepted \cap Box
boxPosted == [m \in Box |-> posted[m]]
boxTakers == [m \in Box |-> Takers(m)]

LEMMA InitBox == Init => Abstract!Init
BY DEF Init, Abstract!Init, Box, Takers

\* A step of Web5Connect is a step of Mailbox, or changes nothing of it.
LEMMA NextBox ==
    TypeOK /\ IInv /\ MailboxInv /\ [Next]_vars
        => [Abstract!Next]_(Abstract!vars)
<1>. SUFFICES ASSUME TypeOK, IInv, MailboxInv, [Next]_vars
              PROVE  [Abstract!Next]_(Abstract!vars)
  OBVIOUS
<1>. USE DEF Abstract!vars
<1>1. ASSUME UNCHANGED <<accepted, posted, now>>,
             \A g \in Get : fetch'[g] = "sent" <=> fetch[g] = "sent",
             \A g \in Get : fetch[g] = "sent" => found'[g] = found[g]
      PROVE  UNCHANGED Abstract!vars
  <2>1. \A m : Takers(m)' = Takers(m)
    BY <1>1 DEF Takers
  <2>. QED  BY <1>1, <2>1 DEF Box
<1>2. ASSUME NEW m \in Mail, Set(m)
      PROVE  [Abstract!Next]_(Abstract!vars)
  <2>1. /\ m \notin accepted /\ accepted' = accepted \cup {m}
        /\ posted' = [posted EXCEPT ![m] = now]
        /\ UNCHANGED <<now, fetch, found>>
    BY <1>2 DEF Set
  <2>2. \A o : Takers(o)' = Takers(o)
    BY <2>1 DEF Takers
  <2>3. UNCHANGED boxTakers
    BY <2>2 DEF boxTakers
  <2>4. CASE m \in Box
    <3>1. /\ m \notin boxAccepted /\ boxAccepted' = boxAccepted \cup {m}
          /\ boxPosted' = [boxPosted EXCEPT ![m] = now]
      BY <2>1, <2>4 DEF boxAccepted, boxPosted, TypeOK, Box
    <3>2. Abstract!Post(m)
      BY <2>1, <2>3, <3>1 DEF Abstract!Post, boxAccepted, boxPosted, boxTakers
    <3>. QED  BY <2>4, <3>2 DEF Abstract!Next
  <2>5. CASE m \notin Box
    <3>1. boxAccepted' = boxAccepted /\ boxPosted' = boxPosted
      BY <2>1, <2>5 DEF boxAccepted, boxPosted, TypeOK, Box
    <3>. QED  BY <2>1, <2>3, <3>1 DEF boxAccepted, boxPosted, boxTakers
  <2>. QED  BY <2>4, <2>5
<1>3. ASSUME NEW g \in Get,
             Fetch(g) \/ FetchFindsNothing(g) \/ FetchFindsExpired(g)
      PROVE  UNCHANGED Abstract!vars
  BY <1>1, <1>3 DEF Fetch, FetchFindsNothing, FetchFindsExpired, TypeOK
<1>4. ASSUME NEW g \in Get, FetchReturns(g)
      PROVE  [Abstract!Next]_(Abstract!vars)
  <2>. DEFINE m == found[g].mail
  <2>1. /\ fetch[g] = "resume" /\ found[g] # NoRow /\ now < found[g].expiry
        /\ fetch' = [fetch EXCEPT ![g] = "sent"]
        /\ UNCHANGED <<now, accepted, posted, found>>
    BY <1>4 DEF FetchReturns
  <2>2. /\ m \in Mail /\ m \in accepted /\ m.key = g.key
        /\ found[g].expiry = posted[m] + Ttl
    BY <2>1, RowFields DEF IInv, FoundOK, Good, TypeOK
  <2>3. \A o : o # m => Takers(o)' = Takers(o)
    BY <2>1 DEF Takers, TypeOK
  <2>4. CASE g.key \in Patient
    <3>1. m \in Box
      BY <2>2, <2>4 DEF Box
    <3>2. Takers(m) = {}
      <4>. SUFFICES ASSUME NEW h \in Get, fetch[h] = "sent", found[h].mail = m
                    PROVE  FALSE
        BY DEF Takers
      <4>1. h.key = g.key /\ found[h] # NoRow /\ h # g
        BY <2>1, <2>2 DEF IInv, FoundOK, NoRow
      <4>. QED  BY <2>1, <2>4, <4>1 DEF MailboxInv, TakenIsGone
    <3>3. Takers(m)' = {g}
      BY <2>1, <3>2 DEF Takers, TypeOK
    <3>4. boxTakers' = [boxTakers EXCEPT ![m] = {g}]
      <4>1. \A o \in Box : Takers(o)' = IF o = m THEN {g} ELSE Takers(o)
        BY <2>1, <2>3, <3>3
      <4>2. boxTakers' = [o \in Box |-> IF o = m THEN {g} ELSE Takers(o)]
        BY <4>1 DEF boxTakers
      <4>. QED  BY <3>1, <4>2 DEF boxTakers
    <3>5. boxTakers[m] = {} /\ boxPosted[m] = posted[m] /\ m \in boxAccepted
      BY <2>2, <3>1, <3>2 DEF boxTakers, boxPosted, boxAccepted
    <3>6. Abstract!Take(m, g)
      BY <2>1, <2>2, <3>4, <3>5
         DEF Abstract!Take, boxTakers, boxPosted, boxAccepted
    <3>. QED  BY <3>1, <3>6 DEF Abstract!Next
  <2>5. CASE g.key \notin Patient
    <3>1. m \notin Box
      BY <2>2, <2>5 DEF Box
    <3>2. boxTakers' = boxTakers
      BY <2>3, <3>1 DEF boxTakers
    <3>. QED  BY <2>1, <3>2 DEF boxTakers
  <2>. QED  BY <2>4, <2>5
<1>5. ASSUME NEW i, Insert(i) \/ Select(i) \/ Delete(i) \/ DeleteExpired(i)
      PROVE  UNCHANGED Abstract!vars
  <2>1. CASE Insert(i) \/ Delete(i) \/ DeleteExpired(i)
    BY <1>1, <2>1 DEF Insert, Delete, DeleteExpired
  <2>2. CASE Select(i)
    <3>. DEFINE g == statements[i].get
    <3>1. /\ i \in 1 .. Len(statements) /\ statements[i].op = "select"
          /\ g \in Get
      BY <2>2, ExecuteKeeps, StatementFields DEF Select
    <3>2. fetch[g] = "select"
      BY <3>1 DEF IInv, StatementsOK, StatementOK
    <3>3. /\ fetch'[g] = "resume"
          /\ \A h \in Get : h # g => fetch'[h] = fetch[h] /\ found'[h] = found[h]
          /\ UNCHANGED <<accepted, posted, now>>
      BY <2>2, <3>1 DEF Select, TypeOK
    <3>. QED  BY <1>1, <3>2, <3>3
  <2>. QED  BY <1>5, <2>1, <2>2
<1>6. ASSUME CleanUp \/ UNCHANGED vars
      PROVE  UNCHANGED Abstract!vars
  BY <1>1, <1>6 DEF CleanUp, vars
<1>7. ASSUME Tick
      PROVE  Abstract!Tick
  <2>1. \A m : Takers(m)' = Takers(m)
    BY <1>7 DEF Takers, Tick
  <2>. QED  BY <1>7, <2>1 DEF Tick, Abstract!Tick
<1>8. ASSUME Restart
      PROVE  Abstract!Restart
  <2>. DEFINE M == {m \in Box : Deleting(m.key)}
  <2>1. /\ UNCHANGED <<now, accepted, posted, found>>
        /\ \A g \in Get : fetch'[g] = "sent" <=>
              fetch[g] = "sent" /\ ~Deleting(g.key)
    BY <1>8 DEF Restart, TypeOK
  <2>2. ASSUME NEW m \in Box
        PROVE  Takers(m)' = IF m \in M THEN {} ELSE Takers(m)
    <3>1. \A g \in Get : found[g].mail = m => g.key = m.key
      BY <2>2 DEF IInv, FoundOK, NoRow, Box
    <3>. QED  BY <2>1, <3>1 DEF Takers
  <2>3. boxTakers' = [m \in Box |-> IF m \in M THEN {} ELSE boxTakers[m]]
    BY <2>2 DEF boxTakers
  <2>. QED  BY <2>1, <2>3 DEF Abstract!Restart, boxTakers
<1>9. CASE \E g \in Get : Fetch(g) \/ Resume(g)
  BY <1>3, <1>4, <1>9 DEF Resume
<1>10. CASE Database
  BY <1>5, <1>10 DEF Database
<1>. QED  BY <1>2, <1>6, <1>7, <1>8, <1>9, <1>10 DEF Next, Abstract!Next

\* On one database connection the Web5 Connect server is a mailbox: what is
\* posted is handed out once, while it is fresh, but for a restart that loses
\* the delete, whichever fetches, deletes and clean-ups are under way.
THEOREM Refinement ==
    ASSUME InOrder
    PROVE  Spec => OneTimeMailbox
<1>1. TypeOK /\ IInv /\ MailboxInv /\ [Next]_vars => MailboxInv'
  BY NextMailbox
<1>2. TypeOK /\ IInv /\ [Next]_vars => IInv'
  BY NextInvariant
<1>. QED
  BY <1>1, <1>2, InitInvariant, InitMailbox, InitBox, NextBox, Typing, PTL
     DEF Spec, OneTimeMailbox, Abstract!Spec

\* What a fetch has returned it had found.
SentIsFound == \A g \in Get : fetch[g] = "sent" => found[g] # NoRow

LEMMA SentStep ==
    TypeOK /\ IInv /\ SentIsFound /\ [Next]_vars => SentIsFound'
<1>. SUFFICES ASSUME TypeOK, IInv, SentIsFound, [Next]_vars PROVE SentIsFound'
  OBVIOUS
<1>1. ASSUME NEW i, Select(i) PROVE SentIsFound'
  <2>. DEFINE g == statements[i].get
  <2>1. /\ i \in 1 .. Len(statements) /\ statements[i].op = "select"
        /\ g \in Get
    BY <1>1, ExecuteKeeps, StatementFields DEF Select
  <2>2. /\ fetch'[g] = "resume"
        /\ \A h \in Get : h # g => fetch'[h] = fetch[h] /\ found'[h] = found[h]
    BY <1>1, <2>1 DEF Select, TypeOK
  <2>. HIDE DEF g
  <2>. QED  BY <2>2 DEF SentIsFound
<1>2. ASSUME NEW g \in Get, Fetch(g) \/ Resume(g) PROVE SentIsFound'
  BY <1>2 DEF Fetch, Resume, FetchFindsNothing, FetchFindsExpired, FetchReturns,
              SentIsFound, TypeOK
<1>3. CASE Restart
  BY <1>3 DEF Restart, SentIsFound, TypeOK
<1>4. CASE UNCHANGED <<fetch, found>>
  BY <1>4 DEF SentIsFound
<1>. QED
  BY <1>1, <1>2, <1>3, <1>4
     DEF Next, Database, Set, Insert, Delete, DeleteExpired, CleanUp, Tick, vars

\* "This request object can only be used once": so it is when no key is fetched
\* twice at a time, until a restart loses a delete.
THEOREM Once ==
    ASSUME InOrder, \A g \in Get : g.key \in Patient
    PROVE  Spec => []UsedOnce
<1>1. TypeOK /\ IInv /\ MailboxInv /\ [Next]_vars => MailboxInv'
  BY NextMailbox
<1>2. TypeOK /\ IInv /\ [Next]_vars => IInv'
  BY NextInvariant
<1>3. Init => SentIsFound
  BY DEF Init, SentIsFound
<1>4. MailboxInv /\ SentIsFound => UsedOnce
  BY DEF MailboxInv, TakenIsGone, SentIsFound, UsedOnce
<1>. QED
  BY <1>1, <1>2, <1>3, <1>4, SentStep, InitInvariant, InitMailbox, Typing, PTL
     DEF Spec
==============================================================================
