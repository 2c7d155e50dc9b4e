--------------------------- MODULE Web5ConnectProofs ---------------------------
(***************************************************************************)
(* Proofs about Web5Connect, for any keys, objects and fetches, and for    *)
(* statements that the database executes in any order.                     *)
(***************************************************************************)
EXTENDS Web5Connect, TLAPS

USE Web5Assumption

(* Sequences of statements.                                                *)

LEMMA AppendElements ==
    ASSUME NEW S, NEW s \in Seq(S), NEW e \in S
    PROVE  /\ Append(s, e) \in Seq(S)
           /\ Len(Append(s, e)) = Len(s) + 1
           /\ \A j \in 1 .. Len(s) : Append(s, e)[j] = s[j]
           /\ Append(s, e)[Len(s) + 1] = e
OBVIOUS

LEMMA RemoveAtElements ==
    ASSUME NEW S, NEW s \in Seq(S), NEW i \in DOMAIN s
    PROVE  /\ RemoveAt(s, i) \in Seq(S)
           /\ Len(RemoveAt(s, i)) = Len(s) - 1
           /\ \A j \in 1 .. Len(s) - 1 :
                 RemoveAt(s, i)[j] = s[IF j < i THEN j ELSE j + 1]
<1>. DEFINE a == SubSeq(s, 1, i - 1)
            b == SubSeq(s, i + 1, Len(s))
<1>1. i \in 1 .. Len(s)
  OBVIOUS
<1>2. a \in Seq(S) /\ Len(a) = i - 1 /\ \A j \in 1 .. i - 1 : a[j] = s[j]
  BY <1>1
<1>3. /\ b \in Seq(S) /\ Len(b) = Len(s) - i
      /\ \A j \in 1 .. Len(s) - i : b[j] = s[i + j]
  BY <1>1
<1>4. RemoveAt(s, i) = a \o b
  BY DEF RemoveAt
<1>. HIDE DEF a, b
<1>5. /\ a \o b \in Seq(S) /\ Len(a \o b) = Len(s) - 1
      /\ \A j \in 1 .. Len(s) - 1 :
            (a \o b)[j] = IF j < i THEN a[j] ELSE b[j - (i - 1)]
  BY <1>1, <1>2, <1>3
<1>6. \A j \in 1 .. Len(s) - 1 :
          (a \o b)[j] = s[IF j < i THEN j ELSE j + 1]
  <2>. TAKE j \in 1 .. Len(s) - 1
  <2>1. CASE j < i
    BY <1>1, <1>2, <1>5, <2>1
  <2>2. CASE ~(j < i)
    <3>1. j - (i - 1) \in 1 .. Len(s) - i /\ i + (j - (i - 1)) = j + 1
      BY <1>1, <2>2
    <3>. QED  BY <1>3, <1>5, <2>2, <3>1
  <2>. QED  BY <2>1, <2>2
<1>. QED  BY <1>4, <1>5, <1>6

LEMMA StatementFields ==
    ASSUME NEW s \in Statement
    PROVE  /\ s.op \in {"insert", "select", "delete", "cleanUp"}
           /\ s.op = "insert" => s.row \in Row
           /\ s.op = "select" => s.get \in Get
           /\ s.op = "delete" => s.key \in Key
           /\ s.op = "cleanUp" => s.at \in Nat
BY DEF Statement

LEMMA RowFields ==
    ASSUME NEW r \in Row
    PROVE  r.mail \in Mail /\ r.expiry \in Nat /\ r # NoRow
BY DEF Row, NoRow

\* Executing a statement keeps the others, in their order.
LEMMA ExecuteKeeps ==
    ASSUME TypeOK, NEW i, NEW op, Execute(i, op)
    PROVE  /\ i \in 1 .. Len(statements) /\ statements[i].op = op
           /\ statements[i] \in Statement
           /\ statements' \in Seq(Statement)
           /\ Len(statements') = Len(statements) - 1
           /\ \A j \in 1 .. Len(statements) - 1 :
                 statements'[j] = statements[IF j < i THEN j ELSE j + 1]
           /\ \A j \in 1 .. Len(statements) : j # i =>
                 \E k \in 1 .. Len(statements') : statements'[k] = statements[j]
<1>1. /\ statements \in Seq(Statement) /\ i \in DOMAIN statements
      /\ statements' = RemoveAt(statements, i) /\ statements[i].op = op
  BY DEF TypeOK, Execute
<1>2. i \in 1 .. Len(statements) /\ statements[i] \in Statement
  BY <1>1
<1>3. /\ statements' \in Seq(Statement)
      /\ Len(statements') = Len(statements) - 1
      /\ \A j \in 1 .. Len(statements) - 1 :
            statements'[j] = statements[IF j < i THEN j ELSE j + 1]
  BY <1>1, RemoveAtElements
<1>4. \A j \in 1 .. Len(statements) : j # i =>
          \E k \in 1 .. Len(statements') : statements'[k] = statements[j]
  <2>. TAKE j \in 1 .. Len(statements)
  <2>. HAVE j # i
  <2>1. CASE j < i
    BY <1>2, <1>3, <2>1
  <2>2. CASE j > i
    <3>1. /\ j - 1 \in 1 .. Len(statements')
          /\ ~(j - 1 < i) /\ (j - 1) + 1 = j
      BY <1>2, <1>3, <2>2
    <3>2. statements'[j - 1] = statements[j]
      BY <1>3, <3>1
    <3>. QED  BY <3>1, <3>2
  <2>. QED  BY <1>2, <2>1, <2>2
<1>. QED  BY <1>1, <1>2, <1>3, <1>4

------------------------------------------------------------------------------
(* Types.                                                                  *)

LEMMA SendType ==
    ASSUME TypeOK, NEW s \in Statement, Send(s)
    PROVE  statements' \in Seq(Statement)
BY AppendElements DEF TypeOK, Send

LEMMA TypeStep == TypeOK /\ [Next]_vars => TypeOK'
<1>. SUFFICES ASSUME TypeOK, [Next]_vars PROVE TypeOK'
  OBVIOUS
<1>1. ASSUME NEW m \in Mail, Set(m) PROVE TypeOK'
  <2>1. [mail |-> m, expiry |-> now + Ttl] \in Row
    BY DEF TypeOK, Row
  <2>2. statements' \in Seq(Statement)
    BY <1>1, <2>1, SendType DEF Set, Statement, Expiry
  <2>. QED  BY <1>1, <2>2 DEF Set, TypeOK
<1>2. ASSUME NEW g \in Get, Fetch(g) PROVE TypeOK'
  <2>1. statements' \in Seq(Statement)
    BY <1>2, SendType DEF Fetch, Statement
  <2>. QED  BY <1>2, <2>1 DEF Fetch, TypeOK
<1>3. ASSUME NEW g \in Get, FetchFindsNothing(g) PROVE TypeOK'
  BY <1>3 DEF FetchFindsNothing, TypeOK
<1>4. ASSUME NEW g \in Get, FetchFindsExpired(g) \/ FetchReturns(g)
      PROVE  TypeOK'
  <2>1. statements' \in Seq(Statement)
    BY <1>4, SendType DEF FetchFindsExpired, FetchReturns, Statement
  <2>. QED  BY <1>4, <2>1 DEF FetchFindsExpired, FetchReturns, TypeOK
<1>5. ASSUME NEW i, Insert(i) PROVE TypeOK'
  <2>1. Execute(i, "insert")
    BY <1>5 DEF Insert
  <2>2. statements' \in Seq(Statement) /\ statements[i].row \in Row
    BY <2>1, ExecuteKeeps, StatementFields
  <2>3. rows' \in [Key -> Row \cup {NoRow}]
    BY <1>5, <2>2 DEF Insert, TypeOK
  <2>. QED  BY <1>5, <2>2, <2>3 DEF Insert, TypeOK
<1>6. ASSUME NEW i, Select(i) PROVE TypeOK'
  BY <1>6, ExecuteKeeps, StatementFields DEF Select, TypeOK
<1>7. ASSUME NEW i, Delete(i) \/ DeleteExpired(i) PROVE TypeOK'
  <2>1. statements' \in Seq(Statement)
    BY <1>7, ExecuteKeeps DEF Delete, DeleteExpired
  <2>2. rows' \in [Key -> Row \cup {NoRow}]
    BY <1>7 DEF Delete, DeleteExpired, TypeOK
  <2>. QED  BY <1>7, <2>1, <2>2 DEF Delete, DeleteExpired, TypeOK
<1>8. CASE CleanUp
  <2>1. statements' \in Seq(Statement)
    BY <1>8, SendType DEF CleanUp, Statement, TypeOK
  <2>. QED  BY <1>8, <2>1 DEF CleanUp, TypeOK
<1>9. CASE Restart
  BY <1>9 DEF Restart, TypeOK
<1>10. CASE Tick \/ UNCHANGED vars
  BY <1>10 DEF Tick, vars, TypeOK
<1>. QED
  BY <1>1, <1>2, <1>3, <1>4, <1>5, <1>6, <1>7, <1>8, <1>9, <1>10
     DEF Next, Resume, Database

\* Every variable keeps its type: the table holds rows of posted objects only,
\* and the database is sent no statement that it does not know.
THEOREM Typing == Spec => []TypeOK
<1>1. Init => TypeOK
  BY DEF Init, TypeOK
<1>. QED  BY <1>1, TypeStep, PTL DEF Spec

------------------------------------------------------------------------------
(* No fresh object is lost.                                                *)

\* A row is of an accepted object and expires when that object does.
Good(row) == row.mail \in accepted /\ row.expiry = posted[row.mail] + Ttl

\* No other object has the key of m.
Alone(m) == \A o \in Mail \ {m} : o.key # m.key

\* m may go.
Done(m) == m \in accepted /\ (Sent(m) \/ now >= posted[m] + Ttl)

\* A statement is about what its sender knew, which is still so: an insert is of
\* an accepted object, a select has its fetch waiting, a delete takes nothing
\* but what may go, and a clean-up was sent in the past.
StatementOK(s) ==
    /\ s.op = "insert" => Good(s.row)
    /\ s.op = "select" => fetch[s.get] = "select"
    /\ s.op = "delete" => \A m \in Mail : m.key = s.key /\ Alone(m) => Done(m)
    /\ s.op = "cleanUp" => s.at <= now

StatementsOK == \A i \in 1 .. Len(statements) : StatementOK(statements[i])

OneSelect ==
    \A i, j \in 1 .. Len(statements) :
        (/\ statements[i].op = "select" /\ statements[j].op = "select"
         /\ statements[i].get = statements[j].get) => i = j

RowsOK ==
    \A k \in Key : rows[k] # NoRow => Good(rows[k]) /\ rows[k].mail.key = k

FoundOK ==
    \A g \in Get : found[g] # NoRow =>
        Good(found[g]) /\ found[g].mail.key = g.key

IInv == StatementsOK /\ OneSelect /\ RowsOK /\ FoundOK /\ FreshIsKept

\* What holds of a statement goes on holding unless its object is taken back.
LEMMA StatementStays ==
    ASSUME TypeOK, NEW s \in Statement, StatementOK(s),
           accepted \subseteq accepted', now <= now', now' \in Nat,
           \A m \in accepted : posted'[m] = posted[m] /\ (Sent(m) => Sent(m)'),
           s.op = "select" => fetch'[s.get] = "select"
    PROVE  StatementOK(s)'
<1>1. s.op = "insert" => Good(s.row)'
  <2>1. s.op = "insert" => s.row.mail \in accepted
                          /\ s.row.expiry = posted[s.row.mail] + Ttl
    BY DEF StatementOK, Good
  <2>. QED  BY <2>1 DEF Good
<1>2. \A m \in Mail : Done(m) => Done(m)'
  <2>. SUFFICES ASSUME NEW m \in Mail, Done(m) PROVE Done(m)'
    OBVIOUS
  <2>1. posted[m] \in Nat /\ now \in Nat /\ posted'[m] = posted[m]
        /\ m \in accepted' /\ (Sent(m) => Sent(m)')
    BY DEF Done, TypeOK
  <2>. QED  BY <2>1 DEF Done
<1>3. s.op = "delete" =>
          \A m \in Mail : m.key = s.key /\ Alone(m) => Done(m)'
  BY <1>2 DEF StatementOK
<1>4. s.op = "cleanUp" => s.at <= now'
  BY StatementFields DEF StatementOK, TypeOK
<1>. QED  BY <1>1, <1>3, <1>4 DEF StatementOK, Alone

\* What is shown of any statement holds of those that are there.
LEMMA EachStatement ==
    ASSUME statements' \in Seq(Statement),
           \A k \in 1 .. Len(statements') : \A t \in Statement :
              t = statements'[k] => StatementOK(t)'
    PROVE  StatementsOK'
<1>. SUFFICES ASSUME NEW k \in 1 .. Len(statements')
              PROVE  StatementOK(statements[k])'
  BY DEF StatementsOK
<1>1. PICK t \in Statement : t = statements'[k]
  OBVIOUS
<1>2. StatementOK(t)'
  BY <1>1
<1>. QED  BY <1>1, <1>2 DEF StatementOK

\* Sending nothing.
LEMMA KeepStays ==
    ASSUME TypeOK, StatementsOK, UNCHANGED statements,
           \A t \in Statement : StatementOK(t) => StatementOK(t)'
    PROVE  StatementsOK'
<1>1. statements' \in Seq(Statement) /\ statements' = statements
  BY DEF TypeOK
<1>. SUFFICES ASSUME NEW i \in 1 .. Len(statements'), NEW t \in Statement,
                     t = statements'[i]
              PROVE  StatementOK(t)'
  BY <1>1, EachStatement
<1>2. StatementOK(t)
  BY <1>1 DEF StatementsOK
<1>. QED  BY <1>2

\* Sending a statement that is right.
LEMMA SendStays ==
    ASSUME TypeOK, StatementsOK, OneSelect, NEW s \in Statement, Send(s),
           StatementOK(s)',
           s.op = "select" => fetch[s.get] # "select",
           \A t \in Statement : StatementOK(t) => StatementOK(t)'
    PROVE  /\ StatementsOK' /\ OneSelect'
           /\ \A m \in Mail : Sending(m) => Sending(m)'
<1>1. /\ statements \in Seq(Statement) /\ statements' = Append(statements, s)
  BY DEF TypeOK, Send
<1>2. /\ Len(statements') = Len(statements) + 1
      /\ \A j \in 1 .. Len(statements) : statements'[j] = statements[j]
      /\ statements'[Len(statements) + 1] = s
      /\ statements' \in Seq(Statement)
  BY <1>1, AppendElements
<1>3. StatementsOK'
  <2>. SUFFICES ASSUME NEW i \in 1 .. Len(statements'), NEW t \in Statement,
                       t = statements'[i]
                PROVE  StatementOK(t)'
    BY <1>2, EachStatement
  <2>1. CASE i \in 1 .. Len(statements)
    <3>1. t = statements[i]
      BY <1>2, <2>1
    <3>2. StatementOK(t)
      BY <2>1, <3>1 DEF StatementsOK
    <3>. QED  BY <3>2
  <2>2. CASE i = Len(statements) + 1
    <3>1. t = s
      BY <1>2, <2>2
    <3>. QED  BY <3>1
  <2>. QED  BY <1>1, <1>2, <2>1, <2>2
<1>4. OneSelect'
  BY <1>1, <1>2 DEF OneSelect, StatementsOK, StatementOK
<1>5. \A m \in Mail : Sending(m) => Sending(m)'
  BY <1>1, <1>2 DEF Sending
<1>. QED  BY <1>3, <1>4, <1>5

\* Executing a statement.
LEMMA ExecuteStays ==
    ASSUME TypeOK, StatementsOK, OneSelect, NEW i, NEW op, Execute(i, op),
           \A t \in Statement :
              StatementOK(t)
              /\ (op = "select" /\ t.op = "select" => t.get # statements[i].get)
              => StatementOK(t)'
    PROVE  /\ StatementsOK' /\ OneSelect'
           /\ op # "insert" => \A m \in Mail : Sending(m) => Sending(m)'
<1>1. /\ i \in 1 .. Len(statements) /\ statements[i].op = op
      /\ statements \in Seq(Statement) /\ statements' \in Seq(Statement)
      /\ Len(statements') = Len(statements) - 1
      /\ \A j \in 1 .. Len(statements) - 1 :
            statements'[j] = statements[IF j < i THEN j ELSE j + 1]
  BY ExecuteKeeps DEF TypeOK
<1>2. StatementsOK'
  <2>. SUFFICES ASSUME NEW k \in 1 .. Len(statements'), NEW t \in Statement,
                       t = statements'[k]
                PROVE  StatementOK(t)'
    BY <1>1, EachStatement
  <2>1. PICK j \in 1 .. Len(statements) : j # i /\ t = statements[j]
    <3>1. k \in 1 .. Len(statements) - 1
      BY <1>1
    <3>2. CASE k < i
      <4>1. t = statements[k] /\ k \in 1 .. Len(statements) /\ k # i
        BY <1>1, <3>1, <3>2
      <4>. QED  BY <4>1
    <3>3. CASE ~(k < i)
      <4>1. /\ t = statements[k + 1] /\ k + 1 \in 1 .. Len(statements)
            /\ k + 1 # i
        BY <1>1, <3>1, <3>3
      <4>. QED  BY <4>1
    <3>. QED  BY <3>2, <3>3
  <2>2. StatementOK(t)
    BY <2>1 DEF StatementsOK
  <2>3. op = "select" /\ t.op = "select" => t.get # statements[i].get
    BY <1>1, <2>1 DEF OneSelect
  <2>. QED  BY <2>2, <2>3
<1>3. OneSelect'
  <2>. SUFFICES ASSUME NEW j \in 1 .. Len(statements'),
                       NEW k \in 1 .. Len(statements'),
                       statements'[j].op = "select", statements'[k].op = "select",
                       statements'[j].get = statements'[k].get
                PROVE  j = k
    BY DEF OneSelect
  <2>. DEFINE at(l) == IF l < i THEN l ELSE l + 1
  <2>1. /\ statements'[j] = statements[at(j)] /\ at(j) \in 1 .. Len(statements)
        /\ statements'[k] = statements[at(k)] /\ at(k) \in 1 .. Len(statements)
    BY <1>1
  <2>2. at(j) = at(k)
    <3>. HIDE DEF at
    <3>. QED  BY <2>1 DEF OneSelect
  <2>. QED  BY <1>1, <2>2
<1>4. op # "insert" => \A m \in Mail : Sending(m) => Sending(m)'
  <2>. SUFFICES ASSUME op # "insert", NEW m \in Mail,
                       NEW j \in 1 .. Len(statements),
                       statements[j].op = "insert", statements[j].row.mail = m
                PROVE  Sending(m)'
    BY <1>1 DEF Sending
  <2>1. j # i
    BY <1>1
  <2>2. PICK k \in 1 .. Len(statements') : statements'[k] = statements[j]
    BY <2>1, ExecuteKeeps
  <2>. QED  BY <1>1, <2>2 DEF Sending
<1>. QED  BY <1>2, <1>3, <1>4

\* Rows stay good when objects are only added.
LEMMA GoodStays ==
    ASSUME TypeOK, accepted \subseteq accepted',
           \A m \in accepted : posted'[m] = posted[m], UNCHANGED <<rows, found>>
    PROVE  (RowsOK => RowsOK') /\ (FoundOK => FoundOK')
BY DEF RowsOK, FoundOK, Good

\* An object may leave the table and the statements when it may go.
LEMMA FreshStays ==
    ASSUME TypeOK, FreshIsKept, UNCHANGED <<accepted, posted>>,
           now <= now', now' \in Nat, restarts <= restarts', restarts' \in Nat,
           \A m \in Mail : Sent(m) => Sent(m)',
           \A m \in Mail : Alone(m) /\ (InTable(m) \/ Sending(m)) =>
              InTable(m)' \/ Sending(m)' \/ Done(m)
    PROVE  FreshIsKept'
<1>. SUFFICES ASSUME NEW m \in accepted, Alone(m), restarts' = 0,
                     ~(now' >= posted[m] + Ttl), ~Sent(m)'
              PROVE  InTable(m)' \/ Sending(m)'
  BY DEF FreshIsKept, Alone, TypeOK
<1>1. m \in Mail /\ posted[m] \in Nat /\ now \in Nat /\ restarts \in Nat
  BY DEF TypeOK
<1>2. restarts = 0 /\ ~(now >= posted[m] + Ttl) /\ ~Sent(m)
  BY <1>1
<1>3. InTable(m) \/ Sending(m)
  BY <1>1, <1>2 DEF FreshIsKept, Alone
<1>. QED  BY <1>1, <1>2, <1>3 DEF Done

LEMMA SetStep ==
    ASSUME TypeOK, IInv, NEW o \in Mail, Set(o) PROVE IInv'
<1>1. PICK s \in Statement :
          s = [op |-> "insert", row |-> [mail |-> o, expiry |-> now + Ttl]]
  <2>1. [mail |-> o, expiry |-> now + Ttl] \in Row
    BY DEF Row, TypeOK
  <2>. QED  BY <2>1 DEF Statement
<1>2. /\ Send(s) /\ o \notin accepted /\ accepted' = accepted \cup {o}
      /\ posted' = [posted EXCEPT ![o] = now]
      /\ UNCHANGED <<now, rows, fetch, found, restarts>>
  BY <1>1 DEF Set, Expiry
<1>3. /\ accepted \subseteq accepted' /\ posted'[o] = now
      /\ \A m \in Mail : m # o => posted'[m] = posted[m]
      /\ \A m \in accepted : m # o /\ m \in Mail
  BY <1>2 DEF TypeOK
<1>4. \A m \in Mail : Sent(m) <=> Sent(m)'
  BY <1>2 DEF Sent
<1>5. \A t \in Statement : StatementOK(t) => StatementOK(t)'
  <2>1. now <= now' /\ now' \in Nat
    BY <1>2 DEF TypeOK
  <2>. QED  BY <1>2, <1>3, <1>4, <2>1, StatementStays DEF StatementOK
<1>6. StatementOK(s)'
  BY <1>1, <1>2, <1>3 DEF StatementOK, Good
<1>7. /\ StatementsOK' /\ OneSelect'
      /\ \A m \in Mail : Sending(m) => Sending(m)'
  BY <1>1, <1>2, <1>5, <1>6, SendStays DEF IInv
<1>8. RowsOK' /\ FoundOK'
  BY <1>2, <1>3, GoodStays DEF IInv
<1>9. Sending(o)'
  <2>1. /\ Len(statements) + 1 \in DOMAIN statements'
        /\ statements'[Len(statements) + 1] = s
    BY <1>2, AppendElements DEF Send, TypeOK
  <2>. QED  BY <1>1, <2>1 DEF Sending
<1>10. FreshIsKept'
  <2>. SUFFICES ASSUME NEW m \in accepted', Alone(m), restarts = 0,
                       ~(now >= posted'[m] + Ttl), ~Sent(m)
                PROVE  InTable(m) \/ Sending(m)'
    <3>1. \A m \in accepted' : m \in Mail
      BY <1>2 DEF TypeOK
    <3>. QED  BY <1>2, <1>4, <3>1 DEF FreshIsKept, Alone, InTable, TypeOK
  <2>1. CASE m = o
    BY <1>9, <2>1
  <2>2. CASE m # o
    <3>1. m \in accepted /\ posted'[m] = posted[m]
      BY <1>2, <1>3, <2>2
    <3>2. InTable(m) \/ Sending(m)
      BY <3>1 DEF IInv, FreshIsKept, Alone, TypeOK
    <3>. QED  BY <1>3, <1>7, <3>1, <3>2
  <2>. QED  BY <2>1, <2>2
<1>. QED  BY <1>7, <1>8, <1>10 DEF IInv

\* The steps that change what a fetch knows, or the time, and send at most one
\* statement.
LEMMA QuietStep ==
    ASSUME TypeOK, IInv, UNCHANGED <<rows, accepted, posted, found, restarts>>,
           now <= now', now' \in Nat, NEW s \in Statement,
           \A g \in Get : fetch[g] \in {"select", "sent"} => fetch'[g] = fetch[g],
           \/ UNCHANGED statements
           \/ /\ Send(s) /\ StatementOK(s)'
              /\ s.op = "select" => fetch[s.get] # "select"
    PROVE  IInv'
<1>1. \A m \in Mail : Sent(m) => Sent(m)'
  BY DEF Sent
<1>2. \A t \in Statement : StatementOK(t) => StatementOK(t)'
  <2>. SUFFICES ASSUME NEW t \in Statement, StatementOK(t) PROVE StatementOK(t)'
    OBVIOUS
  <2>1. t.op = "select" => fetch'[t.get] = "select"
    BY StatementFields DEF StatementOK
  <2>. QED  BY <1>1, <2>1, StatementStays DEF TypeOK
<1>3. /\ StatementsOK' /\ OneSelect'
      /\ \A m \in Mail : Sending(m) => Sending(m)'
  <2>1. CASE UNCHANGED statements
    <3>1. StatementsOK'
      BY <1>2, <2>1, KeepStays DEF IInv
    <3>. QED  BY <2>1, <3>1 DEF IInv, OneSelect, Sending
  <2>2. CASE /\ Send(s) /\ StatementOK(s)'
             /\ s.op = "select" => fetch[s.get] # "select"
    BY <1>2, <2>2, SendStays DEF IInv
  <2>. QED  BY <2>1, <2>2
<1>4. RowsOK' /\ FoundOK'
  BY GoodStays DEF IInv
<1>5. FreshIsKept'
  <2>1. restarts <= restarts' /\ restarts' \in Nat
    BY DEF TypeOK
  <2>. QED  BY <1>1, <1>3, <2>1, FreshStays DEF IInv, InTable
<1>. QED  BY <1>3, <1>4, <1>5 DEF IInv

LEMMA FetchStep ==
    ASSUME TypeOK, IInv, NEW g \in Get, Fetch(g) \/ Resume(g) PROVE IInv'
<1>1. now <= now' /\ now' \in Nat
  BY DEF TypeOK, Fetch, Resume, FetchFindsNothing, FetchFindsExpired,
         FetchReturns
<1>2. CASE Fetch(g)
  <2>1. PICK s \in Statement : s = [op |-> "select", get |-> g]
    BY DEF Statement
  <2>2. /\ Send(s) /\ s.op = "select" /\ s.get = g
        /\ fetch[g] = "unsent" /\ fetch' = [fetch EXCEPT ![g] = "select"]
        /\ UNCHANGED <<rows, accepted, posted, found, restarts>>
    BY <1>2, <2>1 DEF Fetch
  <2>3. StatementOK(s)'
    BY <2>2 DEF StatementOK, TypeOK
  <2>. QED  BY <1>1, <2>2, <2>3, QuietStep DEF TypeOK
<1>3. CASE FetchFindsNothing(g)
  <2>1. PICK s \in Statement : s = [op |-> "cleanUp", at |-> 0]
    BY DEF Statement
  <2>. QED  BY <1>1, <1>3, <2>1, QuietStep DEF FetchFindsNothing, TypeOK
<1>4. CASE FetchFindsExpired(g) \/ FetchReturns(g)
  <2>. DEFINE m == found[g].mail
  <2>1. PICK s \in Statement : s = [op |-> "delete", key |-> g.key]
    BY DEF Statement
  <2>2. /\ Send(s) /\ s.op = "delete" /\ s.key = g.key
        /\ fetch[g] = "resume" /\ found[g] # NoRow
        /\ UNCHANGED <<now, rows, accepted, posted, found, restarts>>
        /\ \A f \in Get : f # g => fetch'[f] = fetch[f]
    BY <1>4, <2>1 DEF FetchFindsExpired, FetchReturns, TypeOK
  <2>3. m \in accepted /\ m.key = g.key /\ found[g].expiry = posted[m] + Ttl
    BY <2>2 DEF IInv, FoundOK, Good
  <2>4. now >= posted[m] + Ttl \/ fetch'[g] = "sent"
    BY <1>4, <2>3 DEF FetchFindsExpired, FetchReturns, TypeOK
  <2>5. \A o \in Mail : o.key = g.key /\ Alone(o) => o = m
    BY <2>3 DEF Alone, TypeOK
  <2>6. \A o \in Mail : o.key = s.key /\ Alone(o) => Done(o)'
    BY <2>2, <2>3, <2>4, <2>5 DEF Done, Sent
  <2>7. StatementOK(s)'
    BY <2>2, <2>6 DEF StatementOK, Alone
  <2>. QED  BY <1>1, <2>2, <2>7, QuietStep
<1>. QED  BY <1>2, <1>3, <1>4 DEF Resume

LEMMA TimerStep == ASSUME TypeOK, IInv, CleanUp \/ Tick PROVE IInv'
<1>1. CASE CleanUp
  <2>1. PICK s \in Statement : s = [op |-> "cleanUp", at |-> now]
    BY DEF Statement, TypeOK
  <2>2. /\ Send(s) /\ s.op = "cleanUp" /\ s.at = now
        /\ UNCHANGED <<now, rows, accepted, posted, fetch, found, restarts>>
    BY <1>1, <2>1 DEF CleanUp
  <2>3. StatementOK(s)' /\ now <= now' /\ now' \in Nat
    BY <2>2 DEF StatementOK, TypeOK
  <2>. QED  BY <2>2, <2>3, QuietStep
<1>2. CASE Tick
  <2>1. PICK s \in Statement : s = [op |-> "cleanUp", at |-> 0]
    BY DEF Statement
  <2>. QED  BY <1>2, <2>1, QuietStep DEF Tick, TypeOK
<1>. QED  BY <1>1, <1>2

LEMMA RestartStep == ASSUME TypeOK, IInv, Restart PROVE IInv'
<1>1. StatementsOK' /\ OneSelect'
  BY DEF Restart, StatementsOK, OneSelect
<1>2. RowsOK' /\ FoundOK'
  BY DEF Restart, IInv, RowsOK, FoundOK, Good
<1>3. FreshIsKept'
  BY DEF Restart, TypeOK, FreshIsKept
<1>. QED  BY <1>1, <1>2, <1>3 DEF IInv

\* Executing a statement that leaves the objects, the fetches and the clock.
LEMMA StatementUnchanged ==
    ASSUME TypeOK, UNCHANGED <<now, accepted, posted, fetch, found>>
    PROVE  /\ \A t \in Statement : StatementOK(t) => StatementOK(t)'
           /\ \A m \in Mail : Sent(m) <=> Sent(m)'
           /\ FoundOK => FoundOK'
<1>1. \A m \in Mail : Sent(m) <=> Sent(m)'
  BY DEF Sent
<1>2. FoundOK => FoundOK'
  BY DEF FoundOK, Good
<1>3. ASSUME NEW t \in Statement, StatementOK(t) PROVE StatementOK(t)'
  <2>1. now <= now' /\ now' \in Nat
    BY DEF TypeOK
  <2>2. t.op = "select" => fetch'[t.get] = "select"
    BY <1>3 DEF StatementOK
  <2>. QED  BY <1>1, <1>3, <2>1, <2>2, StatementStays DEF TypeOK
<1>. QED  BY <1>1, <1>2, <1>3

\* A row that is put in the table is good; if it cannot be put, the row that is
\* there already has its key, and is its own when it is alone.
LEMMA InsertStep == ASSUME TypeOK, IInv, NEW i, Insert(i) PROVE IInv'
<1>. DEFINE row == statements[i].row
            o == row.mail
<1>1. /\ Execute(i, "insert")
      /\ rows' = IF rows[o.key] = NoRow THEN [rows EXCEPT ![o.key] = row]
                 ELSE rows
      /\ UNCHANGED <<now, accepted, posted, fetch, found, restarts>>
  BY DEF Insert
<1>2. /\ i \in 1 .. Len(statements) /\ statements[i].op = "insert"
      /\ statements[i] \in Statement /\ row \in Row
  BY <1>1, ExecuteKeeps, StatementFields
<1>3. o \in Mail /\ o.key \in Key /\ row # NoRow
  BY <1>2, RowFields
<1>4. Good(row)
  BY <1>2 DEF IInv, StatementsOK, StatementOK
<1>5. /\ \A t \in Statement : StatementOK(t) => StatementOK(t)'
      /\ \A m \in Mail : Sent(m) <=> Sent(m)'
      /\ FoundOK'
  BY <1>1, StatementUnchanged DEF IInv
<1>6. StatementsOK' /\ OneSelect'
  BY <1>1, <1>5, ExecuteStays DEF IInv
<1>7. RowsOK'
  BY <1>1, <1>3, <1>4 DEF IInv, RowsOK, Good, TypeOK
<1>8. ASSUME NEW m \in Mail, Alone(m), InTable(m) \/ Sending(m)
      PROVE  InTable(m)' \/ Sending(m)'
  <2>1. CASE InTable(m)
    <3>1. rows[m.key] # NoRow
      BY <2>1 DEF InTable, NoRow
    <3>2. rows'[m.key] = rows[m.key]
      BY <1>1, <1>3, <3>1 DEF TypeOK
    <3>. QED  BY <2>1, <3>2 DEF InTable
  <2>2. CASE Sending(m) /\ m = o
    <3>1. CASE rows[o.key] = NoRow
      BY <1>1, <1>3, <2>2, <3>1 DEF InTable, TypeOK
    <3>2. CASE rows[o.key] # NoRow
      <4>1. /\ rows[o.key].mail \in accepted /\ rows[o.key].mail.key = o.key
        BY <1>3, <3>2 DEF IInv, RowsOK, Good
      <4>2. rows[o.key].mail = m
        BY <1>8, <2>2, <4>1 DEF Alone, TypeOK
      <4>. QED  BY <1>1, <2>2, <3>2, <4>2 DEF InTable
    <3>. QED  BY <3>1, <3>2
  <2>3. CASE Sending(m) /\ m # o
    <3>0. DOMAIN statements = 1 .. Len(statements)
      BY DEF TypeOK
    <3>1. PICK j \in 1 .. Len(statements) :
              statements[j].op = "insert" /\ statements[j].row.mail = m
      BY <2>3, <3>0 DEF Sending
    <3>2. PICK k \in 1 .. Len(statements') : statements'[k] = statements[j]
      BY <1>1, <2>3, <3>1, ExecuteKeeps
    <3>3. k \in DOMAIN statements'
      BY <1>1, <3>2, ExecuteKeeps
    <3>. QED  BY <3>1, <3>2, <3>3 DEF Sending
  <2>. QED  BY <1>8, <2>1, <2>2, <2>3
<1>9. FreshIsKept'
  <2>1. now <= now' /\ now' \in Nat /\ restarts <= restarts' /\ restarts' \in Nat
    BY <1>1 DEF TypeOK
  <2>. QED  BY <1>1, <1>5, <1>8, <2>1, FreshStays DEF IInv
<1>. QED  BY <1>5, <1>6, <1>7, <1>9 DEF IInv

\* What a fetch finds is a row of its key.
LEMMA SelectStep == ASSUME TypeOK, IInv, NEW i, Select(i) PROVE IInv'
<1>. DEFINE g == statements[i].get
<1>1. /\ Execute(i, "select")
      /\ found' = [found EXCEPT ![g] = rows[g.key]]
      /\ fetch' = [fetch EXCEPT ![g] = "resume"]
      /\ UNCHANGED <<now, rows, accepted, posted, restarts>>
  BY DEF Select
<1>2. /\ i \in 1 .. Len(statements) /\ statements[i].op = "select" /\ g \in Get
  BY <1>1, ExecuteKeeps, StatementFields
<1>3. fetch[g] = "select"
  BY <1>2 DEF IInv, StatementsOK, StatementOK
<1>4. \A h \in Get : h # g => fetch'[h] = fetch[h] /\ found'[h] = found[h]
  BY <1>1 DEF TypeOK
<1>5. \A m \in Mail : Sent(m) => Sent(m)'
  BY <1>3, <1>4 DEF Sent
<1>6. now <= now' /\ now' \in Nat /\ restarts <= restarts' /\ restarts' \in Nat
  BY <1>1 DEF TypeOK
<1>7. ASSUME NEW t \in Statement, StatementOK(t), t.op = "select" => t.get # g
      PROVE  StatementOK(t)'
  <2>1. t.op = "select" => fetch'[t.get] = "select"
    BY <1>4, <1>7, StatementFields DEF StatementOK
  <2>. QED  BY <1>1, <1>5, <1>6, <1>7, <2>1, StatementStays DEF TypeOK
<1>8. /\ StatementsOK' /\ OneSelect'
      /\ \A m \in Mail : Sending(m) => Sending(m)'
  BY <1>1, <1>7, ExecuteStays DEF IInv
<1>9. RowsOK'
  BY <1>1 DEF IInv, RowsOK, Good
<1>10. FoundOK'
  <2>. SUFFICES ASSUME NEW h \in Get, found'[h] # NoRow
                PROVE  Good(found'[h]) /\ found'[h].mail.key = h.key
    BY <1>1 DEF FoundOK, Good
  <2>1. CASE h = g
    <3>1. found'[h] = rows[g.key] /\ g.key \in Key
      BY <1>1, <1>2, <2>1 DEF TypeOK
    <3>. QED  BY <2>1, <3>1 DEF IInv, RowsOK
  <2>2. CASE h # g
    BY <1>4, <2>2 DEF IInv, FoundOK
  <2>. QED  BY <2>1, <2>2
<1>11. FreshIsKept'
  BY <1>1, <1>5, <1>6, <1>8, FreshStays DEF IInv, InTable
<1>. QED  BY <1>8, <1>9, <1>10, <1>11 DEF IInv

\* A delete takes only what may go.
LEMMA DeleteStep == ASSUME TypeOK, IInv, NEW i, Delete(i) PROVE IInv'
<1>. DEFINE k == statements[i].key
<1>1. /\ Execute(i, "delete") /\ rows' = [rows EXCEPT ![k] = NoRow]
      /\ UNCHANGED <<now, accepted, posted, fetch, found, restarts>>
  BY DEF Delete
<1>2. /\ i \in 1 .. Len(statements) /\ statements[i].op = "delete" /\ k \in Key
  BY <1>1, ExecuteKeeps, StatementFields
<1>3. \A m \in Mail : m.key = k /\ Alone(m) => Done(m)
  BY <1>2 DEF IInv, StatementsOK, StatementOK
<1>4. /\ \A t \in Statement : StatementOK(t) => StatementOK(t)'
      /\ \A m \in Mail : Sent(m) <=> Sent(m)'
      /\ FoundOK'
  BY <1>1, StatementUnchanged DEF IInv
<1>5. /\ StatementsOK' /\ OneSelect'
      /\ \A m \in Mail : Sending(m) => Sending(m)'
  BY <1>1, <1>4, ExecuteStays DEF IInv
<1>6. RowsOK'
  BY <1>1 DEF IInv, RowsOK, Good, TypeOK
<1>7. ASSUME NEW m \in Mail, Alone(m), InTable(m) \/ Sending(m)
      PROVE  InTable(m)' \/ Sending(m)' \/ Done(m)
  <2>1. CASE m.key = k
    BY <1>3, <1>7, <2>1
  <2>2. CASE m.key # k
    <3>1. rows'[m.key] = rows[m.key]
      BY <1>1, <2>2 DEF TypeOK
    <3>. QED  BY <1>5, <1>7, <3>1 DEF InTable
  <2>. QED  BY <2>1, <2>2
<1>8. FreshIsKept'
  <2>1. now <= now' /\ now' \in Nat /\ restarts <= restarts' /\ restarts' \in Nat
    BY <1>1 DEF TypeOK
  <2>. QED  BY <1>1, <1>4, <1>7, <2>1, FreshStays DEF IInv
<1>. QED  BY <1>4, <1>5, <1>6, <1>8 DEF IInv

\* A clean-up takes only what has expired.
LEMMA DeleteExpiredStep ==
    ASSUME TypeOK, IInv, NEW i, DeleteExpired(i) PROVE IInv'
<1>. DEFINE at == statements[i].at
<1>1. /\ Execute(i, "cleanUp")
      /\ rows' = [k \in Key |-> IF rows[k].expiry < at THEN NoRow ELSE rows[k]]
      /\ UNCHANGED <<now, accepted, posted, fetch, found, restarts>>
  BY DEF DeleteExpired
<1>2. /\ i \in 1 .. Len(statements) /\ statements[i].op = "cleanUp"
      /\ at \in Nat
  BY <1>1, ExecuteKeeps, StatementFields
<1>3. at <= now
  BY <1>2 DEF IInv, StatementsOK, StatementOK
<1>4. /\ \A t \in Statement : StatementOK(t) => StatementOK(t)'
      /\ \A m \in Mail : Sent(m) <=> Sent(m)'
      /\ FoundOK'
  BY <1>1, StatementUnchanged DEF IInv
<1>5. /\ StatementsOK' /\ OneSelect'
      /\ \A m \in Mail : Sending(m) => Sending(m)'
  BY <1>1, <1>4, ExecuteStays DEF IInv
<1>6. RowsOK'
  BY <1>1 DEF IInv, RowsOK, Good
<1>7. ASSUME NEW m \in Mail, InTable(m)
      PROVE  InTable(m)' \/ Done(m)
  <2>1. m.key \in Key /\ rows[m.key] # NoRow
    BY <1>7 DEF InTable, NoRow
  <2>2. m \in accepted /\ rows[m.key].expiry = posted[m] + Ttl
    BY <1>7, <2>1 DEF IInv, RowsOK, Good, InTable
  <2>3. CASE posted[m] + Ttl < at
    BY <1>2, <1>3, <2>2, <2>3 DEF Done, TypeOK
  <2>4. CASE ~(posted[m] + Ttl < at)
    <3>1. rows'[m.key] = rows[m.key]
      BY <1>1, <2>1, <2>2, <2>4
    <3>. QED  BY <1>7, <3>1 DEF InTable
  <2>. QED  BY <2>3, <2>4
<1>8. FreshIsKept'
  <2>1. now <= now' /\ now' \in Nat /\ restarts <= restarts' /\ restarts' \in Nat
    BY <1>1 DEF TypeOK
  <2>. QED  BY <1>1, <1>4, <1>5, <1>7, <2>1, FreshStays DEF IInv
<1>. QED  BY <1>4, <1>5, <1>6, <1>8 DEF IInv

LEMMA InitInvariant == Init => IInv
BY DEF Init, IInv, StatementsOK, OneSelect, RowsOK, FoundOK, FreshIsKept, NoRow

LEMMA NextInvariant == TypeOK /\ IInv /\ [Next]_vars => IInv'
<1>. SUFFICES ASSUME TypeOK, IInv, [Next]_vars PROVE IInv'
  OBVIOUS
<1>1. CASE Database
  BY <1>1, InsertStep, SelectStep, DeleteStep, DeleteExpiredStep DEF Database
<1>2. CASE UNCHANGED vars
  BY <1>2 DEF vars, IInv, StatementsOK, StatementOK, OneSelect, RowsOK, FoundOK,
              Good, Alone, Done, Sent, InTable, Sending, FreshIsKept
<1>. QED
  BY <1>1, <1>2, SetStep, FetchStep, TimerStep, RestartStep DEF Next

\* An accepted object whose key is its own is in the table or on its way there
\* until it is fetched, expires, or the server restarts: in whichever order the
\* database executes what it was sent, also on a pool of connections, no delete
\* that was not awaited takes an object that was posted after it.
THEOREM Fresh == Spec => []FreshIsKept
<1>1. TypeOK /\ IInv /\ [Next]_vars => IInv'
  BY NextInvariant
<1>2. IInv => FreshIsKept
  BY DEF IInv
<1>. QED  BY <1>1, <1>2, InitInvariant, Typing, PTL DEF Spec
==============================================================================
