----------------------------- MODULE Web5Connect -----------------------------
(***************************************************************************)
(* Web5ConnectServer on top of SqlTtlCache, behind the four /connect       *)
(* routes.  An app (or a wallet) posts an object under a key, `request:id' *)
(* or `response:state', and the other side fetches it under that key.  The *)
(* request ids are made by the server and are fresh; the states are chosen *)
(* by the client.  Both kinds of object go through the same code, so a key *)
(* here is either.                                                         *)
(*                                                                         *)
(* Every method of the cache sends one statement to the database and most  *)
(* callers do not await it: `statements' holds what was sent and not yet   *)
(* executed.                                                               *)
(***************************************************************************)
EXTENDS Integers, Sequences, SequencesExt

CONSTANTS
    Key,          \* the cache keys
    Mail,         \* the objects that may be posted, each at most once
    Get,          \* the fetches that clients may send, each at most once
    Patient,      \* the keys that are fetched again only after an answer
    Nil,          \* no object, no row
    Ttl,          \* ttlInSeconds
    InOrder,      \* one database connection (SQLite), no pool
    MaxTime,      \* bound on the clock
    MaxRestarts   \* bound on restarts of the server

ASSUME Web5Assumption ==
    /\ Mail \subseteq [key : Key, n : Nat]
    /\ Get \subseteq [key : Key, n : Nat]
    /\ Patient \subseteq Key
    /\ Nil \notin Mail
    /\ Ttl \in Nat \ {0}
    /\ InOrder \in BOOLEAN
    /\ MaxTime \in Nat
    /\ MaxRestarts \in Nat

VARIABLES
    now,         \* Date.now()
    rows,        \* the table cacheEntries
    statements,  \* the statements that the database has not executed yet
    accepted,    \* the objects whose post was answered with 201
    posted,      \* when each was posted
    fetch,       \* how far each fetch is
    found,       \* what the select of a fetch returned
    restarts

vars == <<now, rows, statements, accepted, posted, fetch, found, restarts>>

Row == [mail : Mail, expiry : Nat]

Statement ==
    [op : {"insert"}, row : Row] \cup [op : {"select"}, get : Get]
        \cup [op : {"delete"}, key : Key] \cup [op : {"cleanUp"}, at : Nat]

NoRow == [mail |-> Nil, expiry |-> 0]

TypeOK ==
    /\ now \in Nat
    /\ rows \in [Key -> Row \cup {NoRow}]
    /\ statements \in Seq(Statement)
    /\ accepted \subseteq Mail
    /\ posted \in [Mail -> Nat]
    /\ fetch \in [Get -> {"unsent", "select", "resume", "sent", "notFound",
                          "dropped", "sentEarlier"}]
    /\ found \in [Get -> Row \cup {NoRow}]
    /\ restarts \in Nat

Init ==
    /\ now = 0
    /\ rows = [k \in Key |-> NoRow]
    /\ statements = <<>>
    /\ accepted = {}
    /\ posted = [m \in Mail |-> 0]
    /\ fetch = [g \in Get |-> "unsent"]
    /\ found = [g \in Get |-> NoRow]
    /\ restarts = 0

Send(s) == statements' = Append(statements, s)

------------------------------------------------------------------------------

\* Mutant: the ttl is taken off the time.
ExpiryPassed == now - Ttl

\* When an object that is posted now expires.
Expiry == now + Ttl

\* POST /connect/par and /connect/callback: setWeb5ConnectRequest and
\* setWeb5ConnectResponse do not await the insert, the reply is 201.
Set(m) ==
    /\ m \notin accepted
    /\ accepted' = accepted \cup {m}
    /\ posted' = [posted EXCEPT ![m] = now]
    /\ Send([op |-> "insert", row |-> [mail |-> m, expiry |-> Expiry]])
    /\ UNCHANGED <<now, rows, fetch, found, restarts>>

\* GET /connect/authorize and /connect/token: the select of SqlTtlCache.get.
Fetch(g) ==
    /\ fetch[g] = "unsent"
    /\ g.key \in Patient =>
          \A h \in Get : h.key = g.key => fetch[h] \notin {"select", "resume"}
    /\ fetch' = [fetch EXCEPT ![g] = "select"]
    /\ Send([op |-> "select", get |-> g])
    /\ UNCHANGED <<now, rows, accepted, posted, found, restarts>>

\* The rest of get, of getWeb5ConnectRequest or getWeb5ConnectResponse, and
\* the answer.
\* Mutant: delete without looking whether there was an object.
FetchFindsNothingDeletes(g) ==
    /\ fetch[g] = "resume"
    /\ found[g] = NoRow
    /\ fetch' = [fetch EXCEPT ![g] = "notFound"]
    /\ Send([op |-> "delete", key |-> g.key])
    /\ UNCHANGED <<now, rows, accepted, posted, found, restarts>>

\* No row: 404.
FetchFindsNothing(g) ==
    /\ fetch[g] = "resume"
    /\ found[g] = NoRow
    /\ fetch' = [fetch EXCEPT ![g] = "notFound"]
    /\ UNCHANGED <<now, rows, statements, accepted, posted, found, restarts>>

\* An expired row: 404, and a delete that is not awaited.
FetchFindsExpired(g) ==
    /\ fetch[g] = "resume"
    /\ found[g] # NoRow
    /\ now >= found[g].expiry
    /\ fetch' = [fetch EXCEPT ![g] = "notFound"]
    /\ Send([op |-> "delete", key |-> g.key])
    /\ UNCHANGED <<now, rows, accepted, posted, found, restarts>>

\* Mutant: the object is not deleted once it has been retrieved.
FetchReturnsKeeping(g) ==
    /\ fetch[g] = "resume"
    /\ found[g] # NoRow
    /\ now < found[g].expiry
    /\ fetch' = [fetch EXCEPT ![g] = "sent"]
    /\ UNCHANGED <<now, rows, statements, accepted, posted, found, restarts>>

\* A fresh row: its object, and a delete that is not awaited.
FetchReturns(g) ==
    /\ fetch[g] = "resume"
    /\ found[g] # NoRow
    /\ now < found[g].expiry
    /\ fetch' = [fetch EXCEPT ![g] = "sent"]
    /\ Send([op |-> "delete", key |-> g.key])
    /\ UNCHANGED <<now, rows, accepted, posted, found, restarts>>

------------------------------------------------------------------------------
(* The database.                                                           *)

\* Takes the i-th statement: the oldest, unless a pool runs them side by side.
Execute(i, op) ==
    /\ i \in DOMAIN statements
    /\ statements[i].op = op
    /\ InOrder => i = 1
    /\ statements' = RemoveAt(statements, i)

\* The key is the primary key: an insert over another row is refused, which
\* nobody hears of.
Insert(i) ==
    /\ Execute(i, "insert")
    /\ LET row == statements[i].row
       IN  rows' = IF rows[row.mail.key] = NoRow
                   THEN [rows EXCEPT ![row.mail.key] = row]
                   ELSE rows
    /\ UNCHANGED <<now, accepted, posted, fetch, found, restarts>>

Select(i) ==
    /\ Execute(i, "select")
    /\ LET g == statements[i].get
       IN  /\ found' = [found EXCEPT ![g] = rows[g.key]]
           /\ fetch' = [fetch EXCEPT ![g] = "resume"]
    /\ UNCHANGED <<now, rows, accepted, posted, restarts>>

Delete(i) ==
    /\ Execute(i, "delete")
    /\ rows' = [rows EXCEPT ![statements[i].key] = NoRow]
    /\ UNCHANGED <<now, accepted, posted, fetch, found, restarts>>

\* Mutant: the time is compared in seconds.
DeleteExpiredInSeconds(i) ==
    /\ Execute(i, "cleanUp")
    /\ rows' = [k \in Key |->
            IF rows[k].expiry < statements[i].at \div 1000
            THEN NoRow ELSE rows[k]]
    /\ UNCHANGED <<now, accepted, posted, fetch, found, restarts>>

DeleteExpired(i) ==
    /\ Execute(i, "cleanUp")
    /\ rows' = [k \in Key |->
            IF rows[k].expiry < statements[i].at THEN NoRow ELSE rows[k]]
    /\ UNCHANGED <<now, accepted, posted, fetch, found, restarts>>

------------------------------------------------------------------------------

\* cleanUpExpiredEntries, on its timer: one at a time, and only when there is
\* an object old enough for it to remove, to bound the model.
CleanUp ==
    /\ \E m \in accepted : posted[m] + Ttl < now
    /\ \A i \in DOMAIN statements : statements[i].op # "cleanUp"
    /\ Send([op |-> "cleanUp", at |-> now])
    /\ UNCHANGED <<now, rows, accepted, posted, fetch, found, restarts>>

\* A delete under key k is on its way.
Deleting(k) == \E i \in DOMAIN statements :
                   statements[i].op = "delete" /\ statements[i].key = k

\* The process ends and starts again: what was not executed is lost, the
\* table is kept, and the clients of pending fetches get no answer.  A fetch
\* whose delete is lost becomes one of an earlier time.
Restart ==
    /\ restarts < MaxRestarts
    /\ restarts' = restarts + 1
    /\ statements' = <<>>
    /\ fetch' = [g \in Get |->
            CASE fetch[g] \in {"select", "resume"} -> "dropped"
              [] fetch[g] = "sent" /\ Deleting(g.key) -> "sentEarlier"
              [] OTHER -> fetch[g]]
    /\ UNCHANGED <<now, rows, accepted, posted, found>>

Tick ==
    /\ now < MaxTime
    /\ now' = now + 1
    /\ UNCHANGED <<rows, statements, accepted, posted, fetch, found, restarts>>

Database == \E i \in DOMAIN statements :
                Insert(i) \/ Select(i) \/ Delete(i) \/ DeleteExpired(i)

Resume(g) == FetchFindsNothing(g) \/ FetchFindsExpired(g) \/ FetchReturns(g)

Next ==
    \/ \E m \in Mail : Set(m)
    \/ \E g \in Get : Fetch(g) \/ Resume(g)
    \/ Database
    \/ CleanUp
    \/ Restart
    \/ Tick

Spec == Init /\ [][Next]_vars

\* The database executes what it is sent, promises settle, and time and the
\* clean-up timer go on.
Fairness ==
    /\ WF_vars(Database)
    /\ \A g \in Get : WF_vars(Resume(g))
    /\ WF_vars(CleanUp)
    /\ WF_vars(Tick)

FairSpec == Spec /\ Fairness

------------------------------------------------------------------------------
(* What is correct.                                                        *)

Sent(m) == \E g \in Get : fetch[g] = "sent" /\ found[g].mail = m

InTable(m) == rows[m.key].mail = m

Sending(m) == \E i \in DOMAIN statements :
                  statements[i].op = "insert" /\ statements[i].row.mail = m

\* An object whose key is its own is not lost: once it was accepted it is in
\* the table or on its way there, until it is fetched or expires (or the
\* server restarts).  This is the race that the comments in
\* getWeb5ConnectRequest and getWeb5ConnectResponse warn of.
FreshIsKept ==
    \A m \in accepted :
        \/ \E o \in Mail \ {m} : o.key = m.key
        \/ restarts > 0
        \/ now >= posted[m] + Ttl
        \/ Sent(m) \/ InTable(m) \/ Sending(m)

\* The fetches that got m, but for those whose delete a restart has lost.
Takers(m) == {g \in Get : fetch[g] = "sent" /\ found[g].mail = m}

Box == {m \in Mail : m.key \in Patient}

Abstract == INSTANCE Mailbox WITH
                Mail     <- Box,
                Taker    <- Get,
                accepted <- accepted \cap Box,
                posted   <- [m \in Box |-> posted[m]],
                takers   <- [m \in Box |-> Takers(m)]

\* On one database connection, and for keys that are not fetched twice at a
\* time, the server is a mailbox: every object is handed out at most once,
\* and never after it expired.  Only a fetch whose delete was lost in a restart
\* may be followed by another of the same object.
OneTimeMailbox == Abstract!Spec

\* What nobody fetches does not stay: an expired row is removed.
ExpiredIsRemoved ==
    \A m \in Mail : (InTable(m) /\ rows[m.key].expiry < MaxTime) ~> ~InTable(m)

\* The doc of getWeb5ConnectRequest and getWeb5ConnectResponse: a request id,
\* or a state, can only be used once.
UsedOnce ==
    \A g, h \in Get : (/\ fetch[g] = "sent" /\ fetch[h] = "sent"
                       /\ found[g].mail = found[h].mail) => g = h
==============================================================================
