------------------------ MODULE BrokerJournal_proofs ------------------------
(***************************************************************************)
(* Proofs about BrokerJournal for every set of sessions, requests, keys    *)
(* and verifiers, every assignment of keys to callers, and every           *)
(* combination of disturbances; a theorem that needs keys kept apart, one  *)
(* verifier or fewer disturbances says so in its assumptions.              *)
(***************************************************************************)
EXTENDS BrokerJournal, TLAPS

USE RequestsAssumption, ClientKeysAssumption, NobodyAssumption

-----------------------------------------------------------------------------
(* Type correctness.                                                       *)

\* The variables a step leaves alone keep their types.
LEMMA TypesFramed ==
    ASSUME TypeOK
    PROVE  /\ UNCHANGED journal => JournalTypes'
           /\ UNCHANGED broker => BrokerTypes'
           /\ UNCHANGED remote => RemoteTypes'
           /\ UNCHANGED sync => SyncTypes'
<1>1. UNCHANGED journal => JournalTypes'
  BY DEF TypeOK, JournalTypes, journal
<1>2. UNCHANGED broker => BrokerTypes'
  BY DEF TypeOK, BrokerTypes, broker
<1>3. UNCHANGED remote => RemoteTypes'
  BY DEF TypeOK, RemoteTypes, remote
<1>4. UNCHANGED sync => SyncTypes'
  BY DEF TypeOK, SyncTypes, sync
<1>5. QED
  BY <1>1, <1>2, <1>3, <1>4

\* Answering a request, or moving on with it, keeps the types of the broker.
LEMMA BrokerMoves ==
    ASSUME BrokerTypes, NEW s \in Sessions
    PROVE  /\ Answer(s) => BrokerTypes'
           /\ \A label \in {"prior", "facts", "reserve", "mark", "again", "execute", "await",
                            "finish", "audit", "unsure", "deny", "forget"} :
                 pc[s] # "idle" /\ Move(s, label) => BrokerTypes'
<1>1. Answer(s) => BrokerTypes'
  BY DEF BrokerTypes, Answer, Parts
<1>2. ASSUME NEW label \in {"prior", "facts", "reserve", "mark", "again", "execute", "await",
                            "finish", "audit", "unsure", "deny", "forget"},
             pc[s] # "idle", Move(s, label)
      PROVE  BrokerTypes'
  BY <1>2 DEF BrokerTypes, Move, Goto
<1>3. QED
  BY <1>1, <1>2

\* Each statement on the journal keeps whole rows.
LEMMA JournalStatements ==
    ASSUME JournalTypes, NEW k \in Keys
    PROVE  /\ AbandonReadRequest(k) => JournalTypes'
           /\ \A outcome \in {"succeeded", "failed", "verify_pending"} :
                 FinishRequest(k, outcome) => JournalTypes'
<1>1. AbandonReadRequest(k) => JournalTypes'
  BY DEF JournalTypes, AbandonReadRequest, journal
<1>2. ASSUME NEW outcome \in {"succeeded", "failed", "verify_pending"},
             FinishRequest(k, outcome)
      PROVE  JournalTypes'
  BY <1>2 DEF JournalTypes, FinishRequest, Final
<1>3. QED
  BY <1>1, <1>2

\* Every step of Broker.handle is type correct.
LEMMA HandleTypes ==
    ASSUME TypeOK, NEW s \in Sessions, Handle(s)
    PROVE  TypeOK'
<1> USE DEF TypeOK
<1>1. ASSUME NEW r \in Requests, NEW k \in Keys, Receive(s, r, k)
      PROVE  TypeOK'
  <2>1. BrokerTypes'
    BY <1>1 DEF Receive, Goto, BrokerTypes
  <2>2. QED
    BY <1>1, <2>1, TypesFramed DEF Receive
<1>2. CASE PriorRequest(s)
  <2>1. BrokerTypes'
    BY <1>2, BrokerMoves DEF PriorRequest
  <2>2. QED
    BY <1>2, <2>1, TypesFramed DEF PriorRequest
<1>3. CASE Authorize(s)
  <2>1. BrokerTypes'
    BY <1>3, BrokerMoves DEF Authorize
  <2>2. QED
    BY <1>3, <2>1, TypesFramed DEF Authorize
<1>4. CASE Reserve(s)
  <2>1. key[s] \in Keys /\ ask[s] \in Requests
    BY <1>4 DEF Reserve, BrokerTypes
  <2>2. BrokerTypes'
    BY <1>4, BrokerMoves DEF Reserve, ReserveRequest
  <2>3. JournalTypes'
    <3>1. CASE state[key[s]] = "none"
      <4>1. s # Nobody /\ ask[s] # Nobody
        <5>1. Nobody \notin Sessions /\ Nobody \notin Requests
          BY RequestsAssumption, NobodyAssumption
        <5>2. QED
          BY <2>1, <5>1
      <4>2. state' \in [Keys -> {"none", "reserved", "applying", "verify_pending"} \cup Final]
        BY <1>4, <3>1 DEF Reserve, ReserveRequest, JournalTypes
      <4>3. by' \in [Keys -> Sessions \cup {Nobody}] /\ req' \in [Keys -> Requests \cup {Nobody}]
        <5>1. by' = [by EXCEPT ![key[s]] = s] /\ req' = [req EXCEPT ![key[s]] = ask[s]]
          BY <1>4, <3>1 DEF Reserve, ReserveRequest
        <5>2. QED
          BY <2>1, <5>1 DEF JournalTypes
      <4>4. ASSUME NEW k \in Keys
            PROVE  (state'[k] = "none" <=> by'[k] = Nobody)
                   /\ (state'[k] = "none" <=> req'[k] = Nobody)
        BY <1>4, <2>1, <3>1, <4>1 DEF Reserve, ReserveRequest, JournalTypes
      <4>5. QED
        BY <4>2, <4>3, <4>4 DEF JournalTypes
    <3>2. CASE state[key[s]] # "none"
      BY <1>4, <3>2, TypesFramed DEF Reserve, ReserveRequest
    <3>3. QED
      BY <3>1, <3>2
  <2>4. QED
    BY <1>4, <2>2, <2>3, TypesFramed DEF Reserve
<1>5. CASE MarkApplying(s)
  <2>1. BrokerTypes'
    BY <1>5, BrokerMoves DEF MarkApplying
  <2>2. JournalTypes'
    BY <1>5 DEF MarkApplying, JournalTypes, journal
  <2>3. QED
    BY <1>5, <2>1, <2>2, TypesFramed DEF MarkApplying
<1>6. CASE Revalidate(s)
  <2>1. BrokerTypes'
    BY <1>6, BrokerMoves DEF Revalidate
  <2>2. QED
    BY <1>6, <2>1, TypesFramed DEF Revalidate
<1>7. CASE Execute(s)
  <2>1. BrokerTypes'
    BY <1>7, BrokerMoves DEF Execute
  <2>2. QED
    BY <1>7, <2>1, TypesFramed DEF Execute
<1>8. CASE Send(s)
  <2>1. BrokerTypes'
    BY <1>8, BrokerMoves DEF Send
  <2>2. RemoteTypes'
    <3>1. key[s] \in Keys /\ part[s] \in Parts
      BY <1>8 DEF Send, BrokerTypes
    <3>2. CASE UNCHANGED remote
      BY <3>2, TypesFramed
    <3>3. ASSUME sent' = [sent EXCEPT ![key[s]][part[s]] = @ + 1],
                 flying' = [flying EXCEPT ![key[s]] = @ \cup {part[s]}],
                 UNCHANGED <<landed, shown, foreign>>
          PROVE  RemoteTypes'
      <4>1. sent' \in [Keys -> [Parts -> Nat]]
        BY <3>1, <3>3 DEF RemoteTypes
      <4>2. flying' \in [Keys -> SUBSET Parts]
        BY <3>1, <3>3 DEF RemoteTypes
      <4>3. QED
        BY <3>3, <4>1, <4>2 DEF RemoteTypes
    <3>4. QED
      BY <1>8, <3>2, <3>3 DEF Send
  <2>3. QED
    BY <1>8, <2>1, <2>2, TypesFramed DEF Send
<1>9. CASE Confirmed(s)
  <2>1. CASE part[s] + 1 \in Writes(ask[s])
    <3>1. part[s] + 1 \in Parts
      BY <2>1 DEF Writes, Parts
    <3>2. BrokerTypes'
      <4>1. part' \in [Sessions -> Parts]
        BY <1>9, <2>1, <3>1 DEF Confirmed, BrokerTypes
      <4>2. /\ pc' = [pc EXCEPT ![s] = "execute"] /\ pc[s] # "idle"
            /\ UNCHANGED <<open, key, ask>>
        BY <1>9, <2>1 DEF Confirmed, Goto
      <4>3. QED
        BY <4>1, <4>2 DEF BrokerTypes
    <3>3. QED
      BY <1>9, <3>2, TypesFramed DEF Confirmed
  <2>2. CASE part[s] + 1 \notin Writes(ask[s])
    <3>1. BrokerTypes'
      BY <1>9, <2>2, BrokerMoves DEF Confirmed
    <3>2. QED
      BY <1>9, <3>1, TypesFramed DEF Confirmed
  <2>3. QED
    BY <2>1, <2>2
<1>10. CASE Unconfirmed(s)
  <2>1. BrokerTypes'
    BY <1>10, BrokerMoves DEF Unconfirmed
  <2>2. QED
    BY <1>10, <2>1, TypesFramed DEF Unconfirmed
<1>11. CASE Finish(s)
  <2>1. BrokerTypes' /\ key[s] \in Keys
    BY <1>11, BrokerMoves DEF Finish, BrokerTypes
  <2>2. QED
    BY <1>11, <2>1, JournalStatements, TypesFramed DEF Finish
<1>12. CASE Audit(s)
  <2>1. BrokerTypes'
    BY <1>12, BrokerMoves DEF Audit
  <2>2. QED
    BY <1>12, <2>1, TypesFramed DEF Audit
<1>13. CASE Unsure(s) \/ Deny(s) \/ Forget(s)
  <2>1. key[s] \in Keys
    BY <1>13 DEF Unsure, Deny, Forget, BrokerTypes
  <2>2. BrokerTypes'
    BY <1>13, BrokerMoves DEF Unsure, Deny, Forget
  <2>3. JournalTypes'
    BY <1>13, <2>1, JournalStatements DEF Unsure, Deny, Forget
  <2>4. QED
    BY <1>13, <2>2, <2>3, TypesFramed DEF Unsure, Deny, Forget
<1>14. CASE Fault(s)
  <2>1. BrokerTypes'
    BY <1>14, BrokerMoves DEF Fault
  <2>2. QED
    BY <1>14, <2>1, TypesFramed DEF Fault
<1>15. QED
  BY <1>1, <1>2, <1>3, <1>4, <1>5, <1>6, <1>7, <1>8, <1>9, <1>10, <1>11, <1>12, <1>13,
     <1>14 DEF Handle

\* Every step of GitHub, of monitor sync and of the surroundings is type correct.
LEMMA EnvironmentTypes ==
    ASSUME TypeOK
    PROVE  /\ GitHub => TypeOK'
           /\ \A v \in Verifiers : MonitorSync(v) => TypeOK'
           /\ \A s \in Sessions : CloseSession(s) => TypeOK'
           /\ Crash => TypeOK'
<1> USE DEF TypeOK
<1>1. ASSUME GitHub
      PROVE  TypeOK'
  <2>1. ASSUME NEW k \in Keys, Others(k)
        PROVE  TypeOK'
    <3>1. RemoteTypes'
      <4>1. Unkeyed(req[k]) \subseteq Parts
        BY DEF Unkeyed, Parts
      <4>2. shown' \in [Keys -> SUBSET Parts]
        BY <2>1, <4>1 DEF Others, RemoteTypes
      <4>3. foreign' \in [Keys -> SUBSET Parts]
        BY <2>1, <4>1 DEF Others, RemoteTypes
      <4>4. QED
        BY <2>1, <4>2, <4>3 DEF Others, RemoteTypes
    <3>2. UNCHANGED <<journal, broker, sync>>
      BY <2>1 DEF Others
    <3>3. QED
      BY <3>1, <3>2, TypesFramed
  <2>2. ASSUME NEW k \in Keys, NEW i \in Parts, Land(k, i) \/ Lose(k, i)
        PROVE  TypeOK'
    <3>1. RemoteTypes'
      <4>1. flying' \in [Keys -> SUBSET Parts]
        <5>1. flying' = [flying EXCEPT ![k] = @ \ {i}]
          BY <2>2 DEF Land, Lose
        <5>2. QED
          BY <5>1 DEF RemoteTypes
      <4>2. landed' \in [Keys -> SUBSET Parts]
        BY <2>2 DEF Land, Lose, RemoteTypes
      <4>3. shown' \in [Keys -> SUBSET Parts]
        BY <2>2 DEF Land, Lose, RemoteTypes
      <4>4. QED
        BY <2>2, <4>1, <4>2, <4>3 DEF Land, Lose, RemoteTypes
    <3>2. QED
      BY <2>2, <3>1, TypesFramed DEF Land, Lose
  <2>3. QED
    BY <1>1, <2>1, <2>2 DEF GitHub
<1>2. ASSUME NEW v \in Verifiers, MonitorSync(v)
      PROVE  TypeOK'
  <2>1. CASE ScanPending(v) \/ VerifyTimeout(v)
    <3>1. SyncTypes'
      BY <2>1 DEF ScanPending, VerifyTimeout, SyncTypes, Pending
    <3>2. QED
      BY <2>1, <3>1, TypesFramed DEF ScanPending, VerifyTimeout
  <2>2. ASSUME NEW k \in Keys, Verify(v, k)
        PROVE  TypeOK'
    <3>1. Found(k) \in {"present", "absent", "unknown"}
      BY DEF Found
    <3>2. SyncTypes'
      BY <2>2, <3>1 DEF Verify, SyncTypes
    <3>3. QED
      BY <2>2, <3>2, TypesFramed DEF Verify
  <2>3. CASE Resolve(v)
    <3>1. SyncTypes' /\ look[v] \in Keys
      BY <2>3 DEF Resolve, SyncTypes
    <3>2. JournalTypes'
      BY <2>3, <3>1, JournalStatements, TypesFramed DEF Resolve, Outcome
    <3>3. QED
      BY <2>3, <3>1, <3>2, TypesFramed DEF Resolve
  <2>4. QED
    BY <1>2, <2>1, <2>2, <2>3 DEF MonitorSync
<1>3. ASSUME NEW s \in Sessions, CloseSession(s)
      PROVE  TypeOK'
  <2>1. BrokerTypes'
    BY <1>3 DEF CloseSession, BrokerTypes
  <2>2. QED
    BY <1>3, <2>1, TypesFramed DEF CloseSession
<1>4. ASSUME Crash
      PROVE  TypeOK'
  <2>1. BrokerTypes'
    BY <1>4 DEF Crash, BrokerTypes, Parts
  <2>2. SyncTypes'
    BY <1>4 DEF Crash, SyncTypes
  <2>3. QED
    BY <1>4, <2>1, <2>2, TypesFramed DEF Crash
<1>5. QED
  BY <1>1, <1>2, <1>3, <1>4

LEMMA InitTypes == Init => TypeOK
BY DEF Init, TypeOK, JournalTypes, BrokerTypes, RemoteTypes, SyncTypes, Parts

LEMMA NextTypes == TypeOK /\ [Next]_vars => TypeOK'
<1> SUFFICES ASSUME TypeOK, [Next]_vars
             PROVE  TypeOK'
  OBVIOUS
<1>1. CASE UNCHANGED vars
  BY <1>1, TypesFramed DEF vars, TypeOK
<1>2. CASE Next
  BY <1>2, HandleTypes, EnvironmentTypes DEF Next
<1>3. QED
  BY <1>1, <1>2

\* The journal is type correct: rows are whole, and a request that is being
\* handled has its key.
THEOREM TypeCorrectness == Spec => []TypeOK
BY InitTypes, NextTypes, PTL DEF Spec

-----------------------------------------------------------------------------
(* No write is sent twice.                                                 *)

\* From the row's insertion to the last write of the request.
Sending == {"mark", "again", "execute", "await"}

\* A request that may still send has the row of its key: it inserted the row, and
\* rows of requests other than reads are never deleted.
SenderHasRow ==
    \A s \in Sessions :
        pc[s] \in Sending /\ ask[s] # "read" => by[key[s]] = s /\ req[key[s]] = ask[s]

\* What lies ahead of it has not been sent.
AheadUnsent ==
    \A s \in Sessions, i \in Parts :
        pc[s] \in Sending /\ ask[s] # "read" =>
            sent[key[s]][i] = 0 \/ i < part[s] \/ (pc[s] = "await" /\ i = part[s])

\* Without a row, or with the row of a read, nothing was sent under a key.
UnsentWithoutRow ==
    \A k \in Keys : req[k] \in {Nobody, "read"} => \A i \in Parts : sent[k][i] = 0

JournalInv == TypeOK /\ SenderHasRow /\ AheadUnsent /\ UnsentWithoutRow /\ SentOnce

\* A step that sends nothing, touches no row but to change its state, and lets no
\* request begin to send, keeps the invariant.
LEMMA QuietStep ==
    ASSUME JournalInv, TypeOK', UNCHANGED <<by, req, sent>>,
           \A s \in Sessions :
               pc'[s] \in Sending =>
                   /\ pc[s] \in Sending /\ key'[s] = key[s] /\ ask'[s] = ask[s]
                   /\ part'[s] = part[s] /\ (pc[s] = "await" => pc'[s] = "await")
    PROVE  JournalInv'
<1>1. SenderHasRow'
  BY DEF JournalInv, SenderHasRow
<1>2. AheadUnsent'
  BY DEF JournalInv, AheadUnsent
<1>3. UnsentWithoutRow' /\ SentOnce'
  BY DEF JournalInv, UnsentWithoutRow, SentOnce
<1>4. QED
  BY <1>1, <1>2, <1>3 DEF JournalInv

\* The request that inserts the row finds nothing sent under its key.
LEMMA ReserveKeeps ==
    ASSUME JournalInv, TypeOK', NEW s \in Sessions, Reserve(s)
    PROVE  JournalInv'
<1>1. key[s] \in Keys /\ ask[s] \in Requests /\ s # Nobody
  BY DEF JournalInv, TypeOK, BrokerTypes, Reserve
<1>2. CASE state[key[s]] # "none"
  <2>1. UNCHANGED <<by, req, sent>> /\ Answer(s)
    BY <1>2 DEF Reserve, ReserveRequest, journal, remote
  <2>2. \A t \in Sessions : pc'[t] \in Sending =>
            /\ pc[t] \in Sending /\ key'[t] = key[t] /\ ask'[t] = ask[t]
            /\ part'[t] = part[t] /\ (pc[t] = "await" => pc'[t] = "await")
    BY <2>1 DEF Answer, Sending, JournalInv, TypeOK, BrokerTypes
  <2>3. QED
    BY <2>1, <2>2, QuietStep
<1>3. CASE state[key[s]] = "none"
  <2>1. req[key[s]] = Nobody /\ by[key[s]] = Nobody
    BY <1>1, <1>3 DEF JournalInv, TypeOK, JournalTypes
  <2>2. \A i \in Parts : sent[key[s]][i] = 0
    BY <1>1, <2>1 DEF JournalInv, UnsentWithoutRow
  <2>3. /\ by' = [by EXCEPT ![key[s]] = s] /\ req' = [req EXCEPT ![key[s]] = ask[s]]
        /\ pc' = [pc EXCEPT ![s] = "mark"] /\ UNCHANGED <<key, ask, part, sent>>
    BY <1>3 DEF Reserve, ReserveRequest, Move, Goto, remote
  <2>4. ASSUME NEW t \in Sessions, t # s, pc[t] \in Sending, ask[t] # "read"
        PROVE  key[t] # key[s]
    BY <2>1, <2>4 DEF JournalInv, SenderHasRow, TypeOK
  <2>5. SenderHasRow'
    <3> SUFFICES ASSUME NEW t \in Sessions, pc'[t] \in Sending, ask'[t] # "read"
                 PROVE  by'[key'[t]] = t /\ req'[key'[t]] = ask'[t]
      BY DEF SenderHasRow
    <3>1. CASE t = s
      BY <1>1, <2>3, <3>1 DEF JournalInv, TypeOK, JournalTypes
    <3>2. CASE t # s
      <4>1. pc[t] \in Sending /\ ask[t] # "read" /\ key[t] # key[s]
        BY <2>3, <2>4, <3>2 DEF JournalInv, TypeOK, BrokerTypes
      <4>2. by[key[t]] = t /\ req[key[t]] = ask[t]
        BY <4>1 DEF JournalInv, SenderHasRow
      <4>3. key[t] \in Keys
        BY <4>1 DEF JournalInv, TypeOK, BrokerTypes, Sending
      <4>4. QED
        BY <2>3, <4>1, <4>2, <4>3 DEF JournalInv, TypeOK, JournalTypes
    <3>3. QED
      BY <3>1, <3>2
  <2>6. AheadUnsent'
    <3> SUFFICES ASSUME NEW t \in Sessions, NEW i \in Parts,
                        pc'[t] \in Sending, ask'[t] # "read"
                 PROVE  sent'[key'[t]][i] = 0 \/ i < part'[t]
                        \/ (pc'[t] = "await" /\ i = part'[t])
      BY DEF AheadUnsent
    <3>1. CASE t = s
      BY <2>2, <2>3, <3>1
    <3>2. CASE t # s
      BY <2>3, <3>2 DEF JournalInv, AheadUnsent, TypeOK, BrokerTypes
    <3>3. QED
      BY <3>1, <3>2
  <2>7. UnsentWithoutRow'
    BY <2>2, <2>3 DEF JournalInv, UnsentWithoutRow, TypeOK, JournalTypes
  <2>8. SentOnce'
    BY <2>3 DEF JournalInv, SentOnce
  <2>9. QED
    BY <2>5, <2>6, <2>7, <2>8 DEF JournalInv
<1>4. QED
  BY <1>2, <1>3

\* A write that is sent was not sent before, and no other request can send it.
LEMMA SendKeeps ==
    ASSUME JournalInv, TypeOK', NEW s \in Sessions, Send(s)
    PROVE  JournalInv'
<1>1. key[s] \in Keys /\ part[s] \in Parts /\ ask[s] # "read"
  BY DEF JournalInv, TypeOK, BrokerTypes, Send, Writes
<1>2. CASE UNCHANGED sent /\ Move(s, "unsure")
  <2>1. UNCHANGED <<by, req, sent>>
    BY <1>2 DEF Send, journal
  <2>2. \A t \in Sessions : pc'[t] \in Sending =>
            /\ pc[t] \in Sending /\ key'[t] = key[t] /\ ask'[t] = ask[t]
            /\ part'[t] = part[t] /\ (pc[t] = "await" => pc'[t] = "await")
    BY <1>2 DEF Move, Goto, Sending, JournalInv, TypeOK, BrokerTypes
  <2>3. QED
    BY <2>1, <2>2, QuietStep
<1>3. ASSUME sent' = [sent EXCEPT ![key[s]][part[s]] = @ + 1], Move(s, "await")
      PROVE  JournalInv'
  <2>1. pc[s] = "execute" /\ UNCHANGED <<by, req>>
    BY DEF Send, journal
  <2>2. by[key[s]] = s /\ req[key[s]] = ask[s]
    BY <1>1, <2>1 DEF JournalInv, SenderHasRow, Sending
  <2>3. \A i \in Parts : sent[key[s]][i] = 0 \/ i < part[s]
    BY <1>1, <2>1 DEF JournalInv, AheadUnsent, Sending
  <2>4. pc' = [pc EXCEPT ![s] = "await"] /\ UNCHANGED <<key, ask, part>>
    BY <1>3 DEF Move, Goto
  <2>5. \A k \in Keys, i \in Parts :
            sent'[k][i] = IF k = key[s] /\ i = part[s] THEN sent[k][i] + 1 ELSE sent[k][i]
    BY <1>1, <1>3 DEF JournalInv, TypeOK, RemoteTypes
  <2>6. SenderHasRow'
    BY <2>1, <2>2, <2>4 DEF JournalInv, SenderHasRow, Sending, TypeOK, BrokerTypes
  <2>7. AheadUnsent'
    <3> SUFFICES ASSUME NEW t \in Sessions, NEW i \in Parts,
                        pc'[t] \in Sending, ask'[t] # "read"
                 PROVE  sent'[key'[t]][i] = 0 \/ i < part'[t]
                        \/ (pc'[t] = "await" /\ i = part'[t])
      BY DEF AheadUnsent
    <3>1. CASE t = s
      BY <1>1, <2>3, <2>4, <2>5, <3>1 DEF JournalInv, TypeOK, BrokerTypes
    <3>2. CASE t # s
      <4>1. pc[t] \in Sending /\ ask[t] # "read" /\ key[t] \in Keys
        BY <2>4, <3>2 DEF JournalInv, TypeOK, BrokerTypes, Sending
      <4>2. key[t] # key[s]
        BY <2>2, <3>2, <4>1 DEF JournalInv, SenderHasRow
      <4>3. sent[key[t]][i] = 0 \/ i < part[t] \/ (pc[t] = "await" /\ i = part[t])
        BY <4>1 DEF JournalInv, AheadUnsent
      <4>4. QED
        BY <2>4, <2>5, <3>2, <4>1, <4>2, <4>3 DEF JournalInv, TypeOK, BrokerTypes
    <3>3. QED
      BY <3>1, <3>2
  <2>8. UnsentWithoutRow'
    <3>1. req[key[s]] \notin {Nobody, "read"}
      BY <1>1, <2>1, <2>2 DEF JournalInv, TypeOK, BrokerTypes
    <3>2. QED
      BY <2>1, <2>5, <3>1 DEF JournalInv, UnsentWithoutRow
  <2>9. SentOnce'
    <3> SUFFICES ASSUME NEW k \in Keys, NEW i \in Parts
                 PROVE  sent'[k][i] <= 1
      BY DEF SentOnce
    <3>1. sent[k][i] \in Nat /\ sent[k][i] <= 1
      BY DEF JournalInv, SentOnce, TypeOK, RemoteTypes
    <3>2. CASE k = key[s] /\ i = part[s]
      <4>1. ~ (i < part[s])
        BY <1>1, <3>2 DEF Parts
      <4>2. QED
        BY <2>3, <2>5, <3>2, <4>1
    <3>3. CASE ~ (k = key[s] /\ i = part[s])
      BY <2>5, <3>1, <3>3
    <3>4. QED
      BY <3>2, <3>3
  <2>10. QED
    BY <2>6, <2>7, <2>8, <2>9 DEF JournalInv
<1>4. QED
  BY <1>2, <1>3 DEF Send, remote

\* A confirmed write lets the request go on to the next one, which is unsent.
LEMMA ConfirmedKeeps ==
    ASSUME JournalInv, TypeOK', NEW s \in Sessions, Confirmed(s)
    PROVE  JournalInv'
<1>1. UNCHANGED <<by, req, sent>> /\ pc[s] = "await"
  BY DEF Confirmed, journal, remote
<1>2. CASE part[s] + 1 \notin Writes(ask[s])
  <2>1. \A t \in Sessions : pc'[t] \in Sending =>
            /\ pc[t] \in Sending /\ key'[t] = key[t] /\ ask'[t] = ask[t]
            /\ part'[t] = part[t] /\ (pc[t] = "await" => pc'[t] = "await")
    BY <1>2 DEF Confirmed, Move, Goto, Sending, JournalInv, TypeOK, BrokerTypes
  <2>2. QED
    BY <1>1, <2>1, QuietStep
<1>3. CASE part[s] + 1 \in Writes(ask[s])
  <2>1. /\ pc' = [pc EXCEPT ![s] = "execute"] /\ part' = [part EXCEPT ![s] = part[s] + 1]
        /\ UNCHANGED <<key, ask>>
    BY <1>3 DEF Confirmed, Goto
  <2>2. SenderHasRow'
    BY <1>1, <2>1 DEF JournalInv, SenderHasRow, Sending, TypeOK, BrokerTypes
  <2>3. AheadUnsent'
    <3> SUFFICES ASSUME NEW t \in Sessions, NEW i \in Parts,
                        pc'[t] \in Sending, ask'[t] # "read"
                 PROVE  sent'[key'[t]][i] = 0 \/ i < part'[t]
                        \/ (pc'[t] = "await" /\ i = part'[t])
      BY DEF AheadUnsent
    <3>1. CASE t = s
      <4>1. sent[key[s]][i] = 0 \/ i < part[s] \/ i = part[s]
        BY <1>1, <2>1, <3>1 DEF JournalInv, AheadUnsent, Sending
      <4>2. part[s] \in Nat /\ i \in Nat /\ part'[s] = part[s] + 1
        BY <2>1 DEF JournalInv, TypeOK, BrokerTypes, Parts
      <4>3. QED
        BY <1>1, <2>1, <3>1, <4>1, <4>2
    <3>2. CASE t # s
      BY <1>1, <2>1, <3>2 DEF JournalInv, AheadUnsent, TypeOK, BrokerTypes
    <3>3. QED
      BY <3>1, <3>2
  <2>4. UnsentWithoutRow' /\ SentOnce'
    BY <1>1 DEF JournalInv, UnsentWithoutRow, SentOnce
  <2>5. QED
    BY <2>2, <2>3, <2>4 DEF JournalInv
<1>4. QED
  BY <1>2, <1>3

\* Only the row of a read is forgotten, under whose key nothing was sent.
LEMMA ForgetKeeps ==
    ASSUME JournalInv, TypeOK', NEW s \in Sessions, Forget(s)
    PROVE  JournalInv'
<1>1. key[s] \in Keys /\ UNCHANGED sent
  BY DEF JournalInv, TypeOK, BrokerTypes, Forget, remote
<1>2. \A t \in Sessions : pc'[t] \in Sending =>
          /\ pc[t] \in Sending /\ key'[t] = key[t] /\ ask'[t] = ask[t]
          /\ part'[t] = part[t] /\ (pc[t] = "await" => pc'[t] = "await")
  BY DEF Forget, Answer, Sending, JournalInv, TypeOK, BrokerTypes
<1>3. CASE UNCHANGED <<by, req>>
  BY <1>1, <1>2, <1>3, QuietStep
<1>4. CASE ~ UNCHANGED <<by, req>>
  <2>1. /\ req[key[s]] = "read"
        /\ by' = [by EXCEPT ![key[s]] = Nobody] /\ req' = [req EXCEPT ![key[s]] = Nobody]
    BY <1>4 DEF Forget, AbandonReadRequest, journal
  <2>2. SenderHasRow'
    <3> SUFFICES ASSUME NEW t \in Sessions, pc'[t] \in Sending, ask'[t] # "read"
                 PROVE  by'[key'[t]] = t /\ req'[key'[t]] = ask'[t]
      BY DEF SenderHasRow
    <3>1. /\ by[key[t]] = t /\ req[key[t]] = ask[t] /\ key'[t] = key[t] /\ ask'[t] = ask[t]
          /\ pc[t] \in Sending
      BY <1>2 DEF JournalInv, SenderHasRow
    <3>2. key[t] \in Keys /\ key[t] # key[s]
      BY <2>1, <3>1 DEF JournalInv, TypeOK, BrokerTypes, Sending
    <3>3. QED
      BY <2>1, <3>1, <3>2 DEF JournalInv, TypeOK, JournalTypes
  <2>3. AheadUnsent'
    BY <1>1, <1>2 DEF JournalInv, AheadUnsent
  <2>4. UnsentWithoutRow'
    BY <1>1, <2>1 DEF JournalInv, UnsentWithoutRow, TypeOK, JournalTypes
  <2>5. SentOnce'
    BY <1>1 DEF JournalInv, SentOnce
  <2>6. QED
    BY <2>2, <2>3, <2>4, <2>5 DEF JournalInv
<1>5. QED
  BY <1>3, <1>4

\* Every step of Broker.handle keeps the invariant.
LEMMA HandleKeeps ==
    ASSUME JournalInv, TypeOK', NEW s \in Sessions, Handle(s)
    PROVE  JournalInv'
<1> DEFINE Quiet == \A t \in Sessions : pc'[t] \in Sending =>
               /\ pc[t] \in Sending /\ key'[t] = key[t] /\ ask'[t] = ask[t]
               /\ part'[t] = part[t] /\ (pc[t] = "await" => pc'[t] = "await")
<1> USE DEF TypeOK, BrokerTypes, Sending
<1>1. ASSUME NEW r \in Requests, NEW k \in Keys, Receive(s, r, k)
      PROVE  JournalInv'
  <2>1. Quiet
    BY <1>1 DEF Receive, Goto, JournalInv
  <2>2. QED
    BY <1>1, <2>1, QuietStep DEF Receive, journal, remote
<1>2. CASE PriorRequest(s) \/ Authorize(s)
  <2>1. Quiet
    BY <1>2 DEF PriorRequest, Authorize, Answer, Move, Goto, JournalInv
  <2>2. QED
    BY <1>2, <2>1, QuietStep DEF PriorRequest, Authorize, journal, remote
<1>3. CASE MarkApplying(s)
  <2>1. Quiet
    BY <1>3 DEF MarkApplying, Answer, Move, Goto, JournalInv
  <2>2. QED
    BY <1>3, <2>1, QuietStep DEF MarkApplying, journal, remote
<1>4. CASE Revalidate(s) \/ Execute(s)
  <2>1. Quiet
    BY <1>4 DEF Revalidate, Execute, Answer, Move, Goto, JournalInv
  <2>2. QED
    BY <1>4, <2>1, QuietStep DEF Revalidate, Execute, journal, remote
<1>5. CASE Unconfirmed(s) \/ Audit(s)
  <2>1. Quiet
    BY <1>5 DEF Unconfirmed, Audit, Answer, Move, Goto, JournalInv
  <2>2. QED
    BY <1>5, <2>1, QuietStep DEF Unconfirmed, Audit, journal, remote
<1>6. CASE Finish(s) \/ Unsure(s) \/ Deny(s)
  <2>1. Quiet
    BY <1>6 DEF Finish, Unsure, Deny, Answer, Move, Goto, JournalInv
  <2>2. QED
    BY <1>6, <2>1, QuietStep DEF Finish, Unsure, Deny, FinishRequest, remote
<1>7. CASE Fault(s)
  <2>1. Quiet
    BY <1>7 DEF Fault, Answer, Move, Goto, JournalInv
  <2>2. QED
    BY <1>7, <2>1, QuietStep DEF Fault, journal, remote
<1>8. QED
  BY <1>1, <1>2, <1>3, <1>4, <1>5, <1>6, <1>7, ReserveKeeps, SendKeeps, ConfirmedKeeps,
     ForgetKeeps DEF Handle

LEMMA InitInv == Init => JournalInv
BY InitTypes DEF Init, JournalInv, SenderHasRow, AheadUnsent, UnsentWithoutRow, SentOnce,
   Sending, Parts

LEMMA NextInv == JournalInv /\ [Next]_vars => JournalInv'
<1> SUFFICES ASSUME JournalInv, [Next]_vars
             PROVE  JournalInv'
  OBVIOUS
<1>1. TypeOK'
  BY NextTypes DEF JournalInv
<1>2. CASE UNCHANGED vars
  BY <1>1, <1>2, QuietStep DEF vars, journal, broker, remote
<1>3. ASSUME NEW s \in Sessions, Handle(s)
      PROVE  JournalInv'
  BY <1>1, <1>3, HandleKeeps
<1>4. ASSUME NEW s \in Sessions, CloseSession(s)
      PROVE  JournalInv'
  BY <1>1, <1>4, QuietStep DEF CloseSession, journal, remote
<1>5. CASE GitHub
  BY <1>1, <1>5, QuietStep DEF GitHub, Others, Land, Lose, journal, broker
<1>6. ASSUME NEW v \in Verifiers, MonitorSync(v)
      PROVE  JournalInv'
  BY <1>1, <1>6, QuietStep DEF MonitorSync, ScanPending, VerifyTimeout, Verify, Resolve,
     FinishRequest, journal, broker, remote
<1>7. CASE Crash
  BY <1>1, <1>7, QuietStep DEF Crash, Sending, journal, remote
<1>8. QED
  BY <1>2, <1>3, <1>4, <1>5, <1>6, <1>7 DEF Next

\* No write of a request is ever sent to GitHub twice, whoever shares its key and
\* whatever fails: the key's row is inserted once, and never deleted once a write
\* was sent.
THEOREM WritesSentOnce == Spec => []SentOnce
<1>1. JournalInv => SentOnce
  BY DEF JournalInv
<1>2. QED
  BY <1>1, InitInv, NextInv, PTL DEF Spec

-----------------------------------------------------------------------------
(* What one step can do to a session's request and to a row, whoever takes *)
(* the step.                                                               *)

Kept(s) == key'[s] = key[s] /\ ask'[s] = ask[s] /\ part'[s] = part[s]

Stays(s) == Kept(s) /\ pc'[s] = pc[s]

Ends(s) ==
    /\ pc'[s] = "idle" /\ part'[s] = 1 /\ key'[s] = Nobody
    /\ \/ pc[s] \notin {"await", "finish", "unsure"} /\ ~ (pc[s] = "execute" /\ Writes(ask[s]) # {})
       \/ pc[s] = "unsure" /\ state'[key[s]] \in {"none", "verify_pending"}
       \/ {"crash", "fault"} \cap Modes # {}

Begins(s) ==
    /\ pc[s] = "idle" /\ pc'[s] = "prior" /\ part'[s] = part[s]
    /\ ask'[s] \in Requests /\ key'[s] \in ClientKeys[s][ask'[s]]

Advances(s) ==
    /\ pc[s] = "await" /\ pc'[s] = "execute" /\ part[s] \in landed[key[s]]
    /\ key'[s] = key[s] /\ ask'[s] = ask[s] /\ part'[s] = part[s] + 1

Moves(s) ==
    /\ Kept(s)
    /\ \/ pc[s] = "prior" /\ pc'[s] = "facts"
       \/ pc[s] = "facts" /\ pc'[s] = "reserve"
       \/ pc[s] = "facts" /\ pc'[s] = "forget" /\ ask[s] # "read"
       \/ pc[s] = "reserve" /\ pc'[s] = "mark" /\ by'[key[s]] = s /\ req'[key[s]] = ask[s]
          /\ state'[key[s]] = "reserved"
       \/ pc[s] = "mark" /\ pc'[s] \in {"again", "execute"}
       \/ pc[s] = "again" /\ pc'[s] \in {"execute", "deny", "unsure"}
       \/ pc[s] = "execute" /\ pc'[s] = "finish" /\ Writes(ask[s]) = {}
       \/ pc[s] = "execute" /\ pc'[s] = "forget" /\ ask[s] = "read"
       \/ pc[s] = "execute" /\ pc'[s] = "unsure"
       \/ pc[s] = "execute" /\ pc'[s] = "await" /\ part[s] \in Writes(ask[s])
       \/ pc[s] = "await" /\ pc'[s] = "unsure"
       \/ pc[s] = "await" /\ pc'[s] = "finish" /\ part[s] \in landed[key[s]]
          /\ part[s] + 1 \notin Writes(ask[s])
       \/ pc[s] = "finish" /\ pc'[s] = "audit" /\ state'[key[s]] \in {"none", "succeeded"}
       \/ "fault" \in Modes /\ pc[s] # "idle" /\ pc'[s] \in {"forget", "unsure"}

SessionStep(s) == Stays(s) \/ Ends(s) \/ Begins(s) \/ Advances(s) \/ Moves(s)

RowStays(k) == state'[k] = state[k] /\ by'[k] = by[k] /\ req'[k] = req[k]

RowInserted(k) ==
    /\ state[k] = "none" /\ state'[k] = "reserved"
    /\ \E s \in Sessions : pc[s] = "reserve" /\ key[s] = k /\ by'[k] = s /\ req'[k] = ask[s]

RowMarked(k) ==
    /\ state[k] = "reserved" /\ state'[k] = "applying"
    /\ by'[k] = by[k] /\ req'[k] = req[k]

RowFinished(k) ==
    /\ by'[k] = by[k] /\ req'[k] = req[k]
    /\ \E s \in Sessions :
          /\ key[s] = k
          /\ \/ pc[s] = "finish" /\ pc'[s] = "audit" /\ state'[k] \in {state[k], "succeeded"}
             \/ pc[s] = "unsure" /\ pc'[s] = "idle" /\ state'[k] \in {state[k], "verify_pending"}
             \/ pc[s] = "deny" /\ pc'[s] = "idle" /\ state'[k] \in {state[k], "failed"}
          /\ state[k] = "none" <=> state'[k] = "none"

RowForgotten(k) ==
    /\ req[k] = "read" /\ state'[k] = "none" /\ by'[k] = Nobody /\ req'[k] = Nobody
    /\ \E s \in Sessions : key[s] = k /\ pc[s] = "forget" /\ pc'[s] = "idle"

RowResolved(k) ==
    /\ by'[k] = by[k] /\ req'[k] = req[k]
    /\ \E v \in Verifiers :
          /\ look[v] = k /\ look'[v] = Nobody
          /\ state'[k] = IF state[k] = "none" THEN "none" ELSE Outcome(proof[v])

RowStep(k) ==
    \/ RowStays(k) \/ RowInserted(k) \/ RowMarked(k)
    \/ RowFinished(k) \/ RowForgotten(k) \/ RowResolved(k)

\* A step of Broker.handle takes its own session from one place to the next.
LEMMA OwnSessionStep ==
    ASSUME TypeOK, NEW s \in Sessions, Handle(s)
    PROVE  SessionStep(s)
<1> USE DEF SessionStep, Kept
<1> DEFINE Typed == pc \in [Sessions -> {"idle", "prior", "facts", "reserve", "mark", "again",
                      "execute", "await", "finish", "audit", "unsure", "deny", "forget"}]
                 /\ key \in [Sessions -> Keys \cup {Nobody}]
                 /\ ask \in [Sessions -> Requests \cup {Nobody}] /\ part \in [Sessions -> Parts]
                 /\ (pc[s] # "idle" => key[s] \in Keys /\ ask[s] \in Requests)
                 /\ state \in [Keys -> {"none", "reserved", "applying", "verify_pending"} \cup Final]
                 /\ by \in [Keys -> Sessions \cup {Nobody}] /\ req \in [Keys -> Requests \cup {Nobody}]
<1>1. Typed
  BY DEF TypeOK, BrokerTypes, JournalTypes
<1>2. ASSUME NEW r \in Requests, NEW k \in Keys, Receive(s, r, k)
      PROVE  SessionStep(s)
  <2>1. Begins(s)
    BY <1>1, <1>2 DEF Receive, Goto, Begins
  <2>2. QED
    BY <2>1
<1>3. CASE PriorRequest(s)
  BY <1>1, <1>3 DEF PriorRequest, Answer, Move, Goto, Ends, Moves
<1>4. CASE Authorize(s)
  BY <1>1, <1>4 DEF Authorize, Answer, Move, Goto, Ends, Moves, NeedsFacts
<1>5. CASE Reserve(s)
  BY <1>1, <1>5 DEF Reserve, ReserveRequest, Answer, Move, Goto, Ends, Moves
<1>6. CASE MarkApplying(s)
  BY <1>1, <1>6 DEF MarkApplying, Answer, Move, Goto, Ends, Moves
<1>7. CASE Revalidate(s)
  BY <1>1, <1>7 DEF Revalidate, Move, Goto, Moves
<1>8. CASE Execute(s)
  BY <1>1, <1>8 DEF Execute, Answer, Move, Goto, Ends, Moves
<1>9. CASE Send(s)
  BY <1>1, <1>9 DEF Send, Move, Goto, Moves
<1>10. CASE Confirmed(s)
  <2>1. CASE part[s] + 1 \in Writes(ask[s])
    BY <1>1, <1>10, <2>1 DEF Confirmed, Goto, Advances
  <2>2. CASE part[s] + 1 \notin Writes(ask[s])
    BY <1>1, <1>10, <2>2 DEF Confirmed, Move, Goto, Moves
  <2>3. QED
    BY <2>1, <2>2
<1>11. CASE Unconfirmed(s)
  BY <1>1, <1>11 DEF Unconfirmed, Move, Goto, Moves
<1>12. CASE Finish(s)
  BY <1>1, <1>12 DEF Finish, FinishRequest, Move, Goto, Moves
<1>13. CASE Audit(s) \/ Deny(s) \/ Forget(s)
  BY <1>1, <1>13 DEF Audit, Deny, Forget, Answer, Ends
<1>14. CASE Unsure(s)
  BY <1>1, <1>14 DEF Unsure, FinishRequest, Answer, Ends
<1>15. CASE Fault(s)
  BY <1>1, <1>15 DEF Fault, Answer, Move, Goto, Ends, Moves
<1>16. QED
  BY <1>2, <1>3, <1>4, <1>5, <1>6, <1>7, <1>8, <1>9, <1>10, <1>11, <1>12, <1>13, <1>14,
     <1>15 DEF Handle

\* It leaves the requests of the other sessions where they are.
LEMMA OtherSessionsStay ==
    ASSUME TypeOK, NEW s \in Sessions, Handle(s), NEW t \in Sessions, t # s
    PROVE  Stays(t)
<1>1. /\ pc' = [pc EXCEPT ![s] = pc'[s]] /\ key' = [key EXCEPT ![s] = key'[s]]
      /\ ask' = [ask EXCEPT ![s] = ask'[s]] /\ part' = [part EXCEPT ![s] = part'[s]]
  <2>1. CASE \E r \in Requests, k \in Keys : Receive(s, r, k)
    BY <2>1 DEF Receive, Goto, TypeOK, BrokerTypes
  <2>2. CASE PriorRequest(s) \/ Authorize(s) \/ Reserve(s) \/ MarkApplying(s) \/ Revalidate(s)
    BY <2>2 DEF PriorRequest, Authorize, Reserve, ReserveRequest, MarkApplying, Revalidate,
       Answer, Move, Goto, TypeOK, BrokerTypes
  <2>3. CASE Execute(s) \/ Send(s) \/ Confirmed(s) \/ Unconfirmed(s)
    BY <2>3 DEF Execute, Send, Confirmed, Unconfirmed, Answer, Move, Goto, TypeOK, BrokerTypes
  <2>4. CASE Finish(s) \/ Audit(s) \/ Unsure(s) \/ Deny(s) \/ Forget(s) \/ Fault(s)
    BY <2>4 DEF Finish, Audit, Unsure, Deny, Forget, Fault, Answer, Move, Goto, TypeOK,
       BrokerTypes
  <2>5. QED
    BY <2>1, <2>2, <2>3, <2>4 DEF Handle
<1>2. QED
  BY <1>1 DEF Stays, Kept, TypeOK, BrokerTypes

LEMMA SessionSteps ==
    ASSUME TypeOK, [Next]_vars, NEW t \in Sessions
    PROVE  SessionStep(t)
<1>1. ASSUME NEW s \in Sessions, Handle(s)
      PROVE  SessionStep(t)
  BY <1>1, OwnSessionStep, OtherSessionsStay DEF SessionStep
<1>2. CASE Crash
  BY <1>2 DEF Crash, SessionStep, Ends
<1>3. CASE \/ UNCHANGED vars \/ GitHub \/ \E v \in Verifiers : MonitorSync(v)
           \/ \E s \in Sessions : CloseSession(s)
  <2>1. UNCHANGED <<pc, key, ask, part>>
    BY <1>3 DEF vars, broker, GitHub, Others, Land, Lose, MonitorSync, ScanPending,
       VerifyTimeout, Resolve, Verify, CloseSession
  <2>2. QED
    BY <2>1 DEF SessionStep, Stays, Kept
<1>4. QED
  BY <1>1, <1>2, <1>3 DEF Next

LEMMA RowSteps ==
    ASSUME TypeOK, [Next]_vars, NEW k \in Keys
    PROVE  RowStep(k)
<1> USE DEF RowStep
<1>1. ASSUME NEW s \in Sessions, Reserve(s)
      PROVE  RowStep(k)
  <2>1. key[s] \in Keys /\ pc[s] = "reserve"
    BY <1>1 DEF Reserve, TypeOK, BrokerTypes
  <2>2. CASE state[key[s]] = "none"
    BY <1>1, <2>1, <2>2 DEF Reserve, ReserveRequest, RowInserted, RowStays, TypeOK, JournalTypes
  <2>3. CASE state[key[s]] # "none"
    BY <1>1, <2>3 DEF Reserve, ReserveRequest, RowStays, journal
  <2>4. QED
    BY <2>2, <2>3
<1>2. ASSUME NEW s \in Sessions, MarkApplying(s)
      PROVE  RowStep(k)
  BY <1>2 DEF MarkApplying, RowMarked, RowStays, TypeOK, JournalTypes, BrokerTypes, journal
<1>3. ASSUME NEW s \in Sessions, Finish(s) \/ Unsure(s) \/ Deny(s)
      PROVE  RowStep(k)
  <2>1. key[s] \in Keys /\ UNCHANGED <<by, req>>
    BY <1>3 DEF Finish, Unsure, Deny, FinishRequest, TypeOK, BrokerTypes
  <2>2. CASE k # key[s]
    BY <1>3, <2>1, <2>2 DEF Finish, Unsure, Deny, FinishRequest, RowStays, TypeOK, JournalTypes
  <2>3. CASE k = key[s]
    <3>1. \/ pc[s] = "finish" /\ pc'[s] = "audit"
             /\ state'[k] = IF state[k] = "none" THEN "none" ELSE "succeeded"
          \/ pc[s] = "unsure" /\ pc'[s] = "idle"
             /\ state'[k] = IF state[k] = "none" THEN "none" ELSE "verify_pending"
          \/ pc[s] = "deny" /\ pc'[s] = "idle"
             /\ state'[k] = IF state[k] = "none" THEN "none" ELSE "failed"
      BY <1>3, <2>1, <2>3 DEF Finish, Unsure, Deny, FinishRequest, Answer, Move, Goto, TypeOK,
         JournalTypes, BrokerTypes
    <3>2. RowFinished(k)
      BY <2>1, <2>3, <3>1 DEF RowFinished
    <3>3. QED
      BY <3>2
  <2>4. QED
    BY <2>2, <2>3
<1>4. ASSUME NEW s \in Sessions, Forget(s)
      PROVE  RowStep(k)
  <2>1. key[s] \in Keys /\ pc[s] = "forget" /\ pc'[s] = "idle"
    BY <1>4 DEF Forget, Answer, TypeOK, BrokerTypes
  <2>2. QED
    BY <1>4, <2>1 DEF Forget, AbandonReadRequest, RowForgotten, RowStays, journal, TypeOK,
       JournalTypes
<1>5. ASSUME NEW v \in Verifiers, Resolve(v)
      PROVE  RowStep(k)
  <2>1. look[v] \in Keys /\ look'[v] = Nobody
    BY <1>5 DEF Resolve, TypeOK, SyncTypes
  <2>2. CASE UNCHANGED journal
    BY <2>2 DEF RowStays, journal
  <2>3. CASE FinishRequest(look[v], Outcome(proof[v]))
    BY <2>1, <2>3 DEF FinishRequest, RowStays, RowResolved, TypeOK, JournalTypes
  <2>4. QED
    BY <1>5, <2>2, <2>3 DEF Resolve
<1>6. ASSUME UNCHANGED journal
      PROVE  RowStep(k)
  BY <1>6 DEF RowStays, journal
<1>7. ASSUME NEW s \in Sessions, Handle(s)
      PROVE  RowStep(k)
  BY <1>1, <1>2, <1>3, <1>4, <1>6, <1>7 DEF Handle, Receive, PriorRequest, Authorize, Revalidate,
     Execute, Send, Confirmed, Unconfirmed, Audit, Fault
<1>8. ASSUME NEW v \in Verifiers, MonitorSync(v)
      PROVE  RowStep(k)
  BY <1>5, <1>6, <1>8 DEF MonitorSync, ScanPending, VerifyTimeout, Verify
<1>9. CASE UNCHANGED vars \/ GitHub \/ Crash \/ \E s \in Sessions : CloseSession(s)
  BY <1>6, <1>9 DEF vars, GitHub, Others, Land, Lose, Crash, CloseSession
<1>10. QED
  BY <1>7, <1>8, <1>9 DEF Next

\* What is found at GitHub was applied there, or somebody else produced the effect of a
\* write that bears no key.
ShownLanded ==
    \A k \in Keys : /\ shown[k] \subseteq landed[k] \cup foreign[k]
                     /\ foreign[k] \subseteq Unkeyed(req[k])

\* GitHub keeps what it applied, and what others did is remembered.
RemoteKept == \A k \in Keys : landed[k] \subseteq landed'[k] /\ foreign[k] \subseteq foreign'[k]

LEMMA RemoteSteps ==
    ASSUME TypeOK, [Next]_vars
    PROVE  /\ RemoteKept
           /\ (\A k \in Keys : shown[k] \subseteq landed[k] \cup foreign[k])
                 => (\A k \in Keys : shown[k] \subseteq landed[k] \cup foreign[k])'
           /\ \A k \in Keys : foreign'[k] \subseteq foreign[k] \cup Unkeyed(req[k])
<1>1. CASE UNCHANGED <<landed, shown, foreign>>
  BY <1>1 DEF RemoteKept
<1>2. ASSUME NEW k \in Keys, NEW i \in Parts, Land(k, i)
      PROVE  \A l \in Keys : /\ landed'[l] = IF l = k THEN landed[l] \cup {i} ELSE landed[l]
                             /\ shown'[l] = IF l = k THEN shown[l] \cup {i} ELSE shown[l]
                             /\ foreign' = foreign
  BY <1>2 DEF Land, TypeOK, RemoteTypes
<1>3. ASSUME NEW k \in Keys, Others(k), NEW l \in Keys
      PROVE  /\ landed' = landed /\ foreign[l] \subseteq foreign'[l]
             /\ shown'[l] \subseteq shown[l] \cup foreign'[l]
             /\ foreign'[l] \subseteq foreign[l] \cup Unkeyed(req[l])
  <2>1. CASE \E i \in shown[k] : shown' = [shown EXCEPT ![k] = @ \ {i}] /\ UNCHANGED foreign
    BY <1>3, <2>1 DEF Others, TypeOK, RemoteTypes
  <2>2. ASSUME NEW i \in Unkeyed(req[k]), shown' = [shown EXCEPT ![k] = @ \cup {i}],
               foreign' = [foreign EXCEPT ![k] = @ \cup {i}]
        PROVE  /\ foreign[l] \subseteq foreign'[l] /\ shown'[l] \subseteq shown[l] \cup foreign'[l]
               /\ foreign'[l] \subseteq foreign[l] \cup Unkeyed(req[l])
    BY <2>2 DEF TypeOK, RemoteTypes
  <2>3. QED
    BY <1>3, <2>1, <2>2 DEF Others
<1>4. ASSUME NEW s \in Sessions, Handle(s)
      PROVE  UNCHANGED <<landed, shown, foreign>>
  BY <1>4 DEF Handle, Receive, PriorRequest, Authorize, Reserve, MarkApplying, Revalidate,
     Execute, Send, Confirmed, Unconfirmed, Finish, Audit, Unsure, Deny, Forget, Fault, remote
<1>5. ASSUME UNCHANGED vars \/ Crash \/ (\E s \in Sessions : CloseSession(s))
             \/ \E v \in Verifiers : MonitorSync(v)
      PROVE  UNCHANGED <<landed, shown, foreign>>
  BY <1>5 DEF vars, Crash, CloseSession, MonitorSync, ScanPending, VerifyTimeout, Verify,
     Resolve, remote
<1>6. ASSUME NEW k \in Keys, NEW i \in Parts, Lose(k, i)
      PROVE  UNCHANGED <<landed, shown, foreign>>
  BY <1>6 DEF Lose
<1>7. CASE \E k \in Keys, i \in Parts : Land(k, i)
  BY <1>2, <1>7 DEF RemoteKept
<1>8. CASE \E k \in Keys : Others(k)
  BY <1>3, <1>8 DEF RemoteKept
<1>9. QED
  BY <1>1, <1>4, <1>5, <1>6, <1>7, <1>8 DEF Next, GitHub

\* Nothing is sent but by a request that then awaits the answer.
LEMMA SentSteps ==
    ASSUME TypeOK, [Next]_vars, NEW k \in Keys, NEW i \in Parts, sent'[k][i] # sent[k][i]
    PROVE  \E s \in Sessions : /\ key[s] = k /\ key'[s] = k /\ pc[s] = "execute" /\ pc'[s] = "await"
                               /\ i \in Writes(ask[s]) /\ ask'[s] = ask[s]
<1>1. PICK s \in Sessions : Send(s)
  BY DEF Next, vars, Handle, Receive, PriorRequest, Authorize, Reserve, MarkApplying, Revalidate,
     Execute, Confirmed, Unconfirmed, Finish, Audit, Unsure, Deny, Forget, Fault, remote,
     CloseSession, GitHub, Others, Land, Lose, MonitorSync, ScanPending, VerifyTimeout, Verify,
     Resolve, Crash
<1>2. /\ pc[s] = "execute" /\ part[s] \in Writes(ask[s]) /\ key[s] \in Keys /\ part[s] \in Parts
      /\ sent' = [sent EXCEPT ![key[s]][part[s]] = @ + 1]
      /\ pc' = [pc EXCEPT ![s] = "await"] /\ UNCHANGED <<key, ask>>
  BY <1>1 DEF Send, Move, Goto, remote, TypeOK, BrokerTypes
<1>3. k = key[s] /\ i = part[s]
  BY <1>2 DEF TypeOK, RemoteTypes
<1>4. QED
  BY <1>2, <1>3 DEF TypeOK, BrokerTypes

\* A verifier goes on with its row, drops it, or looks up the next of its list.
LookStep(v) ==
    \/ look'[v] = look[v] /\ proof'[v] = proof[v]
    \/ look'[v] = Nobody /\ proof'[v] = "none"
    \/ /\ look[v] = Nobody /\ look'[v] \in todo[v]
       /\ proof'[v] \in {Found(look'[v]), "unknown"} /\ UNCHANGED <<journal, remote>>

LEMMA LookSteps ==
    ASSUME TypeOK, [Next]_vars, NEW v \in Verifiers
    PROVE  LookStep(v)
<1> USE DEF LookStep
<1>1. ASSUME UNCHANGED <<look, proof>>
      PROVE  LookStep(v)
  BY <1>1
<1>2. ASSUME NEW s \in Sessions, Handle(s)
      PROVE  UNCHANGED <<look, proof>>
  BY <1>2 DEF Handle, Receive, PriorRequest, Authorize, Reserve, MarkApplying, Revalidate,
     Execute, Send, Confirmed, Unconfirmed, Finish, Audit, Unsure, Deny, Forget, Fault, sync
<1>3. ASSUME UNCHANGED vars \/ GitHub \/ \E s \in Sessions : CloseSession(s)
      PROVE  UNCHANGED <<look, proof>>
  BY <1>3 DEF vars, GitHub, Others, Land, Lose, CloseSession, sync
<1>4. ASSUME NEW w \in Verifiers, MonitorSync(w)
      PROVE  LookStep(v)
  <2>1. ASSUME NEW k \in Keys, Verify(w, k)
        PROVE  LookStep(v)
    <3>1. PICK p \in {Found(k), "unknown"} : proof' = [proof EXCEPT ![w] = p]
      BY <2>1 DEF Verify
    <3>2. QED
      BY <2>1, <3>1 DEF Verify, TypeOK, SyncTypes
  <2>2. CASE Resolve(w)
    BY <2>2 DEF Resolve, TypeOK, SyncTypes
  <2>3. CASE ScanPending(w) \/ VerifyTimeout(w)
    BY <2>3 DEF ScanPending, VerifyTimeout
  <2>4. QED
    BY <1>4, <2>1, <2>2, <2>3 DEF MonitorSync
<1>5. CASE Crash
  BY <1>5 DEF Crash
<1>6. QED
  BY <1>1, <1>2, <1>3, <1>4, <1>5 DEF Next

-----------------------------------------------------------------------------
(* A request on record as succeeded is done.                               *)

\* No key is used for a read and for another operation: client.request_id makes the
\* operation part of the key.
ReadKey(k) == "read" \in Requests /\ \E s \in Sessions : k \in ClientKeys[s]["read"]

ReadKeysApart ==
    \A s \in Sessions, r \in Requests \ {"read"} : \A k \in ClientKeys[s][r] : ~ ReadKey(k)

KeyKinds ==
    /\ \A s \in Sessions : pc[s] # "idle" => (ask[s] = "read" <=> ReadKey(key[s]))
    /\ \A k \in Keys : req[k] # Nobody => (req[k] = "read" <=> ReadKey(k))

LEMMA KeyKindsKept ==
    ASSUME ReadKeysApart, TypeOK, TypeOK', KeyKinds, [Next]_vars
    PROVE  KeyKinds'
<1>1. ASSUME NEW s \in Sessions, pc'[s] # "idle"
      PROVE  ask'[s] = "read" <=> ReadKey(key'[s])
  <2>1. CASE Stays(s) \/ Advances(s) \/ Moves(s)
    <3>1. pc[s] # "idle" /\ key'[s] = key[s] /\ ask'[s] = ask[s]
      <4>1. CASE Stays(s)
        BY <1>1, <4>1 DEF Stays, Kept
      <4>2. CASE Advances(s)
        BY <4>2 DEF Advances
      <4>3. CASE Moves(s)
        BY <4>3 DEF Moves, Kept
      <4>4. QED
        BY <2>1, <4>1, <4>2, <4>3
    <3>2. QED
      BY <3>1 DEF KeyKinds
  <2>2. CASE Begins(s)
    BY <2>2 DEF Begins, ReadKeysApart, ReadKey
  <2>3. QED
    BY <1>1, <2>1, <2>2, SessionSteps DEF SessionStep, Ends
<1>2. ASSUME NEW k \in Keys, req'[k] # Nobody
      PROVE  req'[k] = "read" <=> ReadKey(k)
  <2>1. CASE req'[k] = req[k]
    BY <1>2, <2>1 DEF KeyKinds
  <2>2. CASE req'[k] # req[k]
    <3>1. RowInserted(k)
      BY <1>2, <2>2, RowSteps DEF RowStep, RowStays, RowMarked, RowFinished, RowForgotten,
         RowResolved
    <3>2. QED
      BY <3>1 DEF RowInserted, KeyKinds
  <2>3. QED
    BY <2>1, <2>2
<1>3. QED
  BY <1>1, <1>2 DEF KeyKinds

\* A request begins with its first write,
BeforeFirst ==
    \A s \in Sessions : pc[s] \in {"idle", "prior", "facts", "reserve"} => part[s] = 1

\* has confirmed the ones before the one it is at,
BehindLanded ==
    \A s \in Sessions, i \in Parts :
        pc[s] \in Sending /\ i < part[s] => i \in landed[key[s]]

\* and all of them when it comes to record its success, in its own row.
FinishDone ==
    \A s \in Sessions : pc[s] = "finish" /\ ask[s] # "read" =>
        req[key[s]] = ask[s] /\ Writes(ask[s]) \subseteq landed[key[s]]

\* GitHub applies only what was sent.
LandedSent == \A k \in Keys : \A i \in flying[k] \cup landed[k] : sent[k][i] > 0

\* A verifier that has found a row's effect has found all of it.
ProofSound ==
    \A v \in Verifiers : proof[v] = "present" =>
        /\ look[v] \in Keys /\ req[look[v]] \notin {Nobody, "read"}
        /\ Writes(req[look[v]]) \subseteq landed[look[v]] \cup foreign[look[v]]

DoneInv ==
    /\ JournalInv /\ KeyKinds /\ BeforeFirst /\ BehindLanded /\ FinishDone /\ ShownLanded
    /\ LandedSent /\ ProofSound /\ SucceededIsDone

\* The rows of requests other than reads are there to stay.
LEMMA RowsStay ==
    ASSUME TypeOK, TypeOK', [Next]_vars, NEW k \in Keys, req[k] \notin {Nobody, "read"}
    PROVE  req'[k] = req[k] /\ by'[k] = by[k]
<1>1. state[k] # "none"
  BY DEF TypeOK, JournalTypes
<1>2. QED
  BY <1>1, RowSteps DEF RowStep, RowStays, RowInserted, RowMarked, RowFinished, RowForgotten,
     RowResolved

LEMMA ShownLandedKept ==
    ASSUME TypeOK, TypeOK', ShownLanded, [Next]_vars
    PROVE  ShownLanded'
<1>1. (\A k \in Keys : shown[k] \subseteq landed[k] \cup foreign[k])'
  BY RemoteSteps DEF ShownLanded
<1>2. ASSUME NEW k \in Keys
      PROVE  foreign'[k] \subseteq Unkeyed(req'[k])
  <2>1. foreign'[k] \subseteq Unkeyed(req[k])
    BY RemoteSteps DEF ShownLanded
  <2>2. CASE req[k] \in {Nobody, "read"}
    BY <2>1, <2>2 DEF Unkeyed, Kinds
  <2>3. CASE req[k] \notin {Nobody, "read"}
    BY <2>1, <2>3, RowsStay
  <2>4. QED
    BY <2>2, <2>3
<1>3. QED
  BY <1>1, <1>2 DEF ShownLanded

LEMMA BeforeFirstKept ==
    ASSUME TypeOK, BeforeFirst, [Next]_vars
    PROVE  BeforeFirst'
<1> SUFFICES ASSUME NEW s \in Sessions, pc'[s] \in {"idle", "prior", "facts", "reserve"}
             PROVE  part'[s] = 1
  BY DEF BeforeFirst
<1>1. CASE Stays(s)
  BY <1>1 DEF Stays, Kept, BeforeFirst
<1>2. CASE Ends(s)
  BY <1>2 DEF Ends
<1>3. CASE Begins(s)
  BY <1>3 DEF Begins, BeforeFirst
<1>4. CASE Advances(s)
  BY <1>4 DEF Advances
<1>5. CASE Moves(s)
  BY <1>5 DEF Moves, Kept, BeforeFirst
<1>6. QED
  BY <1>1, <1>2, <1>3, <1>4, <1>5, SessionSteps DEF SessionStep

LEMMA BehindLandedKept ==
    ASSUME TypeOK, BeforeFirst, BehindLanded, [Next]_vars
    PROVE  BehindLanded'
<1> SUFFICES ASSUME NEW s \in Sessions, NEW i \in Parts, pc'[s] \in Sending, i < part'[s]
             PROVE  i \in landed'[key'[s]]
  BY DEF BehindLanded
<1>1. part[s] \in Parts /\ (pc[s] # "idle" => key[s] \in Keys) /\ i \in Nat /\ i >= 1
  BY DEF TypeOK, BrokerTypes, Parts
<1>2. CASE Stays(s) \/ Moves(s)
  <2>1. Kept(s) /\ (pc[s] \in Sending \/ pc[s] = "reserve")
    BY <1>2 DEF Stays, Moves, Sending
  <2>2. CASE pc[s] = "reserve"
    BY <1>1, <2>1, <2>2 DEF BeforeFirst, Kept
  <2>3. CASE pc[s] \in Sending
    <3>1. i \in landed[key[s]] /\ key[s] \in Keys
      BY <1>1, <2>1, <2>3 DEF BehindLanded, Kept, Sending
    <3>2. QED
      BY <2>1, <3>1, RemoteSteps DEF Kept, RemoteKept
  <2>4. QED
    BY <2>1, <2>2, <2>3
<1>3. CASE Advances(s)
  <2>1. key[s] \in Keys /\ key'[s] = key[s] /\ part[s] \in landed[key[s]] /\ pc[s] \in Sending
    BY <1>1, <1>3 DEF Advances, Sending
  <2>2. i < part[s] \/ i = part[s]
    BY <1>1, <1>3 DEF Advances, Parts
  <2>3. i \in landed[key[s]]
    BY <2>1, <2>2 DEF BehindLanded
  <2>4. QED
    BY <2>1, <2>3, RemoteSteps DEF RemoteKept
<1>4. QED
  BY <1>2, <1>3, SessionSteps DEF SessionStep, Ends, Begins, Sending

\* A request's writes are numbered from one.
LEMMA WritesNumbered ==
    ASSUME NEW r, NEW p \in Parts, p + 1 \notin Writes(r), NEW i \in Writes(r)
    PROVE  i \in Parts /\ (i < p \/ i = p)
<1>1. CASE r \in {"create", "close"}
  BY <1>1 DEF Writes, Parts
<1>2. CASE r \in {"marked", "state", "submit"}
  BY <1>2 DEF Writes, Parts
<1>3. CASE r \notin {"create", "close", "marked", "state", "submit"}
  BY <1>3 DEF Writes
<1>4. QED
  BY <1>1, <1>2, <1>3

LEMMA FinishDoneKept ==
    ASSUME JournalInv, TypeOK', BehindLanded, FinishDone, [Next]_vars
    PROVE  FinishDone'
<1> SUFFICES ASSUME NEW s \in Sessions, pc'[s] = "finish", ask'[s] # "read"
             PROVE  req'[key'[s]] = ask'[s] /\ Writes(ask'[s]) \subseteq landed'[key'[s]]
  BY DEF FinishDone
<1>1. TypeOK /\ SenderHasRow
  BY DEF JournalInv
<1>2. Kept(s) /\ pc[s] # "idle" /\ key[s] \in Keys /\ ask[s] \in Requests \ {"read"}
  BY <1>1, SessionSteps DEF SessionStep, Stays, Ends, Begins, Advances, Moves, Kept, TypeOK,
     BrokerTypes
<1>3. req[key[s]] = ask[s] /\ Writes(ask[s]) \subseteq landed[key[s]]
  <2>1. CASE pc[s] = "finish"
    BY <1>2, <2>1 DEF FinishDone
  <2>2. CASE pc[s] # "finish"
    <3>1. /\ pc[s] \in {"execute", "await"}
          /\ \/ Writes(ask[s]) = {}
             \/ part[s] \in landed[key[s]] /\ part[s] + 1 \notin Writes(ask[s])
      BY <1>1, <2>2, SessionSteps DEF SessionStep, Stays, Ends, Begins, Advances, Moves, Kept
    <3>2. req[key[s]] = ask[s]
      BY <1>1, <1>2, <3>1 DEF SenderHasRow, Sending
    <3>3. ASSUME NEW i \in Writes(ask[s])
          PROVE  i \in landed[key[s]]
      <4>1. part[s] \in Parts
        BY <1>1 DEF TypeOK, BrokerTypes
      <4>2. i \in Parts /\ (i < part[s] \/ i = part[s])
        BY <3>1, <4>1, WritesNumbered
      <4>3. QED
        BY <3>1, <4>2 DEF BehindLanded, Sending
    <3>4. QED
      BY <3>2, <3>3
  <2>3. QED
    BY <2>1, <2>2
<1>4. req'[key[s]] = req[key[s]]
  BY <1>1, <1>2, <1>3, RowsStay
<1>5. QED
  BY <1>1, <1>2, <1>3, <1>4, RemoteSteps DEF Kept, RemoteKept

LEMMA LandedSentKept ==
    ASSUME TypeOK, TypeOK', LandedSent, [Next]_vars
    PROVE  LandedSent'
<1>1. CASE UNCHANGED remote
  BY <1>1 DEF LandedSent, remote
<1>2. ASSUME NEW s \in Sessions, Send(s)
      PROVE  LandedSent'
  <2>1. CASE UNCHANGED remote
    BY <1>1, <2>1
  <2>2. CASE ~ UNCHANGED remote
    <3>1. /\ key[s] \in Keys /\ part[s] \in Parts /\ UNCHANGED landed
          /\ sent' = [sent EXCEPT ![key[s]][part[s]] = @ + 1]
          /\ flying' = [flying EXCEPT ![key[s]] = @ \cup {part[s]}]
      BY <1>2, <2>2 DEF Send, TypeOK, BrokerTypes
    <3>2. \A k \in Keys, i \in Parts :
              sent'[k][i] = IF k = key[s] /\ i = part[s] THEN sent[k][i] + 1 ELSE sent[k][i]
      BY <3>1 DEF TypeOK, RemoteTypes
    <3>3. ASSUME NEW k \in Keys, NEW i \in flying'[k] \cup landed'[k]
          PROVE  sent'[k][i] > 0
      <4>1. i \in Parts /\ sent[k][i] \in Nat
        BY DEF TypeOK, RemoteTypes
      <4>2. CASE k = key[s] /\ i = part[s]
        BY <3>2, <4>1, <4>2
      <4>3. CASE ~ (k = key[s] /\ i = part[s])
        <5>1. i \in flying[k] \cup landed[k]
          BY <3>1, <4>3 DEF TypeOK, RemoteTypes
        <5>2. QED
          BY <3>2, <4>1, <4>3, <5>1 DEF LandedSent
      <4>4. QED
        BY <4>2, <4>3
    <3>4. QED
      BY <3>3 DEF LandedSent
  <2>3. QED
    BY <2>1, <2>2
<1>3. ASSUME NEW k \in Keys, NEW i \in Parts, Land(k, i) \/ Lose(k, i)
      PROVE  LandedSent'
  <2>1. UNCHANGED sent /\ i \in flying[k] /\ flying' = [flying EXCEPT ![k] = @ \ {i}]
    BY <1>3 DEF Land, Lose
  <2>2. landed' = [landed EXCEPT ![k] = @ \cup {i}] \/ landed' = landed
    BY <1>3 DEF Land, Lose
  <2>3. ASSUME NEW l \in Keys, NEW j \in flying'[l] \cup landed'[l]
        PROVE  j \in flying[l] \cup landed[l]
    BY <2>1, <2>2 DEF TypeOK, RemoteTypes
  <2>4. QED
    BY <2>1, <2>3 DEF LandedSent
<1>4. ASSUME NEW k \in Keys, Others(k)
      PROVE  LandedSent'
  BY <1>4 DEF Others, LandedSent
<1>5. ASSUME NEW s \in Sessions, Handle(s), ~ Send(s)
      PROVE  UNCHANGED remote
  BY <1>5 DEF Handle, Receive, PriorRequest, Authorize, Reserve, MarkApplying, Revalidate,
     Execute, Confirmed, Unconfirmed, Finish, Audit, Unsure, Deny, Forget, Fault
<1>6. ASSUME UNCHANGED vars \/ Crash \/ (\E s \in Sessions : CloseSession(s))
             \/ \E v \in Verifiers : MonitorSync(v)
      PROVE  UNCHANGED remote
  BY <1>6 DEF vars, Crash, CloseSession, MonitorSync, ScanPending, VerifyTimeout, Verify, Resolve
<1>7. QED
  BY <1>1, <1>2, <1>3, <1>4, <1>5, <1>6 DEF Next, GitHub

\* What verify_broker accepts as the effect of a request is every write of it, but for
\* the creation of an issue, whose first write alone is looked for.
LEMMA FoundIsAll ==
    ASSUME "create" \notin Requests, JournalInv, ShownLanded, LandedSent,
           NEW k \in Keys, Found(k) = "present"
    PROVE  req[k] \notin {Nobody, "read"} /\ Writes(req[k]) \subseteq landed[k] \cup foreign[k]
<1>1. /\ shown[k] \subseteq landed[k] \cup foreign[k] /\ foreign[k] \subseteq Unkeyed(req[k])
      /\ TypeOK /\ UnsentWithoutRow
  BY DEF ShownLanded, JournalInv
<1>2. req[k] # Nobody /\ req[k] \in {"marked", "close", "state", "submit"}
  <2>1. req[k] \notin {"read", "worker"} /\ 1 \in shown[k]
    BY DEF Found
  <2>2. CASE 1 \in landed[k]
    <3>1. sent[k][1] > 0
      BY <2>2 DEF LandedSent, Parts
    <3>2. req[k] # Nobody
      BY <1>1, <3>1 DEF UnsentWithoutRow, Parts
    <3>3. req[k] \in Requests
      BY <1>1, <3>2 DEF TypeOK, JournalTypes
    <3>4. QED
      BY <2>1, <3>2, <3>3 DEF Kinds
  <2>3. CASE 1 \in foreign[k]
    <3>1. req[k] \in {"state", "close"}
      BY <1>1, <2>3 DEF Unkeyed
    <3>2. QED
      BY <3>1 DEF Kinds
  <2>4. QED
    BY <1>1, <2>1, <2>2, <2>3
<1>3. CASE req[k] = "close"
  <2>1. {1, 2} \subseteq shown[k]
    BY <1>3 DEF Found
  <2>2. QED
    BY <1>1, <1>2, <1>3, <2>1 DEF Writes
<1>4. CASE req[k] \in {"marked", "state", "submit"}
  <2>1. 1 \in shown[k]
    BY <1>4 DEF Found
  <2>2. Writes(req[k]) = {1}
    BY <1>4 DEF Writes
  <2>3. QED
    BY <1>1, <1>2, <1>4, <2>1, <2>2
<1>5. QED
  BY <1>2, <1>3, <1>4

LEMMA ProofSoundKept ==
    ASSUME "create" \notin Requests, JournalInv, TypeOK', ShownLanded, LandedSent, ProofSound,
           [Next]_vars
    PROVE  ProofSound'
<1> SUFFICES ASSUME NEW v \in Verifiers, proof'[v] = "present"
             PROVE  /\ look'[v] \in Keys /\ req'[look'[v]] \notin {Nobody, "read"}
                    /\ Writes(req'[look'[v]]) \subseteq landed'[look'[v]] \cup foreign'[look'[v]]
  BY DEF ProofSound
<1>1. TypeOK
  BY DEF JournalInv
<1>2. CASE look'[v] = look[v] /\ proof'[v] = proof[v]
  <2>1. /\ look[v] \in Keys /\ req[look[v]] \notin {Nobody, "read"}
        /\ Writes(req[look[v]]) \subseteq landed[look[v]] \cup foreign[look[v]]
    BY <1>2 DEF ProofSound
  <2>2. QED
    BY <1>1, <1>2, <2>1, RowsStay, RemoteSteps DEF RemoteKept
<1>3. CASE look[v] = Nobody /\ look'[v] \in todo[v] /\ proof'[v] \in {Found(look'[v]), "unknown"}
           /\ UNCHANGED <<journal, remote>>
  <2>1. look'[v] \in Keys /\ Found(look'[v]) = "present"
    BY <1>1, <1>3 DEF TypeOK, SyncTypes
  <2>2. QED
    BY <1>3, <2>1, FoundIsAll DEF journal, remote
<1>4. QED
  BY <1>1, <1>2, <1>3, LookSteps DEF LookStep

LEMMA SucceededKept ==
    ASSUME DoneInv, TypeOK', [Next]_vars
    PROVE  SucceededIsDone'
<1> SUFFICES ASSUME NEW k \in Keys, state'[k] = "succeeded"
             PROVE  Writes(req'[k]) \subseteq landed'[k] \cup foreign'[k]
  BY DEF SucceededIsDone
<1>1. TypeOK /\ landed[k] \subseteq landed'[k] /\ foreign[k] \subseteq foreign'[k]
  BY RemoteSteps DEF RemoteKept, DoneInv, JournalInv
<1>2. req'[k] = req[k]
  BY <1>1, RowSteps DEF RowStep, RowStays, RowInserted, RowMarked, RowFinished, RowForgotten,
     RowResolved
<1>3. Writes(req[k]) \subseteq landed[k] \cup foreign[k]
  <2>1. CASE state[k] = "succeeded"
    BY <2>1 DEF DoneInv, SucceededIsDone
  <2>2. ASSUME NEW s \in Sessions, key[s] = k, pc[s] = "finish"
        PROVE  Writes(req[k]) \subseteq landed[k] \cup foreign[k]
    <3>1. CASE ask[s] # "read"
      BY <2>2, <3>1 DEF DoneInv, FinishDone
    <3>2. CASE ask[s] = "read"
      <4>1. req[k] \in {Nobody, "read"}
        BY <2>2, <3>2 DEF DoneInv, KeyKinds
      <4>2. req[k] # Nobody
        BY <1>2 DEF TypeOK, JournalTypes
      <4>3. QED
        BY <4>1, <4>2 DEF Writes
    <3>3. QED
      BY <3>1, <3>2
  <2>3. ASSUME NEW v \in Verifiers, look[v] = k, Outcome(proof[v]) = "succeeded"
        PROVE  Writes(req[k]) \subseteq landed[k] \cup foreign[k]
    BY <2>3 DEF Outcome, DoneInv, ProofSound
  <2>4. QED
    BY <1>1, <2>1, <2>2, <2>3, RowSteps DEF RowStep, RowStays, RowInserted, RowMarked,
       RowFinished, RowForgotten, RowResolved
<1>4. QED
  BY <1>1, <1>2, <1>3

LEMMA DoneInit == Init => DoneInv
<1> SUFFICES ASSUME Init
             PROVE  DoneInv
  OBVIOUS
<1>1. JournalInv
  BY InitInv
<1>2. KeyKinds /\ BeforeFirst /\ SucceededIsDone
  BY DEF Init, KeyKinds, BeforeFirst, SucceededIsDone
<1>3. BehindLanded /\ FinishDone /\ ProofSound
  BY DEF Init, BehindLanded, Sending, FinishDone, ProofSound
<1>4. ShownLanded /\ LandedSent
  BY DEF Init, ShownLanded, LandedSent
<1>5. QED
  BY <1>1, <1>2, <1>3, <1>4 DEF DoneInv

LEMMA DoneNext ==
    ASSUME ReadKeysApart, "create" \notin Requests
    PROVE  DoneInv /\ [Next]_vars => DoneInv'
<1> SUFFICES ASSUME DoneInv, [Next]_vars
             PROVE  DoneInv'
  OBVIOUS
<1>1. JournalInv' /\ TypeOK' /\ TypeOK
  BY NextInv DEF DoneInv, JournalInv
<1>2. KeyKinds' /\ BeforeFirst' /\ BehindLanded'
  BY <1>1, KeyKindsKept, BeforeFirstKept, BehindLandedKept DEF DoneInv
<1>3. FinishDone' /\ ShownLanded' /\ LandedSent'
  BY <1>1, FinishDoneKept, ShownLandedKept, LandedSentKept DEF DoneInv
<1>4. ProofSound' /\ SucceededIsDone'
  BY <1>1, ProofSoundKept, SucceededKept DEF DoneInv
<1>5. QED
  BY <1>1, <1>2, <1>3, <1>4 DEF DoneInv

\* Where no key serves a read and another operation, a request on record as succeeded
\* has had every write applied, but for those without a key whose effect somebody else
\* produced; through crashes, lost and late answers, failing statements, undone effects
\* and any number of verifiers; the creation of an issue apart, which is verified by its
\* first write.
THEOREM SuccessIsReal ==
    ASSUME ReadKeysApart, "create" \notin Requests
    PROVE  Spec => []SucceededIsDone
<1>1. DoneInv => SucceededIsDone
  BY DEF DoneInv
<1>2. QED
  BY <1>1, DoneInit, DoneNext, PTL DEF Spec

-----------------------------------------------------------------------------
(* A write whose outcome nobody knows is on record for verification.       *)

\* Until the outcome is recorded, the session that sent the write is still at it.
OwnerOnIt ==
    \A k \in Keys, i \in Parts : sent[k][i] > 0 =>
        \/ state[k] \in Final \cup {"verify_pending"}
        \/ \E s \in Sessions :
              /\ by[k] = s /\ key[s] = k /\ Writes(ask[s]) # {}
              /\ pc[s] \in {"execute", "await", "finish", "unsure"}

LEMMA OwnerStays ==
    ASSUME {"crash", "fault"} \cap Modes = {}, TypeOK, [Next]_vars,
           NEW s \in Sessions, NEW k \in Keys, key[s] = k, Writes(ask[s]) # {},
           pc[s] \in {"execute", "await", "finish", "unsure"}
    PROVE  \/ /\ key'[s] = k /\ Writes(ask'[s]) # {}
              /\ pc'[s] \in {"execute", "await", "finish", "unsure"}
           \/ state'[k] \in {"none", "succeeded", "verify_pending"}
<1>1. ask[s] # "read"
  BY DEF Writes
<1>2. CASE Stays(s) \/ Begins(s) \/ Advances(s)
  BY <1>2 DEF Stays, Kept, Begins, Advances
<1>3. CASE Ends(s)
  BY <1>3 DEF Ends
<1>4. CASE Moves(s)
  BY <1>1, <1>4 DEF Moves, Kept
<1>5. QED
  BY <1>2, <1>3, <1>4, SessionSteps DEF SessionStep

LEMMA OwnerOnItKept ==
    ASSUME {"crash", "fault"} \cap Modes = {}, JournalInv, JournalInv', OwnerOnIt, [Next]_vars
    PROVE  OwnerOnIt'
<1> DEFINE Here(s, k) == /\ by[k] = s /\ key[s] = k /\ Writes(ask[s]) # {}
                         /\ pc[s] \in {"execute", "await", "finish", "unsure"}
           Recorded(k) == state[k] \in Final \cup {"verify_pending"}
<1> SUFFICES ASSUME NEW k \in Keys, NEW i \in Parts, sent'[k][i] > 0
             PROVE  Recorded(k)' \/ \E s \in Sessions : Here(s, k)'
  BY DEF OwnerOnIt
<1>1. TypeOK /\ TypeOK' /\ SenderHasRow /\ UnsentWithoutRow /\ UnsentWithoutRow'
  BY DEF JournalInv
<1>2. req'[k] \notin {Nobody, "read"} /\ state'[k] # "none"
  BY <1>1 DEF UnsentWithoutRow, TypeOK, JournalTypes
<1>3. CASE sent'[k][i] = sent[k][i]
  <2>1. req[k] \notin {Nobody, "read"} /\ state[k] # "none"
    BY <1>1, <1>3 DEF UnsentWithoutRow, TypeOK, JournalTypes
  <2>2. CASE Recorded(k)
    BY <1>1, <2>1, <2>2, RowSteps DEF RowStep, RowStays, RowInserted, RowMarked, RowFinished,
       RowForgotten, RowResolved, Outcome, Final
  <2>3. ASSUME NEW s \in Sessions, Here(s, k)
        PROVE  Recorded(k)' \/ Here(s, k)'
    <3>1. by'[k] = s
      BY <1>1, <2>1, <2>3, RowsStay
    <3>2. \/ /\ key'[s] = k /\ Writes(ask'[s]) # {}
             /\ pc'[s] \in {"execute", "await", "finish", "unsure"}
          \/ state'[k] \in {"none", "succeeded", "verify_pending"}
      BY <1>1, <2>3, OwnerStays
    <3>3. QED
      BY <1>2, <3>1, <3>2 DEF Final
  <2>4. QED
    BY <1>3, <2>2, <2>3 DEF OwnerOnIt
<1>4. CASE sent'[k][i] # sent[k][i]
  <2>1. PICK s \in Sessions : /\ key[s] = k /\ key'[s] = k /\ pc[s] = "execute"
                              /\ pc'[s] = "await" /\ i \in Writes(ask[s]) /\ ask'[s] = ask[s]
    BY <1>1, <1>4, SentSteps
  <2>2. ask[s] # "read"
    BY <2>1 DEF Writes
  <2>3. by[k] = s /\ req[k] = ask[s] /\ ask[s] \in Requests
    BY <1>1, <2>1, <2>2 DEF SenderHasRow, Sending, TypeOK, BrokerTypes
  <2>4. by'[k] = s
    BY <1>1, <2>2, <2>3, RowsStay
  <2>5. QED
    BY <2>1, <2>4
<1>5. QED
  BY <1>3, <1>4

\* Unless the process is lost or the database refuses a statement, a write that was
\* sent is on record with its outcome, or for verification, as soon as nobody handles
\* its request: whoever shares the key, however late or lost the answer.
THEOREM NothingAmbiguousIsLost ==
    ASSUME {"crash", "fault"} \cap Modes = {}
    PROVE  Spec => []AmbiguousIsPending
<1>1. Init => JournalInv /\ OwnerOnIt
  BY InitInv DEF Init, OwnerOnIt
<1>2. JournalInv /\ OwnerOnIt /\ [Next]_vars => (JournalInv /\ OwnerOnIt)'
  BY NextInv, OwnerOnItKept
<1>3. JournalInv /\ OwnerOnIt => AmbiguousIsPending
  BY DEF OwnerOnIt, AmbiguousIsPending
<1>4. QED
  BY <1>1, <1>2, <1>3, PTL DEF Spec

=============================================================================
