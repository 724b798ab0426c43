--------------------------- MODULE MCBrokerJournal ---------------------------
(***************************************************************************)
(* Small instances of BrokerJournal.                                       *)
(***************************************************************************)
EXTENDS BrokerJournal, TLC

\* client.request_id: the key names the wake and the request.
OwnKeys == Sessions \X Requests
OwnClientKeys == [s \in Sessions |-> [r \in Requests |-> {<<s, r>>}]]

\* Callers that choose their keys themselves.
AnyClientKeys == [s \in Sessions |-> [r \in Requests |-> Keys]]

\* Verifiers are alike.
LikeVerifiers == Permutations(Verifiers)

\* Sessions and verifiers are interchangeable when every key is open to all.
Interchangeable == Permutations(Sessions) \cup Permutations(Verifiers)

=============================================================================
