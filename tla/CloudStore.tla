----------------------------- MODULE CloudStore -----------------------------
(***************************************************************************)
(* What the application expects of a storage provider: an object is        *)
(* replaced at once by the whole content of one upload, an upload is       *)
(* stored at most once and before it is reported as done, and what fails   *)
(* may or may not have been stored.                                        *)
(***************************************************************************)
EXTENDS Naturals

CONSTANTS
    Calls,              \* the calls of the application
    NoAnswer,           \* the result of a call that goes on
    Nothing             \* what a call stores that is no upload

VARIABLES
    content,            \* call -> what it stores
    store,              \* object -> content
    stored,             \* the uploads that were stored
    result              \* call -> its result

storeVars == <<content, store, stored, result>>

StoreInit ==
    /\ stored = {}
    /\ result = [c \in Calls |-> NoAnswer]

\* The object takes the content; the server may act before the call has its result.
Land(c, id) ==
    /\ c \notin stored /\ content[c] # Nothing /\ result[c] = NoAnswer
    /\ store' = [x \in DOMAIN store \cup {id} |-> IF x = id THEN content[c] ELSE store[x]]
    /\ stored' = stored \cup {c}
Remove(id) ==
    /\ store' = [x \in DOMAIN store \ {id} |-> store[x]]
    /\ UNCHANGED stored
Answer(c, r) ==
    /\ result[c] = NoAnswer
    /\ r = "ok" => c \in stored' \/ content[c] = Nothing
    /\ result' = [result EXCEPT ![c] = r]

StoreNext ==
    \E c \in Calls :
        /\ UNCHANGED content
        /\ \/ \E id \in DOMAIN store' : Land(c, id)
           \/ \E id \in DOMAIN store : Remove(id)
           \/ UNCHANGED <<store, stored>>
        /\ \/ \E r \in {"ok", "err", "aborted", "swept"} : Answer(c, r)
           \/ UNCHANGED result

StoreSpec == StoreInit /\ [][StoreNext]_storeVars
=============================================================================
