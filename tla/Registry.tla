---- MODULE Registry ----
(***************************************************************************)
(* What the upload endpoints promise, without saying how: an append-only   *)
(* register of uploads.  An entry is registered in one step under an id    *)
(* that no earlier entry has, it is never changed or removed, and only a   *)
(* registered entry may be made searchable (cited by /ask) or confirmed to *)
(* the client that uploaded it.                                            *)
(***************************************************************************)

CONSTANTS Ids,      \* the identifiers an upload can be given
          Uploads,  \* the files that can be uploaded
          None      \* "nothing is registered under this id"

VARIABLES registered,  \* the upload registered under each id, or None
          searchable,  \* the ids a question may be answered from
          confirmed    \* the ids a client holds a successful answer for

regVars == <<registered, searchable, confirmed>>

RegInit ==
  /\ registered = [i \in Ids |-> None]
  /\ searchable = {}
  /\ confirmed = {}

Register(i, u) ==
  /\ registered[i] = None
  /\ registered' = [registered EXCEPT ![i] = u]
  /\ UNCHANGED <<searchable, confirmed>>

MakeSearchable(i) ==
  /\ registered[i] # None
  /\ searchable' = searchable \union {i}
  /\ UNCHANGED <<registered, confirmed>>

Confirm(i) ==
  /\ registered[i] # None
  /\ confirmed' = confirmed \union {i}
  /\ UNCHANGED <<registered, searchable>>

RegNext == \E i \in Ids :
  \/ \E u \in Uploads : Register(i, u)
  \/ MakeSearchable(i)
  \/ Confirm(i)

RegSpec == RegInit /\ [][RegNext]_regVars

====
