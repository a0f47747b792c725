---- MODULE GraphMemory ----
(***************************************************************************)
(* InMemoryGraphStore: the dictionary that says what a graph store of the  *)
(* service promises.  It keeps the facts last upserted for each contract   *)
(* and answers the two date templates from them.  The answers are sets of  *)
(* rows: the order of the rows is not promised.                            *)
(***************************************************************************)

EXTENDS Integers

CONSTANTS Contracts,    \* the contract ids
          Day,          \* the dates: numbers, compared as ISO strings are
          Texts,        \* the clause texts, with their offsets
          Upserted,     \* the facts that the uploads can produce
          Absent,       \* nothing was upserted under an id
          NoFact        \* a contract without that fact

Expirations == [iso : Day, text : Texts]
GraphContracts ==
  [expiration : Expirations \union {NoFact}, renewal : Texts \union {NoFact}]

Templates == {"expiring_within", "auto_renewing_expiring_within"}

VARIABLES data,       \* the facts of each contract, or Absent
          answered    \* the rows of the last template that ran

MemInit ==
  /\ data = [c \in Contracts |-> Absent]
  /\ answered = {}

\* A row of the plain template mentions no renewal.
Row(c, expiration, renewal) ==
  [contract |-> c, expiration |-> expiration, renewal |-> renewal]

Expires(c, lower, upper) ==
  /\ data[c] # Absent
  /\ data[c].expiration # NoFact
  /\ lower <= data[c].expiration.iso
  /\ data[c].expiration.iso <= upper

RowsOf(name, lower, upper) ==
  IF name = "expiring_within"
  THEN {Row(c, data[c].expiration, NoFact) :
          c \in {k \in Contracts : Expires(k, lower, upper)}}
  ELSE {Row(c, data[c].expiration, data[c].renewal) :
          c \in {k \in Contracts : /\ Expires(k, lower, upper)
                                   /\ data[k].renewal # NoFact}}

UpsertContract(c, gc) ==
  /\ data' = [data EXCEPT ![c] = gc]
  /\ UNCHANGED answered

RunTemplate(name, lower, upper) ==
  /\ answered' = RowsOf(name, lower, upper)
  /\ UNCHANGED data

MemNext ==
  \/ \E c \in Contracts, gc \in Upserted : UpsertContract(c, gc)
  \/ \E name \in Templates, lower, upper \in Day : RunTemplate(name, lower, upper)

memVars == <<data, answered>>

MemSpec == MemInit /\ [][MemNext]_memVars

====
