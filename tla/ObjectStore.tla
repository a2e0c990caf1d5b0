---------------------------- MODULE ObjectStore ----------------------------
(***************************************************************************)
(* The store a `copy` or `rename` call works on, seen from outside: the    *)
(* objects at the addresses, the preconditions a request carries, and the  *)
(* other clients, who write and delete at any time.  External: modelled    *)
(* from the contract of the request options and from how the fallback      *)
(* layer uses its inner layer.                                             *)
(*                                                                         *)
(* An object is its content `of` (a version: each foreign write stores a   *)
(* version of its own), whether it is `whole`, and whether the call stored *)
(* it (`mine`): an object the call stores gets an etag nobody else knows.  *)
(***************************************************************************)
EXTENDS Naturals, Sequences, FiniteSets

CONSTANTS Addresses,    \* the addresses the call and the other writers use
          Versions,     \* the contents the other writers can store
          Original,     \* the content of the source when the call begins
          Resident,     \* the content of the destination when the call begins
          Gone,         \* no object at an address
          NoEtag,       \* `if_source` not given
          Requests      \* the calls considered

VARIABLES req,      \* the call: op, source, destination, if_source, if_dest
          obj,      \* the object at each address
          wrote,    \* versions foreign writers have stored during the call
          held,     \* contents the source has had during the call
          placed,   \* contents the call has stored at the destination
          removed,  \* contents the call has removed from the source
          vacated   \* the source was absent since the call last stored something

ASSUME VersionsAssumption == /\ Original \in Versions
                             /\ Resident \in Versions
                             /\ Original # Resident

\* RenameOptions and CopyOptions.
ASSUME RequestsAssumption ==
  /\ Requests \subseteq [op : {"copy", "rename"}, source : Addresses, destination : Addresses,
                          if_source : Versions \cup {NoEtag},
                          if_dest : {"Overwrite", "Fail", "MatchEtag"}]
  /\ NoEtag \notin Versions
  /\ Gone \notin Versions \cup [of : Versions, whole : BOOLEAN, mine : BOOLEAN]

storage == <<obj, wrote, held, placed, removed, vacated>>

Objects == [of : Versions, whole : BOOLEAN, mine : BOOLEAN]

Source == req.source
Destination == req.destination

Foreign(v) == [of |-> v, whole |-> TRUE, mine |-> FALSE]

Contents(o) == {x.of : x \in {o} \ {Gone}}

\* An etag names the version a foreign writer stored, never a copy of it.
Matches(o, etag) == o # Gone /\ o = Foreign(etag)

\* `if_source`, on the source as it is now.
SourceMatches == \/ req.if_source = NoEtag
                 \/ Matches(obj[Source], req.if_source)

\* `if_dest`, on the destination as it is now.
DestinationAllows ==
  CASE req.if_dest = "Overwrite" -> TRUE
    [] req.if_dest = "Fail"      -> obj[Destination] = Gone
    [] req.if_dest = "MatchEtag" -> Matches(obj[Destination], Resident)

Codes == {"Ok", "Redirects", "Unsupported", "InvalidArgument", "NotFound",
          "PreconditionFailed", "ObjectModified", "ResourceExhausted",
          "Transient", "Refused", "Cancelled", "Internal", "CommitAmbiguous",
          "Dropped"}

StoreInit ==
  /\ req \in Requests
  /\ obj \in [Addresses -> Objects \cup {Gone}]
  /\ obj[Source] \in {Foreign(Original), Gone}
  /\ \A a \in Addresses \ {Source} : obj[a] \in {Foreign(Resident), Gone}
  /\ wrote = {}
  /\ held = Contents(obj[Source])
  /\ placed = {}
  /\ removed = {}
  /\ vacated = FALSE

\* The history of a step that changes the store; `stored` are the contents
\* the call itself puts at the destination in it.
Track(stored) ==
  /\ held' = held \cup Contents(obj'[Source])
  /\ placed' = placed \cup stored
  /\ vacated' = (obj'[Source] = Gone \/ (vacated /\ stored = {}))

\* Another client stores a content of its own or deletes an object.
ForeignWrite(a, v) ==
  /\ v \notin wrote \cup {Original, Resident}
  /\ obj' = [obj EXCEPT ![a] = Foreign(v)]
  /\ wrote' = wrote \cup {v}
  /\ Track({})
  /\ UNCHANGED <<req, removed>>

ForeignDelete(a) ==
  /\ obj[a] # Gone
  /\ obj' = [obj EXCEPT ![a] = Gone]
  /\ Track({})
  /\ UNCHANGED <<req, wrote, removed>>

Others ==
  \/ \E a \in Addresses, v \in Versions : ForeignWrite(a, v)
  \/ \E a \in Addresses : ForeignDelete(a)

=============================================================================
