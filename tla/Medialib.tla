------------------------------ MODULE Medialib ------------------------------
(***************************************************************************)
(* The media library's database as its users see it (src/xmms/medialib.c): *)
(* entries with a url, a status and the metadata that was read for them,   *)
(* and the exclusive transaction in which all of it is changed.            *)
(*                                                                         *)
(* A transaction that one action opens and closes is not seen in writer;   *)
(* it needs the database to be free like every other one.  What a          *)
(* transaction does before it is committed, nobody else sees.              *)
(***************************************************************************)
EXTENDS Integers, FiniteSets

CONSTANTS
  Url,
  Playable,  \* the urls a chain can be built for
  Nothing,   \* no url
  MaxId      \* bound: the ids of the entries are 1..MaxId

Id == 1..MaxId

ASSUME UrlAssumption == Playable \subseteq Url /\ Nothing \notin Url
ASSUME IdAssumption == MaxId \in Nat \ {0}

Status == {"NEW", "OK", "RESOLVING", "NOT_AVAILABLE", "REHASH"}
Gone == [url |-> Nothing, status |-> "NONE", info |-> Nothing]
Entries == [url : Url, status : Status, info : Url \cup {Nothing}] \cup {Gone}

VARIABLES
  media,   \* the rows of each id; info is the url the metadata came from
  writer   \* who is inside BEGIN EXCLUSIVE TRANSACTION .. COMMIT, or "none"

Present == {i \in Id : media[i] # Gone}

\* SELECT IFNULL(MAX (id),0)+1
NextId == IF Present = {} THEN 1
          ELSE 1 + CHOOSE i \in Present : \A j \in Present : j <= i

NotResolved == {i \in Id : media[i].status \in {"NEW", "REHASH"}}

\* xmms_medialib_entry_status_set: a property of an id that does not exist is
\* refused.
StatusSet(i, status) ==
  IF media[i] = Gone THEN media ELSE [media EXCEPT ![i].status = status]

\* What xmms_xform_metadata_collect writes at the end of a chain's setup.
MetadataCollected(i, url) ==
  IF media[i] = Gone THEN media
  ELSE [media EXCEPT ![i].info = url, ![i].status = "OK"]

Inserted(url) ==
  [media EXCEPT ![NextId] = [url |-> url, status |-> "NEW", info |-> Nothing]]

Deleted(i) == [media EXCEPT ![i] = Gone]
=============================================================================
