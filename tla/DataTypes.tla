------------------------------ MODULE DataTypes ------------------------------
(***************************************************************************)
(* The data types of DataStore.js side by side.  A key holds a value of one *)
(* type, and a command looks at one type only and refuses the others, so a  *)
(* behaviour here is of one family of commands; the variables are those of  *)
(* its module, and the others do not matter.                                *)
(***************************************************************************)
EXTENDS Integers, Sequences, FiniteSets

CONSTANTS
  Key,                                              \* of Containers, Ranges and Streams
  Member, Number, MaxArgs, ContainerSurroundings,   \* Containers
  SeriesKey, Source, MaxTimestamp, Value, Retention, Rule, MaxSamples, MaxRules, SeriesSurroundings,
  Item, Fingerprint(_), Hash(_), HashOf(_), IndexBits, BucketSize, MaxIterations, MaxCopies, Careless,
  Doc, Prefixes, Term, Price, NoNumber, Document, Includes(_, _),
  Element, Exact, Widest, Amounts, MaxLen, RangeSurroundings,
  Group, Consumer, Explicit, Counts, MaxTime, MaxAdded        \* Streams

\* Commands name finitely many members.
ASSUME ContainersAssumption == MaxArgs \in Nat

ASSUME StreamsAssumption ==
  /\ Explicit \subseteq Nat /\ Counts \subseteq Nat \ {0}
  /\ MaxTime \in Nat /\ MaxAdded \in Nat

\* Timestamps are bounded, values are integers, and a bucket has a width.
ASSUME SeriesAssumption ==
  /\ Source \subseteq SeriesKey /\ MaxTimestamp \in Nat /\ Value \subseteq Int /\ Retention \subseteq Nat
  /\ Rule \subseteq [agg : {"sum", "min", "max"}, width : Nat \ {0}]
  /\ SeriesSurroundings \subseteq SUBSET {"replaced", "shared", "deleted", "retyped"}

\* A filter has finitely many buckets, and is given finitely many items.
ASSUME FiltersAssumption ==
  /\ IsFiniteSet(Item) /\ IsFiniteSet(IndexBits)
  /\ BucketSize \in Nat /\ MaxIterations \in Nat /\ MaxCopies \in Nat
  /\ Careless \subseteq BOOLEAN

\* Numbers are of 64 bits, and the lists are of finitely many keys.
ASSUME RangesAssumption ==
  /\ IsFiniteSet(Key) /\ Exact \in Nat /\ Widest \in Nat /\ MaxLen \in Nat
  /\ Amounts \subseteq -(2 ^ Widest) .. 2 ^ Widest
  /\ RangeSurroundings \subseteq SUBSET {"misplaced"}

\* A document's fields are terms and a number or none; there are finitely many documents.
ASSUME DocumentsAssumption ==
  /\ IsFiniteSet(Doc) /\ Prefixes \subseteq SUBSET Doc /\ Price \subseteq Int /\ NoNumber \notin Int
  /\ Document \subseteq [json : BOOLEAN, terms : SUBSET Term, price : Price \cup {NoNumber}]

VARIABLES family,                         \* of commands
          around, kv, reply,              \* Containers, TimeSeries, Ranges
          scan,                           \* Containers
          log,                            \* TimeSeries
          tally,                          \* Ranges
          careless, buckets, present, refused,           \* Cuckoo
          text, numeric, docs, indexed, exists, prefixed,  \* Documents
          now, streams, added             \* Streams

storeVars    == <<around, kv, reply>>
cuckooVars   == <<careless, buckets, present, refused>>
documentVars == <<text, numeric, docs, indexed, exists, prefixed>>
streamVars   == <<now, streams, added>>

vars == <<family, storeVars, scan, log, tally, cuckooVars, documentVars, streamVars>>

Cn == INSTANCE Containers WITH Surroundings <- ContainerSurroundings
Ts == INSTANCE TimeSeries WITH Key <- SeriesKey, MaxAdds <- MaxSamples, Surroundings <- SeriesSurroundings
Rg == INSTANCE Ranges WITH Surroundings <- RangeSurroundings
Cf == INSTANCE Cuckoo
Dc == INSTANCE Documents WITH Key <- Doc
St == INSTANCE Streams

\* The variables of a family the behaviour is not of.
Unused(v) == v = "unused"
NoStore     == Unused(around) /\ Unused(kv) /\ Unused(reply)
NoFilter    == Unused(careless) /\ Unused(buckets) /\ Unused(present) /\ Unused(refused)
NoDocuments == /\ Unused(text) /\ Unused(numeric) /\ Unused(docs)
               /\ Unused(indexed) /\ Unused(exists) /\ Unused(prefixed)
NoStreams   == Unused(now) /\ Unused(streams) /\ Unused(added)

\* Values in the store come first, the types with variables of their own after them.
Init ==
  \/ /\ NoFilter /\ NoDocuments /\ NoStreams
     /\ \/ family = "containers" /\ Cn!Init /\ Unused(log) /\ Unused(tally)
        \/ family = "series" /\ Ts!Init /\ Unused(scan) /\ Unused(tally)
        \/ family = "ranges" /\ Rg!Init /\ Unused(scan) /\ Unused(log)
  \/ /\ Unused(scan) /\ Unused(log) /\ Unused(tally)
     /\ \/ family = "cuckoo" /\ Cf!Init /\ NoStore /\ NoDocuments /\ NoStreams
        \/ family = "documents" /\ Dc!Init /\ Unused(around) /\ Unused(reply) /\ NoFilter /\ NoStreams
        \/ family = "streams" /\ St!Init /\ NoStore /\ NoFilter /\ NoDocuments

Next ==
  /\ UNCHANGED family
  /\ \/ /\ \/ family = "containers" /\ Cn!Next /\ UNCHANGED <<log, tally>>
           \/ family = "series" /\ Ts!Next /\ UNCHANGED <<scan, tally>>
           \/ family = "ranges" /\ Rg!Next /\ UNCHANGED <<scan, log>>
        /\ UNCHANGED <<cuckooVars, documentVars, streamVars>>
     \/ /\ \/ family = "cuckoo" /\ Cf!Next /\ UNCHANGED <<storeVars, documentVars, streamVars>>
           \/ family = "documents" /\ Dc!Next /\ UNCHANGED <<around, reply, cuckooVars, streamVars>>
           \/ family = "streams" /\ St!Next /\ UNCHANGED <<storeVars, cuckooVars, documentVars>>
        /\ UNCHANGED <<scan, log, tally>>

Spec == Init /\ [][Next]_vars
------------------------------------------------------------------------------
(* Properties: those of the modules, in words there *)

\* Hashes, sets and sorted sets: the value of an entry is of the shape its type says, the
\* array of a sorted set holds what its Map holds, in order; ranges leave out nothing, a
\* snapshot and a restart change nothing, and scans return what stays.
ContainersAgree ==
  family = "containers" =>
    /\ Cn!TypeOK /\ Cn!ShapesMatchTypes /\ Cn!SortedSetsAreIndexed
    /\ Cn!RangesAreComplete /\ Cn!SnapshotKeepsEntries /\ Cn!ScanReturnsWhatStays

\* Time series: samples are in the order of their timestamps, a series holds what TS.ADD
\* accepted within its retention, and what a rule put into its destination is what TS.RANGE
\* computes from the samples.
SeriesAgree ==
  family = "series" =>
    Ts!TypeOK /\ Ts!SamplesInOrder /\ Ts!KeepsTheWindow /\ Ts!RulesAgreeWithRange

\* Cuckoo filters: what was added is found whatever was moved since, a deletion takes its
\* own fingerprint or one as good, and a refused addition loses exactly one.
FiltersFindWhatIsThere ==
  family = "cuckoo" =>
    Cf!TypeOK /\ Cf!WhatIsAddedIsFound /\ Cf!DeletionsTakeTheirOwn /\ Cf!RefusalsLoseOne

\* Document indexes: an index holds of each document what it was when it was last indexed,
\* and DOC.SEARCH finds exactly the indexed documents that match.
DocumentIndexAgrees ==
  family = "documents" => Dc!TypeOK /\ Dc!IndexIsWhatWasIndexed /\ Dc!SearchIsExact

\* Counters, lists and ranges: a counter is the sum of what it was set to and of every amount
\* accepted since; LTRIM and LINDEX mean the elements LRANGE returns, LREM takes those it
\* counts, and GETRANGE returns what SETRANGE has written.
RangesAgree ==
  family = "ranges" =>
    Rg!TypeOK /\ Rg!CountersAddUp /\ Rg!RangesAgree /\ Rg!RemovalsCount /\ Rg!WrittenIsRead

\* Streams: the list of a group and the maps of its consumers tell the same story, through
\* any sequence of reads, claims and acknowledgements.
PendingMatchesConsumers ==
  family = "streams" => St!TypeOK /\ St!PendingMatchesConsumers

\* Streams: a group reads every entry once, in order, but for those that came late.
GroupsReadEachEntryOnce ==
  family = "streams" => St!GroupsReadEachEntryOnce

\* A command that is answered an error has touched one key at most, in every circumstance:
\* SMOVE and LMOVE have lost the one member or element they took for a destination of
\* another type, SUNIONSTORE has made an empty set, ZADD has added the pairs before the bad
\* one.  An LMOVE that succeeds keeps the elements of all lists together.  A TS.ADD that
\* fails has stored nothing, unless it is a rule's destination that is no series.
FailuresTouchOneKey ==
  [][/\ family = "containers" => Cn!FailureTouchesOneKey
     /\ family = "ranges" => Rg!FailureTouchesOneKey /\ Rg!MoveKeepsElements
     /\ family = "series" => Ts!ErrorChangesNothing]_vars
==============================================================================
