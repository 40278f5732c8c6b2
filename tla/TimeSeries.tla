------------------------------ MODULE TimeSeries ------------------------------
(***************************************************************************)
(* DataStore.js: time series, retention, and the rules that keep the        *)
(* aggregates of one series in another while samples come in.               *)
(*                                                                         *)
(* `log' is a history: the samples a series has accepted from TS.ADD.  A    *)
(* rule remembers, for the properties only, how many there were before it.  *)
(***************************************************************************)
EXTENDS Lists

CONSTANTS Key,          \* keys
          Source,       \* the keys TS.ADD is called with, unless the circumstances say more
          MaxTimestamp, \* bound: timestamps
          Value,        \* the values of samples
          Retention,    \* the retentions
          Rule,         \* the rules to consider, as [agg, width]
          MaxAdds,      \* bound: samples accepted
          MaxRules,     \* bound: rules of a series
          Surroundings  \* the sets of circumstances to consider

Circumstances == {"replaced",  \* a sample with the timestamp of the last one
                  "shared",    \* a destination with samples or rules of another origin
                  "deleted",   \* DEL of a series
                  "retyped"}   \* SET of a destination

VARIABLES
  around,  \* the circumstances of this behaviour
  kv,      \* the keys that exist
  log,     \* the samples accepted for each key
  reply    \* the last answer

vars == <<around, kv, log, reply>>

Unlimited == -1
Series(samples, retention, rules) ==
  [type |-> "timeseries", samples |-> samples, retention |-> retention, rules |-> rules]
Text == [type |-> "string", samples |-> <<>>, retention |-> Unlimited, rules |-> <<>>]
At(t, v) == [t |-> t, v |-> v]

Aggregators == {"sum", "min", "max"}   \* and avg, the sum over the count

Lesser(a, b)  == IF a < b THEN a ELSE b
Greater(a, b) == IF a > b THEN a ELSE b

Start(t, width) == (t \div width) * width
------------------------------------------------------------------------------
(* What a rule keeps of a bucket *)

\* The least and the greatest mean nothing before the first value: they begin as Infinity
\* and -Infinity.
NoState == [sum |-> 0, count |-> 0, min |-> 0, max |-> 0]

With(st, v) ==
  [sum |-> st.sum + v, count |-> st.count + 1,
   min |-> IF st.count = 0 THEN v ELSE Lesser(st.min, v),
   max |-> IF st.count = 0 THEN v ELSE Greater(st.max, v)]

Out(agg, st) == CASE agg = "sum" -> st.sum [] agg = "min" -> st.min [] agg = "max" -> st.max

\* TS.RANGE with AGGREGATION, from 0 on: the values of each bucket, in the order of their starts.
Gathered(acc, s) == IF Start(s.t, acc.width) = acc.bucket THEN [acc EXCEPT !.state = With(@, s.v)] ELSE acc
Bucket(samples, b, width) ==
  FoldLeft(Gathered, [bucket |-> b, width |-> width, state |-> NoState], samples).state

Starts(samples, width) == {Start(samples[i].t, width) : i \in DOMAIN samples}
Nth(S, n) == CHOOSE b \in S : Cardinality({a \in S : a < b}) = n - 1

Aggregated(samples, agg, width) ==
  LET Row(b) == At(b, Out(agg, Bucket(samples, b, width)))
  IN  [n \in 1 .. Cardinality(Starts(samples, width)) |-> Row(Nth(Starts(samples, width), n))]
------------------------------------------------------------------------------
(* TS.ADD *)

GetOrInit(m, k) == IF k \in DOMAIN m THEN m[k] ELSE Series(<<>>, Unlimited, <<>>)
Put(m, k, e) == [x \in DOMAIN m \cup {k} |-> IF x = k THEN e ELSE m[x]]

\* The last sample is replaced, or a new one comes after it.
Sampled(samples, t, v) ==
  IF samples # <<>> /\ Last(samples).t = t THEN Append(Front(samples), At(t, v)) ELSE Append(samples, At(t, v))

\* What is older than the retention is spliced from the front.
Purged(samples, t, retention) ==
  LET old == {n \in 1 .. Len(samples) : \A i \in 1 .. n : samples[i].t < t - retention}
  IN  IF retention = Unlimited THEN samples ELSE SubSeq(samples, Cardinality(old) + 1, Len(samples))

\* Bug: a rule's state is not by bucket.
GatheringOnce(rule, b, v) ==
  LET st == IF DOMAIN rule.state # {} THEN rule.state[CHOOSE x \in DOMAIN rule.state : TRUE] ELSE NoState
  IN  [rule EXCEPT !.state = Put(@, b, With(st, v))]

Gathering(rule, b, v) ==
  [rule EXCEPT !.state = Put(@, b, With(IF b \in DOMAIN @ THEN @[b] ELSE NoState, v))]

Told(dest, rule, b) == [dest EXCEPT !.samples = Sampled(@, b, Out(rule.agg, rule.state[b]))]

\* A rule's destination is made when it is missing; one of another type has no samples
\* and throws, and the rules after it are not applied.
ApplyRule(acc, i) ==
  LET b    == Start(acc.t, acc.kv[acc.key].rules[i].width)
      rule == Gathering(acc.kv[acc.key].rules[i], b, acc.v)
      m    == [acc.kv EXCEPT ![acc.key].rules[i] = rule]
      dest == GetOrInit(m, rule.dest)
  IN  IF acc.failed THEN acc
      ELSE IF dest.type # "timeseries" THEN [acc EXCEPT !.kv = m, !.failed = TRUE]
      ELSE [acc EXCEPT !.kv = Put(m, rule.dest, Told(dest, rule, b))]

ApplyRules(m, k, t, v) ==
  FoldLeft(ApplyRule, [kv |-> m, failed |-> FALSE, key |-> k, t |-> t, v |-> v],
           [i \in DOMAIN m[k].rules |-> i])

Accepted == FoldFunction(LAMBDA s, n : n + Len(s), 0, log)

Add(k, t, v) ==
  LET entry == GetOrInit(kv, k)
      last  == IF entry.samples = <<>> THEN -1 ELSE Last(entry.samples).t
      done  == ApplyRules(Put(kv, k, [entry EXCEPT !.samples = Purged(Sampled(@, t, v), t, entry.retention)]), k, t, v)
  IN  /\ UNCHANGED around
      /\ k \in Source \/ "shared" \in around
      /\ t = last => "replaced" \in around
      /\ IF entry.type # "timeseries" \/ t < last THEN reply' = "error" /\ UNCHANGED <<kv, log>>
         ELSE /\ Accepted < MaxAdds
              /\ kv' = done.kv
              /\ log' = [log EXCEPT ![k] = Append(@, At(t, v))]
              /\ reply' = IF done.failed THEN "error" ELSE "done"
------------------------------------------------------------------------------
(* TS.CREATE, the rules, and other commands *)

Answer(m) == kv' = m /\ reply' = "done" /\ UNCHANGED <<around, log>>
Refuse    == reply' = "error" /\ UNCHANGED <<around, kv, log>>

\* Without RETENTION it leaves the one there is, and asks nothing of a key of another type.
Create(k, retention) ==
  LET entry == GetOrInit(kv, k)
  IN  IF retention = Unlimited THEN Answer(Put(kv, k, entry))
      ELSE IF entry.type # "timeseries" THEN Refuse
      ELSE Answer(Put(kv, k, [entry EXCEPT !.retention = retention]))

\* Both series are made when they are missing, before a source of another type throws; the
\* type of the destination is not asked.  The same rule twice is one rule.
CreateRule(k, d, agg, width) ==
  LET src  == GetOrInit(kv, k)
      m    == Put(kv, k, src)
      made == Put(m, d, GetOrInit(m, d))
      rule == [dest |-> d, agg |-> agg, width |-> width, state |-> <<>>, since |-> Len(log[k])]
      Same(r) == r.dest = d /\ r.agg = agg /\ r.width = width
      alone == /\ d \notin Source /\ GetOrInit(kv, d).samples = <<>>
               /\ \A x \in DOMAIN kv : \A i \in DOMAIN kv[x].rules : kv[x].rules[i].dest # d
  IN  /\ k \in Source /\ (alone \/ "shared" \in around)
      /\ Len(src.rules) < MaxRules
      /\ IF src.type # "timeseries" THEN kv' = made /\ reply' = "error" /\ UNCHANGED <<around, log>>
         ELSE IF \E i \in DOMAIN src.rules : Same(src.rules[i]) THEN Answer(made)
         ELSE Answer([made EXCEPT ![k].rules = Append(@, rule)])

\* The rules to others are kept.
Kept(acc, r) == IF r.dest = acc.dest THEN acc ELSE [acc EXCEPT !.rules = Append(@, r)]
RulesToOthers(rules, d) == FoldLeft(Kept, [dest |-> d, rules |-> <<>>], rules).rules

DeleteRule(k, d) ==
  IF k \notin DOMAIN kv THEN Answer(kv)
  ELSE IF kv[k].type # "timeseries" THEN Refuse
  ELSE Answer([kv EXCEPT ![k].rules = RulesToOthers(@, d)])

Del(k) ==
  /\ "deleted" \in around /\ k \in DOMAIN kv
  /\ kv' = [x \in DOMAIN kv \ {k} |-> kv[x]] /\ log' = [log EXCEPT ![k] = <<>>]
  /\ reply' = "done" /\ UNCHANGED around

SetText(k) ==
  /\ "retyped" \in around
  /\ kv' = Put(kv, k, Text) /\ log' = [log EXCEPT ![k] = <<>>]
  /\ reply' = "done" /\ UNCHANGED around

Init == around \in Surroundings /\ kv = <<>> /\ log = [k \in Key |-> <<>>] /\ reply = "done"

Next ==
  \E k \in Key :
    \/ \E t \in 0 .. MaxTimestamp, v \in Value : Add(k, t, v)
    \/ \E retention \in Retention \cup {Unlimited} : Create(k, retention)
    \/ \E d \in Key :
         \/ \E r \in Rule : CreateRule(k, d, r.agg, r.width)
         \/ DeleteRule(k, d)
    \/ Del(k) \/ SetText(k)

Spec == Init /\ [][Next]_vars
------------------------------------------------------------------------------
(* Properties *)

\* The types of the variables.
TypeOK ==
  LET Samples == Seq([t : 0 .. MaxTimestamp, v : Int])
  IN  /\ around \in SUBSET Circumstances /\ DOMAIN kv \subseteq Key /\ reply \in {"done", "error"}
      /\ log \in [Key -> Samples]
      /\ \A k \in DOMAIN kv :
           /\ kv[k].type \in {"timeseries", "string"} /\ kv[k].samples \in Samples
           /\ kv[k].retention \in Retention \cup {Unlimited}
           /\ \A i \in DOMAIN kv[k].rules : kv[k].rules[i].dest \in Key /\ kv[k].rules[i].agg \in Aggregators

\* The samples of a series are in the order of their timestamps, one for each: TS.GET and
\* the check of the next TS.ADD read the last.  A rule that writes where others write too
\* puts a bucket's start after later samples.
SamplesInOrder ==
  "shared" \notin around =>
    \A k \in DOMAIN kv : \A i \in 2 .. Len(kv[k].samples) : kv[k].samples[i - 1].t < kv[k].samples[i].t

\* A series that only TS.ADD writes holds what it accepted, but for what was replaced and
\* what a retention has taken: that was older than it when a sample came, and is so still.
KeepsTheWindow ==
  around \cap {"shared", "deleted", "retyped"} = {} =>
    \A k \in DOMAIN kv \cap Source :
      LET newest == {i \in DOMAIN log[k] : \A j \in DOMAIN log[k] : j > i => log[k][j].t # log[k][i].t}
          Taken(s) == kv[k].retention # Unlimited /\ \E r \in Retention : s.t < Last(log[k]).t - r
      IN  /\ Range(kv[k].samples) \subseteq {log[k][i] : i \in newest}
          /\ \A i \in newest : log[k][i] \in Range(kv[k].samples) \/ Taken(log[k][i])

\* What a rule has put into its destination is what TS.RANGE computes from the samples
\* that came since the rule, bucket by bucket.  A replaced sample counts twice in a rule,
\* and a destination that is deleted begins again.
RulesAgreeWithRange ==
  around = {} =>
    \A k \in DOMAIN kv : \A i \in DOMAIN kv[k].rules :
      LET rule == kv[k].rules[i]
      IN  kv[rule.dest].samples = Aggregated(SubSeq(log[k], rule.since + 1, Len(log[k])), rule.agg, rule.width)

\* A TS.ADD that is answered an error has stored nothing.  A destination that has become
\* a string fails after the sample is stored.
ErrorChangesNothing == reply' = "error" /\ "retyped" \notin around => kv' = kv
ErrorsChangeNothing == [][ErrorChangesNothing]_vars
==============================================================================
