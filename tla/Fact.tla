--------------------------------- MODULE Fact ---------------------------------
(***************************************************************************)
(* The evidence model: what the observations of one fact, and whether the  *)
(* resolver expected it, add up to.  An observation is a record            *)
(*   [key, present, level, complete, session, request]                     *)
(* where key identifies the fact, complete says that its source could have *)
(* proved absence, and request 0 stands for an epoch without a request id. *)
(***************************************************************************)
EXTENDS Integers, Sequences

(* Level; a nil *Level is Nil. *)
Nil      == -1
Observed == 0
Verified == 1

Statuses == {"expected_observed", "expected_verified", "missing_expected",
             "unexpected", "conflict", "coverage_gap", "unknown"}

(* Epoch.Comparable: the same session, and the same request where both know
   theirs. *)
Comparable(o, p) ==
  /\ o.session = p.session
  /\ o.request # 0 /\ p.request # 0 => o.request = p.request

(* The places in the list of the observations of one fact. *)
About(obs, k) == {i \in 1 .. Len(obs) : obs[i].key = k}

Conflict(obs, I) ==
  \E i, j \in I :
    /\ obs[i].complete /\ obs[j].complete
    /\ Comparable(obs[i], obs[j])
    /\ obs[i].present # obs[j].present

PresentIn(obs, I) == {i \in I : obs[i].present}

(* Where a source that could have seen the fact did not see it. *)
ProvedAbsent(obs, I) == {i \in I : ~obs[i].present /\ obs[i].complete}

FirstOf(S) == CHOOSE i \in S : \A j \in S : i <= j

(* Deliberately wrong variant of LevelOf: the first observation's level. *)
LevelOfFirst(obs, S) == IF S = {} THEN Nil ELSE obs[FirstOf(S)].level

(* bestLevel and strongestPresent: the highest level among observations. *)
LevelOf(obs, S) ==
  IF \E i \in S : obs[i].level = Verified THEN Verified
  ELSE IF S # {} THEN Observed ELSE Nil

Verdict(status, level) == [status |-> status, level |-> level]

(* classify, of the observations at I: a conflict outranks presence, presence
   outranks absence. *)
Classify(expected, obs, I) ==
  LET best   == LevelOf(obs, PresentIn(obs, I))
      absent == ProvedAbsent(obs, I) IN
  IF Conflict(obs, I)    THEN Verdict("conflict", LevelOf(obs, I))
  ELSE IF best = Verified THEN Verdict("expected_verified", Verified)
  ELSE IF best = Observed THEN Verdict(IF expected THEN "expected_observed"
                                       ELSE "unexpected", Observed)
  ELSE IF ~expected       THEN Verdict("unknown", Nil)
  ELSE IF absent # {}     THEN Verdict("missing_expected", obs[FirstOf(absent)].level)
  ELSE Verdict("coverage_gap", Nil)

(* Merge: one result for every key that is expected or observed. *)
Merge(expectations, obs) ==
  [k \in expectations \union {obs[i].key : i \in 1 .. Len(obs)} |->
     LET verdict == Classify(k \in expectations, obs, About(obs, k)) IN
     [expected |-> k \in expectations, status |-> verdict.status, level |-> verdict.level]]

===============================================================================
