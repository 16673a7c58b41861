----------------------------- MODULE RecentSessions -----------------------------
(***************************************************************************)
(* DiscoverRecent: the sessions shown, found without reading every         *)
(* transcript on disk.  A candidate is a transcript file with its          *)
(* modification time; whether it parses, and the last activity it records, *)
(* are known only after reading it.                                        *)
(***************************************************************************)
EXTENDS SequencesExt

(* The candidates of every runtime, in the order the directories list them. *)
Candidates(claude, codex, antigravity) == claude \o codex \o antigravity

(* sort.SliceStable, the latest first: the p-th is the one that p - 1 precede;
   time holds a time for each of them. *)
Latest(cands, time) ==
  LET before(i) == {j \in DOMAIN cands : time[j] > time[i] \/ (time[j] = time[i] /\ j < i)}
  IN [p \in DOMAIN cands |-> cands[CHOOSE i \in DOMAIN cands : Cardinality(before(i)) = p - 1]]

(* How many sessions are parsed before the precise order is known. *)
Budget(limit, minBudget) == Max({2 * limit, minBudget})

(* Deliberately wrong variant: files that do not parse use up the budget. *)
ParseSome(ranked, budget) ==
  SelectSeq(SubSeq(ranked, 1, Min({budget, Len(ranked)})), LAMBDA c : c.parses)

ParseUpTo(ranked, budget) ==
  FoldLeft(LAMBDA out, c : IF Len(out) >= budget \/ ~c.parses THEN out ELSE Append(out, c),
           << >>, ranked)

DiscoverRecent(cands, limit, minBudget) ==
  LET ranked == Latest(cands, [i \in DOMAIN cands |-> cands[i].mtime])
      parsed == ParseUpTo(ranked, Budget(limit, minBudget))
      shown  == Latest(parsed, [i \in DOMAIN parsed |-> parsed[i].last])
  IN SubSeq(shown, 1, Min({limit, Len(shown)}))

(* What is promised of the sessions shown: as many as asked for if there are so
   many; the latest activity first; and one left out is no more recent than any
   that is shown, or so many have files at least as new that reading stopped
   before it.  Files that do not parse never cost a session its place. *)
LatestAreShown(cands, limit, minBudget) ==
  LET shown    == DiscoverRecent(cands, limit, minBudget)
      good     == {i \in DOMAIN cands : cands[i].parses}
      Newer(i) == {j \in good \ {i} : cands[j].mtime >= cands[i].mtime}
  IN /\ Len(shown) = Min({limit, Cardinality(good)})
     /\ \A p, q \in DOMAIN shown : p < q => shown[p].last >= shown[q].last
     /\ \A i \in good : \/ cands[i] \in Range(shown)
                        \/ \A p \in DOMAIN shown : shown[p].last >= cands[i].last
                        \/ Cardinality(Newer(i)) >= Budget(limit, minBudget)

===============================================================================
