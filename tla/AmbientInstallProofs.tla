-------------------------- MODULE AmbientInstallProofs --------------------------
(***************************************************************************)
(* Proofs about AmbientInstall for every set of user lines and every       *)
(* number of commands and faults: type correctness, with the bound on the  *)
(* CAs that are ever created; that an uninstall which reports success has  *)
(* removed what every earlier command, failure and restart left; that the  *)
(* user's lines outlive all of them; that repeated installs settle and     *)
(* that an uninstall gives back the profile that was there.                *)
(***************************************************************************)
EXTENDS AmbientInstall, WellFoundedInduction, NaturalsInduction, TLAPS

Tokens == Lines \cup {"begin", "env", "end", "nl"}

(***************************************************************************)
(* The invariant.                                                          *)
(***************************************************************************)

(* TypeOK in two parts: the texts, and the rest. *)
TextType == profile \in Seq(Tokens) /\ draft \in Seq(Tokens) /\ lines \in Seq(Lines)

CaseTypes ==
  /\ command \in Commands \cup {"none"} /\ at \in 0 .. 9
  /\ outcome \in Commands \cup {"none", "failed", "issues", "killed"}
  /\ daemon \in {"down", "starting", "up"} /\ (daemon # "down" => job)

FlagTypes ==
  /\ env \subseteq EnvVars
  /\ plist \in BOOLEAN /\ job \in BOOLEAN /\ marker \in BOOLEAN
  /\ issues \in BOOLEAN /\ lost \in BOOLEAN /\ slipped \in BOOLEAN

CountTypes ==
  /\ minted \in 0 .. started /\ ca \in 0 .. minted /\ keychain \subseteq 1 .. minted
  /\ started \in 0 .. MaxCommands /\ faults \in 0 .. MaxFaults

PlainType == CaseTypes /\ FlagTypes /\ CountTypes

(* Where a command is. *)
PlaceInv ==
  /\ command = "none" => at = 0
  /\ command = "install" => at \in 1 .. 6
  /\ command = "uninstall" => at \in 1 .. 9
  /\ command \in {"trust", "untrust"} => at = 1

(* A CA is created only when a command is there to answer for it: one that
   installs, or one that has removed the previous CA.  An uninstall that has not
   yet come to the state directory will answer for one more. *)
MintInv ==
  /\ job \/ plist => started > 0
  /\ command # "none" => started > 0
  /\ ca = 0 /\ started > 0 => minted < started
  /\ command = "uninstall" /\ at <= 8 =>
       /\ minted < started
       /\ ca = 0 /\ (job \/ plist) => minted + 1 < started

(* However often a rewrite is cut short, an end marker follows a begin marker,
   and nothing managed follows it. *)
Tidy(text) ==
  \A i \in 1 .. Len(text) : text[i] = "end" =>
    /\ \E j \in 1 .. i - 1 : text[j] = "begin"
    /\ \A k \in i + 1 .. Len(text) : text[k] \notin {"begin", "end"}

NoEnd(text) == \A i \in 1 .. Len(text) : text[i] # "end"

ProfileInv ==
  /\ Tidy(profile) /\ Tidy(draft)
  /\ command = "uninstall" /\ at \in {3, 4} => NoEnd(draft)

(* What an uninstall without a hidden failure has done so far. *)
ProgressInv ==
  command = "uninstall" /\ ~slipped /\ ~issues =>
    /\ at >= 2 => keychain = {}
    /\ at >= 5 => NoEnd(profile)
    /\ at >= 6 => env = {}
    /\ at >= 7 => ~job /\ daemon = "down"
    /\ at >= 8 => ~plist
    /\ at >= 9 => ca = 0

DoneInv ==
  outcome = "uninstall" =>
    /\ command = "none"
    /\ ~slipped =>
         /\ NoEnd(profile) /\ env = {} /\ ~plist /\ ~job /\ daemon = "down"
         /\ ca = 0 /\ keychain = {} /\ ~marker

IInv == TextType /\ PlainType /\ PlaceInv /\ MintInv /\ ProfileInv /\ ProgressInv /\ DoneInv

-------------------------------------------------------------------------------
(* The first and the last of a set of places. *)

LEMMA LeastOf ==
  ASSUME NEW S, S \subseteq Nat, S # {}
  PROVE  Least(S) \in S /\ \A j \in S : Least(S) <= j
<1>1. PICK i \in S : \A j \in S : <<j, i>> \notin OpToRel(<, Nat)
  BY NatLessThanWellFounded, WFMin
<1>2. \A j \in S : ~(j < i)
  BY <1>1 DEF OpToRel
<1>3. \A j \in S : i <= j
  BY <1>2
<1>4. \E k \in S : \A j \in S : k <= j
  BY <1>3
<1> QED
  BY <1>4 DEF Least

LEMMA GreatestOf ==
  ASSUME NEW n \in Nat, NEW S, S \subseteq 1 .. n, S # {}
  PROVE  \E i \in S : \A j \in S : j <= i
<1> DEFINE D == {n - i : i \in S}
<1>0. \A i \in S : n - i \in Nat
  OBVIOUS
<1>1. D \subseteq Nat /\ D # {}
  BY <1>0, Zenon
<1>2. Least(D) \in D /\ \A d \in D : Least(D) <= d
  <2> HIDE DEF D
  <2> QED
    BY <1>1, LeastOf
<1>3. PICK i \in S : Least(D) = n - i
  BY <1>2
<1>4. \A j \in S : n - i <= n - j
  BY <1>2, <1>3
<1> QED
  BY <1>4

-------------------------------------------------------------------------------
(* Texts. *)

LEMMA Slice ==
  ASSUME NEW T, NEW s \in Seq(T), NEW m \in 1 .. Len(s) + 1, NEW n \in m - 1 .. Len(s)
  PROVE  /\ SubSeq(s, m, n) \in Seq(T)
         /\ Len(SubSeq(s, m, n)) = n - m + 1
         /\ \A i \in 1 .. n - m + 1 : SubSeq(s, m, n)[i] = s[m + i - 1]
  OBVIOUS

LEMMA Joined ==
  ASSUME NEW T, NEW s \in Seq(T), NEW t \in Seq(T)
  PROVE  /\ s \o t \in Seq(T)
         /\ Len(s \o t) = Len(s) + Len(t)
         /\ \A i \in 1 .. Len(s) : (s \o t)[i] = s[i]
         /\ \A i \in 1 .. Len(t) : (s \o t)[Len(s) + i] = t[i]
  OBVIOUS

LEMMA Fixed ==
  /\ NL \in Seq(Tokens) /\ Block \in Seq(Tokens) /\ << >> \in Seq(Tokens)
  /\ Len(NL) = 1 /\ Len(Block) = 6 /\ Len(<< >>) = 0
  /\ NL[1] = "nl"
  /\ Block[1] = "begin" /\ Block[2] = "nl" /\ Block[3] = "env"
  /\ Block[4] = "nl" /\ Block[5] = "end" /\ Block[6] = "nl"
  BY DEF NL, Block, Tokens

LEMMA NoEndJoined ==
  ASSUME NEW s \in Seq(Tokens), NEW t \in Seq(Tokens), NoEnd(s), NoEnd(t)
  PROVE  NoEnd(s \o t)
<1>1. ASSUME NEW i \in 1 .. Len(s) + Len(t) PROVE (s \o t)[i] # "end"
  <2>1. CASE i <= Len(s)
    BY <2>1, Joined DEF NoEnd
  <2>2. CASE i > Len(s)
    <3>1. i - Len(s) \in 1 .. Len(t) /\ i = Len(s) + (i - Len(s))
      BY <2>2
    <3> QED
      BY <3>1, Joined DEF NoEnd
  <2> QED
    BY <2>1, <2>2
<1> QED
  BY <1>1, Joined DEF NoEnd

LEMMA NoEndSlice ==
  ASSUME NEW s \in Seq(Tokens), NEW m \in 1 .. Len(s) + 1, NEW n \in m - 1 .. Len(s),
         \A i \in m .. n : s[i] # "end"
  PROVE  NoEnd(SubSeq(s, m, n))
  BY Slice DEF NoEnd

LEMMA NoEndIsTidy == ASSUME NEW s, NoEnd(s) PROVE Tidy(s) /\ ~Fenced(s)
  BY DEF NoEnd, Tidy, Fenced, Places

LEMMA FixedNoEnd == NoEnd(NL) /\ NoEnd(<< >>)
  BY Fixed DEF NoEnd

(* Trimming keeps a slice. *)
LEMMA TrimmedRight ==
  ASSUME NEW s \in Seq(Tokens), NoEnd(s)
  PROVE  TrimRight(s) \in Seq(Tokens) /\ NoEnd(TrimRight(s))
<1> DEFINE n == IF Words(s) = {} THEN 0
                ELSE CHOOSE i \in Words(s) : \A j \in Words(s) : j <= i
<1>1. n \in 0 .. Len(s)
  <2>1. CASE Words(s) = {}
    BY <2>1
  <2>2. CASE Words(s) # {}
    <3>0. Words(s) \subseteq 1 .. Len(s) /\ Len(s) \in Nat
      BY DEF Words
    <3>1. \E i \in Words(s) : \A j \in Words(s) : j <= i
      BY <2>2, <3>0, GreatestOf
    <3>2. n \in Words(s)
      BY <2>2, <3>1
    <3> QED
      BY <3>2 DEF Words
  <2> QED
    BY <2>1, <2>2
<1>2. TrimRight(s) = SubSeq(s, 1, n)
  BY DEF TrimRight
<1> HIDE DEF n
<1>3. \A i \in 1 .. n : s[i] # "end"
  BY <1>1 DEF NoEnd
<1> QED
  BY <1>1, <1>2, <1>3, Slice, NoEndSlice

LEMMA TrimmedLeft ==
  ASSUME NEW s \in Seq(Tokens), NoEnd(s)
  PROVE  TrimLeft(s) \in Seq(Tokens) /\ NoEnd(TrimLeft(s))
<1> DEFINE m == IF Words(s) = {} THEN Len(s) + 1 ELSE Least(Words(s))
<1>1. m \in 1 .. Len(s) + 1
  <2>1. CASE Words(s) = {}
    BY <2>1
  <2>2. CASE Words(s) # {}
    <3>1. Words(s) \subseteq Nat
      BY DEF Words
    <3>2. Least(Words(s)) \in Words(s)
      BY <2>2, <3>1, LeastOf
    <3> QED
      BY <2>2, <3>2 DEF Words
  <2> QED
    BY <2>1, <2>2
<1>2. TrimLeft(s) = SubSeq(s, m, Len(s))
  BY DEF TrimLeft
<1> HIDE DEF m
<1>3. \A i \in m .. Len(s) : s[i] # "end"
  BY <1>1 DEF NoEnd
<1>4. Len(s) \in m - 1 .. Len(s)
  BY <1>1
<1>5. SubSeq(s, m, Len(s)) \in Seq(Tokens)
  BY <1>1, <1>4, Slice
<1>6. NoEnd(SubSeq(s, m, Len(s)))
  BY <1>1, <1>3, <1>4, NoEndSlice
<1> QED
  BY <1>2, <1>5, <1>6

(* What is before the first begin, and after the first end, of a tidy text. *)
LEMMA Around ==
  ASSUME NEW s \in Seq(Tokens), Tidy(s), Fenced(s)
  PROVE  /\ Before(s) \in Seq(Tokens) /\ NoEnd(Before(s))
         /\ After(s) \in Seq(Tokens) /\ NoEnd(After(s))
<1> DEFINE B == Places(s, "begin")
<1> DEFINE E == Places(s, "end")
<1> DEFINE b == Least(B)
<1> DEFINE e == Least(E)
<1>1. /\ B \subseteq Nat /\ B # {} /\ E \subseteq Nat /\ E # {} /\ b < e
  BY DEF Fenced, Places
<1>2. b \in B /\ e \in E /\ \A i \in E : e <= i
  <2> HIDE DEF B, E
  <2> QED
    BY <1>1, LeastOf
<1>3. b \in 1 .. Len(s) /\ e \in 1 .. Len(s) /\ s[e] = "end"
  BY <1>2 DEF Places
<1>4. \A i \in 1 .. b - 1 : s[i] # "end"
  <2> SUFFICES ASSUME NEW i \in 1 .. b - 1, s[i] = "end" PROVE FALSE
    OBVIOUS
  <2>1. i \in 1 .. Len(s) /\ i < e
    BY <1>1, <1>3
  <2>2. i \in E
    BY <2>1 DEF Places
  <2> QED
    BY <1>2, <1>3, <2>1, <2>2
<1>5. \A i \in e + 1 .. Len(s) : s[i] # "end"
  BY <1>3 DEF Tidy
<1>6. Before(s) = TrimRight(SubSeq(s, 1, b - 1)) /\ After(s) = TrimLeft(SubSeq(s, e + 1, Len(s)))
  BY DEF Before, After
<1> HIDE DEF b, e
<1>7. /\ SubSeq(s, 1, b - 1) \in Seq(Tokens) /\ NoEnd(SubSeq(s, 1, b - 1))
  BY <1>3, <1>4, Slice, NoEndSlice
<1>8. /\ SubSeq(s, e + 1, Len(s)) \in Seq(Tokens) /\ NoEnd(SubSeq(s, e + 1, Len(s)))
  BY <1>3, <1>5, Slice, NoEndSlice
<1> QED
  BY <1>6, <1>7, <1>8, TrimmedLeft, TrimmedRight

(* A tidy text without a complete block has no end marker at all. *)
LEMMA TidyUnfenced ==
  ASSUME NEW s \in Seq(Tokens), Tidy(s), ~Fenced(s)
  PROVE  NoEnd(s)
<1> DEFINE B == Places(s, "begin")
<1> DEFINE E == Places(s, "end")
<1> SUFFICES ASSUME NEW i \in 1 .. Len(s), s[i] = "end" PROVE FALSE
  BY DEF NoEnd
<1>1. PICK j \in 1 .. i - 1 : s[j] = "begin"
  BY DEF Tidy
<1>2. i \in E /\ j \in B /\ E \subseteq Nat /\ B \subseteq Nat
  BY <1>1 DEF Places
<1>3. Least(B) \in B /\ Least(B) <= j /\ Least(E) \in E
  <2> HIDE DEF B, E
  <2> QED
    BY <1>2, LeastOf
<1>4. s[Least(E)] = "end" /\ Least(E) \in 1 .. Len(s)
  BY <1>3 DEF Places
<1>5. Least(E) = i
  <2>1. ~(i < Least(E))
    BY <1>2, <1>4, LeastOf
  <2>2. ~(Least(E) < i)
    <3> SUFFICES ASSUME Least(E) < i PROVE FALSE
      OBVIOUS
    <3>1. i \in Least(E) + 1 .. Len(s)
      BY <1>4
    <3> QED
      BY <1>4, <3>1 DEF Tidy
  <2> QED
    BY <1>4, <2>1, <2>2
<1>6. Least(B) < Least(E)
  BY <1>1, <1>2, <1>3, <1>5
<1> QED
  BY <1>2, <1>6 DEF Fenced

(* stripBlock leaves no end marker, whatever earlier rewrites have left. *)
LEMMA Stripped ==
  ASSUME NEW s \in Seq(Tokens), Tidy(s)
  PROVE  StripBlock(s) \in Seq(Tokens) /\ NoEnd(StripBlock(s))
<1>1. CASE ~Fenced(s)
  BY <1>1, TidyUnfenced DEF StripBlock
<1>2. CASE Fenced(s)
  <2> DEFINE gap == IF Before(s) # << >> /\ After(s) # << >> THEN NL ELSE << >>
  <2>1. /\ Before(s) \in Seq(Tokens) /\ NoEnd(Before(s))
        /\ After(s) \in Seq(Tokens) /\ NoEnd(After(s))
    BY <1>2, Around
  <2>2. gap \in Seq(Tokens) /\ NoEnd(gap)
    BY Fixed, FixedNoEnd
  <2>3. StripBlock(s) = << >> \/ StripBlock(s) = Before(s) \o gap \o After(s) \o NL
    BY <1>2 DEF StripBlock
  <2> HIDE DEF gap
  <2>4. Before(s) \o gap \in Seq(Tokens) /\ NoEnd(Before(s) \o gap)
    BY <2>1, <2>2, Joined, NoEndJoined
  <2>5. Before(s) \o gap \o After(s) \in Seq(Tokens) /\ NoEnd(Before(s) \o gap \o After(s))
    BY <2>1, <2>4, Joined, NoEndJoined
  <2>6. /\ Before(s) \o gap \o After(s) \o NL \in Seq(Tokens)
        /\ NoEnd(Before(s) \o gap \o After(s) \o NL)
    BY <2>5, Fixed, FixedNoEnd, Joined, NoEndJoined
  <2> QED
    BY <2>3, <2>6, Fixed, FixedNoEnd
<1> QED
  BY <1>1, <1>2

LEMMA LineEnded ==
  ASSUME NEW s \in Seq(Tokens)
  PROVE  /\ EndsLine(s) \in Seq(Tokens)
         /\ NoEnd(s) => NoEnd(EndsLine(s))
  BY Fixed, FixedNoEnd, Joined, NoEndJoined DEF EndsLine

(* A block after a text without markers that matter, and lines around a tidy one. *)
LEMMA TidyBlock ==
  ASSUME NEW s \in Seq(Tokens), NoEnd(s)
  PROVE  s \o Block \in Seq(Tokens) /\ Tidy(s \o Block)
<1> DEFINE t == s \o Block
<1>1. /\ t \in Seq(Tokens) /\ Len(t) = Len(s) + 6
      /\ \A i \in 1 .. Len(s) : t[i] = s[i]
      /\ \A i \in 1 .. 6 : t[Len(s) + i] = Block[i]
  <2>1. Block \in Seq(Tokens) /\ Len(Block) = 6
    BY Fixed
  <2>2. \A b \in Seq(Tokens) :
          /\ s \o b \in Seq(Tokens)
          /\ Len(s \o b) = Len(s) + Len(b)
          /\ \A i \in 1 .. Len(s) : (s \o b)[i] = s[i]
          /\ \A i \in 1 .. Len(b) : (s \o b)[Len(s) + i] = b[i]
    BY Joined
  <2> QED
    BY <2>1, <2>2
<1> HIDE DEF t
<1>2. /\ t[Len(s) + 1] = "begin" /\ t[Len(s) + 2] = "nl" /\ t[Len(s) + 3] = "env"
      /\ t[Len(s) + 4] = "nl" /\ t[Len(s) + 5] = "end" /\ t[Len(s) + 6] = "nl"
  BY <1>1, Fixed
<1>3. Len(s) \in Nat
  OBVIOUS
<1>4. Tidy(t)
  <2> SUFFICES ASSUME NEW i \in 1 .. Len(t), t[i] = "end"
               PROVE  /\ \E j \in 1 .. i - 1 : t[j] = "begin"
                      /\ \A k \in i + 1 .. Len(t) : t[k] \notin {"begin", "end"}
    BY DEF Tidy
  <2>1. i > Len(s)
    BY <1>1, <1>3 DEF NoEnd
  <2>2. i = Len(s) + 5
    <3>1. i \in {Len(s) + 1, Len(s) + 2, Len(s) + 3, Len(s) + 4, Len(s) + 5, Len(s) + 6}
      BY <1>1, <1>3, <2>1
    <3> QED
      BY <1>2, <3>1
  <2>3. Len(s) + 1 \in 1 .. i - 1
    BY <1>3, <2>2
  <2>4. \A k \in i + 1 .. Len(t) : k = Len(s) + 6
    BY <1>1, <1>3, <2>2
  <2> QED
    BY <1>2, <2>3, <2>4
<1> QED
  BY <1>1, <1>4 DEF t

LEMMA TidyLines ==
  ASSUME NEW s \in Seq(Tokens), NEW t \in Seq(Tokens), Tidy(t),
         \A i \in 1 .. Len(s) : s[i] \notin {"begin", "end"}
  PROVE  Tidy(s \o t) /\ (NoEnd(t) => NoEnd(s \o t))
<1>1. /\ Len(s \o t) = Len(s) + Len(t) /\ Len(s) \in Nat /\ Len(t) \in Nat
      /\ \A i \in 1 .. Len(s) : (s \o t)[i] = s[i]
      /\ \A i \in 1 .. Len(t) : (s \o t)[Len(s) + i] = t[i]
  BY Joined
<1> DEFINE u == s \o t
<1> HIDE DEF u
<1>2. ASSUME NEW i \in 1 .. Len(u), u[i] = "end"
      PROVE  /\ \E j \in 1 .. i - 1 : u[j] = "begin"
             /\ \A k \in i + 1 .. Len(u) : u[k] \notin {"begin", "end"}
  <2>1. i > Len(s)
    BY <1>1, <1>2 DEF u
  <2>2. PICK n \in 1 .. Len(t) : i = Len(s) + n
    <3>1. i - Len(s) \in 1 .. Len(t) /\ i = Len(s) + (i - Len(s))
      BY <1>1, <2>1 DEF u
    <3> QED
      BY <3>1
  <2>3. t[n] = "end"
    BY <1>1, <1>2, <2>2 DEF u
  <2>4. PICK j \in 1 .. n - 1 : t[j] = "begin"
    BY <2>3 DEF Tidy
  <2>5. Len(s) + j \in 1 .. i - 1 /\ u[Len(s) + j] = "begin"
    BY <1>1, <2>2, <2>4 DEF u
  <2>6. ASSUME NEW k \in i + 1 .. Len(u) PROVE u[k] \notin {"begin", "end"}
    <3>1. k - Len(s) \in n + 1 .. Len(t) /\ k = Len(s) + (k - Len(s))
      BY <1>1, <2>2 DEF u
    <3>2. k - Len(s) \in 1 .. Len(t)
      BY <3>1
    <3>3. t[k - Len(s)] \notin {"begin", "end"}
      BY <2>3, <3>1 DEF Tidy
    <3>4. u[Len(s) + (k - Len(s))] = t[k - Len(s)]
      BY <1>1, <3>2 DEF u
    <3> QED
      BY <3>1, <3>3, <3>4
  <2> QED
    BY <2>5, <2>6
<1>3. Tidy(u)
  BY <1>2 DEF Tidy
<1>4. NoEnd(s)
  BY DEF NoEnd
<1> QED
  BY <1>3, <1>4, NoEndJoined DEF u

LEMMA TidyMoreLines ==
  ASSUME NEW s \in Seq(Tokens), NEW t \in Seq(Tokens), Tidy(s),
         \A i \in 1 .. Len(t) : t[i] \notin {"begin", "end"}
  PROVE  Tidy(s \o t) /\ (NoEnd(s) => NoEnd(s \o t))
<1>1. /\ Len(s \o t) = Len(s) + Len(t) /\ Len(s) \in Nat /\ Len(t) \in Nat
      /\ \A i \in 1 .. Len(s) : (s \o t)[i] = s[i]
      /\ \A i \in 1 .. Len(t) : (s \o t)[Len(s) + i] = t[i]
  BY Joined
<1> DEFINE u == s \o t
<1> HIDE DEF u
<1>2. ASSUME NEW k \in Len(s) + 1 .. Len(u) PROVE u[k] \notin {"begin", "end"}
  <2>1. k - Len(s) \in 1 .. Len(t) /\ k = Len(s) + (k - Len(s))
    BY <1>1 DEF u
  <2>2. u[Len(s) + (k - Len(s))] = t[k - Len(s)]
    BY <1>1, <2>1 DEF u
  <2> QED
    BY <2>1, <2>2
<1>3. ASSUME NEW i \in 1 .. Len(u), u[i] = "end"
      PROVE  /\ \E j \in 1 .. i - 1 : u[j] = "begin"
             /\ \A k \in i + 1 .. Len(u) : u[k] \notin {"begin", "end"}
  <2>1. i \in 1 .. Len(s)
    BY <1>1, <1>2, <1>3 DEF u
  <2>2. s[i] = "end"
    BY <1>1, <1>3, <2>1 DEF u
  <2>3. PICK j \in 1 .. i - 1 : s[j] = "begin"
    BY <2>1, <2>2 DEF Tidy
  <2>4. u[j] = "begin"
    BY <1>1, <2>1, <2>3 DEF u
  <2>5. ASSUME NEW k \in i + 1 .. Len(u) PROVE u[k] \notin {"begin", "end"}
    <3>1. CASE k <= Len(s)
      <4>1. k \in i + 1 .. Len(s) /\ k \in 1 .. Len(s)
        BY <1>1, <2>1, <3>1
      <4> QED
        BY <1>1, <2>1, <2>2, <4>1 DEF Tidy, u
    <3>2. CASE k > Len(s)
      BY <1>1, <1>2, <3>2
    <3> QED
      BY <1>1, <3>1, <3>2
  <2> QED
    BY <2>3, <2>4, <2>5
<1>4. Tidy(u)
  BY <1>3 DEF Tidy
<1>5. NoEnd(t)
  BY DEF NoEnd
<1> QED
  BY <1>4, <1>5, NoEndJoined DEF u

LEMMA TidyEnded ==
  ASSUME NEW s \in Seq(Tokens), Tidy(s)
  PROVE  /\ EndsLine(s) \in Seq(Tokens) /\ Tidy(EndsLine(s))
         /\ NoEnd(s) => NoEnd(EndsLine(s))
<1>1. \A i \in 1 .. Len(NL) : NL[i] \notin {"begin", "end"}
  BY Fixed
<1>2. Tidy(s \o NL)
  BY <1>1, Fixed, TidyMoreLines
<1> QED
  BY <1>2, LineEnded DEF EndsLine

LEMMA TidyPrefix ==
  ASSUME NEW s \in Seq(Tokens), Tidy(s), NEW n \in 0 .. Len(s)
  PROVE  SubSeq(s, 1, n) \in Seq(Tokens) /\ Tidy(SubSeq(s, 1, n))
<1> DEFINE u == SubSeq(s, 1, n)
<1>1. u \in Seq(Tokens) /\ Len(u) = n /\ \A i \in 1 .. n : u[i] = s[i]
  BY Slice
<1> HIDE DEF u
<1>2. Tidy(u)
  BY <1>1 DEF Tidy
<1> QED
  BY <1>1, <1>2 DEF u

(* What a command is about to write. *)
LEMMA Drafts ==
  ASSUME NEW s \in Seq(Tokens), Tidy(s)
  PROVE  /\ WithBlock(s) \in Seq(Tokens) /\ Tidy(WithBlock(s))
         /\ Block \in Seq(Tokens) /\ Tidy(Block)
<1>1. StripBlock(s) \in Seq(Tokens) /\ NoEnd(StripBlock(s))
  BY Stripped
<1>2. EndsLine(StripBlock(s)) \in Seq(Tokens) /\ NoEnd(EndsLine(StripBlock(s)))
  BY <1>1, LineEnded
<1>3. WithBlock(s) \in Seq(Tokens) /\ Tidy(WithBlock(s))
  BY <1>2, TidyBlock DEF WithBlock
<1>4. << >> \o Block = Block
  BY Fixed
<1>5. Tidy(Block)
  BY <1>4, Fixed, FixedNoEnd, TidyBlock
<1> QED
  BY <1>3, <1>5, Fixed

-------------------------------------------------------------------------------
(* The steps of a command. *)

LEMMA TypesInTwo == TextType /\ PlainType <=> TypeOK
<1>1. Len(UninstallSteps) = 9
  BY DEF UninstallSteps
<1> QED
  BY <1>1 DEF TextType, PlainType, CaseTypes, FlagTypes, CountTypes, TypeOK, Tokens

LengthOf(c) == IF c = "install" THEN 6 ELSE IF c = "uninstall" THEN 9 ELSE 1

LEMMA Lengths ==
  ASSUME NEW c \in Commands
  PROVE  Len(StepsOf(c)) = LengthOf(c)
  BY DEF Commands, StepsOf, LengthOf, InstallSteps, UninstallSteps

(* Which command is at which place when a step is taken. *)
LEMMA Placed ==
  ASSUME PlainType, PlaceInv
  PROVE  /\ At("read") =>
              (command = "install" /\ at = 1) \/ (command = "uninstall" /\ at = 2)
         /\ At("truncate") =>
              (command = "install" /\ at = 2) \/ (command = "uninstall" /\ at = 3)
         /\ At("write") =>
              (command = "install" /\ at = 3) \/ (command = "uninstall" /\ at = 4)
         /\ At("setenv") => command = "install" /\ at = 4
         /\ At("plist") => command = "install" /\ at = 5
         /\ At("bootstrap") => command = "install" /\ at = 6
         /\ At("untrust") =>
              (command = "untrust" /\ at = 1) \/ (command = "uninstall" /\ at = 1)
         /\ At("unsetenv") => command = "uninstall" /\ at = 5
         /\ At("bootout") => command = "uninstall" /\ at = 6
         /\ At("unlink") => command = "uninstall" /\ at = 7
         /\ At("state") => command = "uninstall" /\ at = 8
         /\ At("clear") => command = "uninstall" /\ at = 9
         /\ At("trust") => command = "trust" /\ at = 1
<1>1. CASE command = "none"
  BY <1>1 DEF At
<1>2. CASE command = "install"
  <2>1. at \in {1, 2, 3, 4, 5, 6}
    BY <1>2 DEF PlaceInv
  <2> QED
    BY <1>2, <2>1 DEF At, StepsOf, InstallSteps
<1>3. CASE command = "uninstall"
  <2>1. at \in {1, 2, 3, 4, 5, 6, 7, 8, 9}
    BY <1>3 DEF PlaceInv
  <2> QED
    BY <1>3, <2>1 DEF At, StepsOf, UninstallSteps
<1>4. CASE command \in {"trust", "untrust"}
  BY <1>4 DEF At, StepsOf, PlaceInv
<1> QED
  BY <1>1, <1>2, <1>3, <1>4 DEF PlainType, CaseTypes, Commands

(* A command goes on to a later step, or reports its success after the last. *)
LEMMA Advance ==
  ASSUME PlainType, command # "none", NEW n \in Nat, Skip(n)
  PROVE  IF at + n <= LengthOf(command)
         THEN at' = at + n /\ command' = command /\ outcome' = outcome
         ELSE at' = 0 /\ command' = "none" /\ outcome' = command
  BY Lengths DEF Skip, Stop, PlainType, CaseTypes

LEMMA AdvanceOne ==
  ASSUME PlainType, command # "none", Proceed
  PROVE  IF at + 1 <= LengthOf(command)
         THEN at' = at + 1 /\ command' = command /\ outcome' = outcome
         ELSE at' = 0 /\ command' = "none" /\ outcome' = command
  BY Advance DEF Proceed

-------------------------------------------------------------------------------
(* Every step preserves the invariant. *)

LEMMA StartStep ==
  ASSUME IInv, NEW c \in Commands, Start(c)
  PROVE  IInv'
<1> USE DEF IInv, PlainType, Stop, profileVars, launchVars, trustVars, commandVars
<1>10. TextType'
  BY DEF Start, TextType
<1>11. CaseTypes'
  BY DEF Start, CaseTypes, Commands
<1>12. FlagTypes'
  BY DEF Start, FlagTypes, EnvVars, CaseTypes
<1>13. CountTypes'
  BY InstallAssumption DEF Start, CaseTypes, CountTypes
<1>14. PlaceInv'
  BY DEF Start, CaseTypes, PlaceInv, Commands
<1>15. MintInv'
  BY DEF Start, FlagTypes, CaseTypes, CountTypes, PlaceInv, MintInv, Commands
<1>16. ProfileInv'
  BY DEF Start, PlaceInv, ProfileInv
<1>17. ProgressInv'
  BY DEF Start, FlagTypes, CaseTypes, PlaceInv, ProgressInv
<1>18. DoneInv'
  BY DEF Start, FlagTypes, CaseTypes, PlaceInv, ProgressInv, DoneInv
<1> QED
  BY <1>10, <1>11, <1>12, <1>13, <1>14, <1>15, <1>16, <1>17, <1>18 DEF PlainType

LEMMA ReadStep ==
  ASSUME IInv, ReadProfile
  PROVE  IInv'
<1> USE DEF IInv, PlainType, Stop, profileVars, launchVars, trustVars, commandVars
<1>1. \/ command = "install" /\ at = 1
      \/ command = "uninstall" /\ at = 2
  BY Placed DEF ReadProfile
<1>2. Proceed => command' = command /\ at' = at + 1 /\ outcome' = outcome
  BY <1>1, AdvanceOne DEF LengthOf
<1>3. Skip(3) /\ command = "uninstall" => command' = command /\ at' = 5 /\ outcome' = outcome
  BY <1>1, Advance DEF LengthOf
<1>4. /\ WithBlock(profile) \in Seq(Tokens) /\ Tidy(WithBlock(profile))
      /\ StripBlock(profile) \in Seq(Tokens) /\ NoEnd(StripBlock(profile))
      /\ Tidy(StripBlock(profile))
      /\ Block \in Seq(Tokens) /\ Tidy(Block)
  BY Drafts, Stripped, NoEndIsTidy DEF TextType, ProfileInv
<1>10. TextType'
  BY <1>1, <1>2, <1>3, <1>4 DEF ReadProfile, TextType
<1>11. CaseTypes'
  BY <1>1, <1>2, <1>3, <1>4 DEF ReadProfile, CaseTypes, Commands
<1>12. FlagTypes'
  BY <1>1, <1>2, <1>3, <1>4 DEF ReadProfile, FlagTypes, EnvVars, CaseTypes
<1>13. CountTypes'
  BY <1>1, <1>2, <1>3, <1>4, InstallAssumption DEF ReadProfile, CaseTypes, CountTypes
<1>14. PlaceInv'
  BY <1>1, <1>2, <1>3, <1>4 DEF ReadProfile, CaseTypes, PlaceInv, Commands
<1>15. MintInv'
  BY <1>1, <1>2, <1>3, <1>4 DEF ReadProfile, FlagTypes, CaseTypes, CountTypes, PlaceInv, MintInv, Commands
<1>16. ProfileInv'
  BY <1>1, <1>2, <1>3, <1>4 DEF ReadProfile, PlaceInv, ProfileInv
<1>17. ProgressInv'
  BY <1>1, <1>2, <1>3, <1>4 DEF ReadProfile, FlagTypes, CaseTypes, PlaceInv, ProgressInv
<1>18. DoneInv'
  BY <1>1, <1>2, <1>3, <1>4 DEF ReadProfile, FlagTypes, CaseTypes, PlaceInv, ProgressInv, DoneInv
<1> QED
  BY <1>10, <1>11, <1>12, <1>13, <1>14, <1>15, <1>16, <1>17, <1>18 DEF PlainType

LEMMA TruncateStep ==
  ASSUME IInv, TruncateProfile
  PROVE  IInv'
<1> USE DEF IInv, PlainType, Stop, profileVars, launchVars, trustVars, commandVars
<1>1. \/ command = "install" /\ at = 2
      \/ command = "uninstall" /\ at = 3
  BY Placed DEF TruncateProfile
<1>2. Proceed => command' = command /\ at' = at + 1 /\ outcome' = outcome
  BY <1>1, AdvanceOne DEF LengthOf
<1>3. << >> \in Seq(Tokens) /\ Tidy(<< >>) /\ NoEnd(<< >>)
  BY Fixed, FixedNoEnd, NoEndIsTidy
<1>10. TextType'
  BY <1>1, <1>2, <1>3 DEF TruncateProfile, TextType
<1>11. CaseTypes'
  BY <1>1, <1>2, <1>3 DEF TruncateProfile, CaseTypes, Commands
<1>12. FlagTypes'
  BY <1>1, <1>2, <1>3 DEF TruncateProfile, FlagTypes, EnvVars, CaseTypes
<1>13. CountTypes'
  BY <1>1, <1>2, <1>3, InstallAssumption DEF TruncateProfile, CaseTypes, CountTypes
<1>14. PlaceInv'
  BY <1>1, <1>2, <1>3 DEF TruncateProfile, CaseTypes, PlaceInv, Commands
<1>15. MintInv'
  BY <1>1, <1>2, <1>3 DEF TruncateProfile, FlagTypes, CaseTypes, CountTypes, PlaceInv, MintInv, Commands
<1>16. ProfileInv'
  BY <1>1, <1>2, <1>3 DEF TruncateProfile, PlaceInv, ProfileInv
<1>17. ProgressInv'
  BY <1>1, <1>2, <1>3 DEF TruncateProfile, FlagTypes, CaseTypes, PlaceInv, ProgressInv
<1>18. DoneInv'
  BY <1>1, <1>2, <1>3 DEF TruncateProfile, FlagTypes, CaseTypes, PlaceInv, ProgressInv, DoneInv
<1> QED
  BY <1>10, <1>11, <1>12, <1>13, <1>14, <1>15, <1>16, <1>17, <1>18 DEF PlainType

LEMMA WriteStep ==
  ASSUME IInv, WriteProfile
  PROVE  IInv'
<1> USE DEF IInv, PlainType, Stop, profileVars, launchVars, trustVars, commandVars
<1>1. \/ command = "install" /\ at = 3
      \/ command = "uninstall" /\ at = 4
  BY Placed DEF WriteProfile
<1>2. Proceed => command' = command /\ at' = at + 1 /\ outcome' = outcome
  BY <1>1, AdvanceOne DEF LengthOf
<1>3. << >> \in Seq(Tokens) /\ Tidy(<< >>) /\ NoEnd(<< >>)
  BY Fixed, FixedNoEnd, NoEndIsTidy
<1>10. TextType'
  BY <1>1, <1>2, <1>3 DEF WriteProfile, TextType
<1>11. CaseTypes'
  BY <1>1, <1>2, <1>3 DEF WriteProfile, CaseTypes, Commands
<1>12. FlagTypes'
  BY <1>1, <1>2, <1>3 DEF WriteProfile, FlagTypes, EnvVars, CaseTypes
<1>13. CountTypes'
  BY <1>1, <1>2, <1>3, InstallAssumption DEF WriteProfile, CaseTypes, CountTypes
<1>14. PlaceInv'
  BY <1>1, <1>2, <1>3 DEF WriteProfile, CaseTypes, PlaceInv, Commands
<1>15. MintInv'
  BY <1>1, <1>2, <1>3 DEF WriteProfile, FlagTypes, CaseTypes, CountTypes, PlaceInv, MintInv, Commands
<1>16. ProfileInv'
  BY <1>1, <1>2, <1>3 DEF WriteProfile, PlaceInv, ProfileInv
<1>17. ProgressInv'
  BY <1>1, <1>2, <1>3 DEF WriteProfile, FlagTypes, CaseTypes, PlaceInv, ProfileInv, ProgressInv
<1>18. DoneInv'
  BY <1>1, <1>2, <1>3 DEF WriteProfile, FlagTypes, CaseTypes, PlaceInv, ProgressInv, DoneInv
<1> QED
  BY <1>10, <1>11, <1>12, <1>13, <1>14, <1>15, <1>16, <1>17, <1>18 DEF PlainType

LEMMA WriteFailsStep ==
  ASSUME IInv, WriteProfileFails
  PROVE  IInv'
<1> USE DEF IInv, PlainType, Stop, profileVars, launchVars, trustVars, commandVars
<1>1. \/ command = "install" /\ at \in {2, 3}
      \/ command = "uninstall" /\ (At("truncate") => at = 3) /\ (~At("truncate") => at = 4)
  BY Placed DEF WriteProfileFails
<1>3. << >> \in Seq(Tokens) /\ Tidy(<< >>) /\ NoEnd(<< >>)
  BY Fixed, FixedNoEnd, NoEndIsTidy
<1>4. \/ profile' = profile
      \/ \E n \in 0 .. Len(draft) : profile' = SubSeq(draft, 1, n)
  <2>1. Len(draft) \in Nat
    BY DEF TextType
  <2>2. Len(draft) \div 2 \in 0 .. Len(draft)
    BY <2>1
  <2> QED
    BY <2>1, <2>2 DEF WriteProfileFails
<1>5. profile' \in Seq(Tokens) /\ Tidy(profile')
  BY <1>4, TidyPrefix DEF TextType, ProfileInv
<1>6. \/ command = "install" /\ Stop("failed") /\ issues' = issues
      \/ /\ command = "uninstall" /\ issues' = TRUE
         /\ command' = command /\ at' = 5 /\ outcome' = outcome
  <2>1. command = "uninstall" /\ Skip(2) /\ at = 3 => command' = command /\ at' = 5 /\ outcome' = outcome
    BY Advance DEF LengthOf
  <2>2. command = "uninstall" /\ Skip(1) /\ at = 4 => command' = command /\ at' = 5 /\ outcome' = outcome
    BY Advance DEF LengthOf
  <2> QED
    BY <1>1, <2>1, <2>2 DEF WriteProfileFails
<1>7. /\ draft' = << >> /\ lost' \in BOOLEAN
      /\ UNCHANGED <<lines, env, launchVars, trustVars, marker, started, slipped, faults>>
  BY DEF WriteProfileFails, PlainType, FlagTypes
<1>10. TextType'
  BY <1>1, <1>3, <1>4, <1>5, <1>6, <1>7 DEF WriteProfileFails, TextType
<1>11. CaseTypes'
  BY <1>1, <1>3, <1>4, <1>5, <1>6, <1>7 DEF WriteProfileFails, CaseTypes, Commands
<1>12. FlagTypes'
  BY <1>1, <1>3, <1>4, <1>5, <1>6, <1>7 DEF WriteProfileFails, FlagTypes, EnvVars, CaseTypes
<1>13. CountTypes'
  BY <1>1, <1>3, <1>4, <1>5, <1>6, <1>7, InstallAssumption DEF WriteProfileFails, CaseTypes, CountTypes
<1>14. PlaceInv'
  BY <1>1, <1>3, <1>4, <1>5, <1>6, <1>7 DEF WriteProfileFails, CaseTypes, PlaceInv, Commands
<1>15. MintInv'
  BY <1>1, <1>3, <1>4, <1>5, <1>6, <1>7 DEF WriteProfileFails, FlagTypes, CaseTypes, CountTypes, PlaceInv, MintInv, Commands
<1>16. ProfileInv'
  BY <1>1, <1>3, <1>4, <1>5, <1>6, <1>7 DEF WriteProfileFails, PlaceInv, ProfileInv
<1>17. ProgressInv'
  BY <1>1, <1>3, <1>4, <1>5, <1>6, <1>7 DEF WriteProfileFails, FlagTypes, CaseTypes, PlaceInv, ProgressInv
<1>18. DoneInv'
  BY <1>1, <1>3, <1>4, <1>5, <1>6, <1>7 DEF WriteProfileFails, FlagTypes, CaseTypes, PlaceInv, ProgressInv, DoneInv
<1> QED
  BY <1>10, <1>11, <1>12, <1>13, <1>14, <1>15, <1>16, <1>17, <1>18 DEF PlainType

LEMMA SetEnvStep ==
  ASSUME IInv, SetEnv
  PROVE  IInv'
<1> USE DEF IInv, PlainType, Stop, profileVars, launchVars, trustVars, commandVars
<1>1. command = "install" /\ at = 4
  BY Placed DEF SetEnv
<1>2. Proceed => command' = "install" /\ at' = 5 /\ outcome' = outcome
  BY <1>1, AdvanceOne DEF LengthOf
<1>10. TextType'
  BY <1>1, <1>2 DEF SetEnv, TextType
<1>11. CaseTypes'
  BY <1>1, <1>2 DEF SetEnv, CaseTypes, Commands
<1>12. FlagTypes'
  BY <1>1, <1>2 DEF SetEnv, FlagTypes, EnvVars, CaseTypes
<1>13. CountTypes'
  BY <1>1, <1>2, InstallAssumption DEF SetEnv, CaseTypes, CountTypes
<1>14. PlaceInv'
  BY <1>1, <1>2 DEF SetEnv, CaseTypes, PlaceInv, Commands
<1>15. MintInv'
  BY <1>1, <1>2 DEF SetEnv, FlagTypes, CaseTypes, CountTypes, PlaceInv, MintInv, Commands
<1>16. ProfileInv'
  BY <1>1, <1>2 DEF SetEnv, PlaceInv, ProfileInv
<1>17. ProgressInv'
  BY <1>1, <1>2 DEF SetEnv, FlagTypes, CaseTypes, PlaceInv, ProgressInv
<1>18. DoneInv'
  BY <1>1, <1>2 DEF SetEnv, FlagTypes, CaseTypes, PlaceInv, ProgressInv, DoneInv
<1> QED
  BY <1>10, <1>11, <1>12, <1>13, <1>14, <1>15, <1>16, <1>17, <1>18 DEF PlainType

LEMMA UnsetEnvStep ==
  ASSUME IInv, UnsetEnv
  PROVE  IInv'
<1> USE DEF IInv, PlainType, Stop, profileVars, launchVars, trustVars, commandVars
<1>1. command = "uninstall" /\ at = 5
  BY Placed DEF UnsetEnv
<1>2. Proceed => command' = "uninstall" /\ at' = 6 /\ outcome' = outcome
  BY <1>1, AdvanceOne DEF LengthOf
<1>3. ~slipped' => ~slipped /\ env' = {}
  BY DEF UnsetEnv
<1>10. TextType'
  BY <1>1, <1>2, <1>3 DEF UnsetEnv, TextType
<1>11. CaseTypes'
  BY <1>1, <1>2, <1>3 DEF UnsetEnv, CaseTypes, Commands
<1>12. FlagTypes'
  BY <1>1, <1>2, <1>3 DEF UnsetEnv, FlagTypes, EnvVars, CaseTypes
<1>13. CountTypes'
  BY <1>1, <1>2, <1>3, InstallAssumption DEF UnsetEnv, CaseTypes, CountTypes
<1>14. PlaceInv'
  BY <1>1, <1>2, <1>3 DEF UnsetEnv, CaseTypes, PlaceInv, Commands
<1>15. MintInv'
  BY <1>1, <1>2, <1>3 DEF UnsetEnv, FlagTypes, CaseTypes, CountTypes, PlaceInv, MintInv, Commands
<1>16. ProfileInv'
  BY <1>1, <1>2, <1>3 DEF UnsetEnv, PlaceInv, ProfileInv
<1>17. ProgressInv'
  BY <1>1, <1>2, <1>3 DEF UnsetEnv, FlagTypes, CaseTypes, PlaceInv, ProgressInv
<1>18. DoneInv'
  BY <1>1, <1>2, <1>3 DEF UnsetEnv, FlagTypes, CaseTypes, PlaceInv, ProgressInv, DoneInv
<1> QED
  BY <1>10, <1>11, <1>12, <1>13, <1>14, <1>15, <1>16, <1>17, <1>18 DEF PlainType

LEMMA WritePlistStep ==
  ASSUME IInv, WritePlist
  PROVE  IInv'
<1> USE DEF IInv, PlainType, Stop, profileVars, launchVars, trustVars, commandVars
<1>1. command = "install" /\ at = 5
  BY Placed DEF WritePlist
<1>2. Proceed => command' = "install" /\ at' = 6 /\ outcome' = outcome
  BY <1>1, AdvanceOne DEF LengthOf
<1>10. TextType'
  BY <1>1, <1>2 DEF WritePlist, TextType
<1>11. CaseTypes'
  BY <1>1, <1>2 DEF WritePlist, CaseTypes, Commands
<1>12. FlagTypes'
  BY <1>1, <1>2 DEF WritePlist, FlagTypes, EnvVars, CaseTypes
<1>13. CountTypes'
  BY <1>1, <1>2, InstallAssumption DEF WritePlist, CaseTypes, CountTypes
<1>14. PlaceInv'
  BY <1>1, <1>2 DEF WritePlist, CaseTypes, PlaceInv, Commands
<1>15. MintInv'
  BY <1>1, <1>2 DEF WritePlist, FlagTypes, CaseTypes, CountTypes, PlaceInv, MintInv, Commands
<1>16. ProfileInv'
  BY <1>1, <1>2 DEF WritePlist, PlaceInv, ProfileInv
<1>17. ProgressInv'
  BY <1>1, <1>2 DEF WritePlist, FlagTypes, CaseTypes, PlaceInv, ProgressInv
<1>18. DoneInv'
  BY <1>1, <1>2 DEF WritePlist, FlagTypes, CaseTypes, PlaceInv, ProgressInv, DoneInv
<1> QED
  BY <1>10, <1>11, <1>12, <1>13, <1>14, <1>15, <1>16, <1>17, <1>18 DEF PlainType

LEMMA LoadDaemonStep ==
  ASSUME IInv, LoadDaemon
  PROVE  IInv'
<1> USE DEF IInv, PlainType, Stop, profileVars, launchVars, trustVars, commandVars
<1>1. command = "install" /\ at = 6
  BY Placed DEF LoadDaemon
<1>2. Proceed => command' = "none" /\ at' = 0 /\ outcome' = "install"
  BY <1>1, AdvanceOne DEF LengthOf
<1>10. TextType'
  BY <1>1, <1>2 DEF LoadDaemon, TextType
<1>11. CaseTypes'
  BY <1>1, <1>2 DEF LoadDaemon, CaseTypes, Commands
<1>12. FlagTypes'
  BY <1>1, <1>2 DEF LoadDaemon, FlagTypes, EnvVars, CaseTypes
<1>13. CountTypes'
  BY <1>1, <1>2, InstallAssumption DEF LoadDaemon, CaseTypes, CountTypes
<1>14. PlaceInv'
  BY <1>1, <1>2 DEF LoadDaemon, CaseTypes, PlaceInv, Commands
<1>15. MintInv'
  BY <1>1, <1>2 DEF LoadDaemon, FlagTypes, CaseTypes, CountTypes, PlaceInv, MintInv, Commands
<1>16. ProfileInv'
  BY <1>1, <1>2 DEF LoadDaemon, PlaceInv, ProfileInv
<1>17. ProgressInv'
  BY <1>1, <1>2 DEF LoadDaemon, FlagTypes, CaseTypes, PlaceInv, ProgressInv
<1>18. DoneInv'
  BY <1>1, <1>2 DEF LoadDaemon, FlagTypes, CaseTypes, PlaceInv, ProgressInv, DoneInv
<1> QED
  BY <1>10, <1>11, <1>12, <1>13, <1>14, <1>15, <1>16, <1>17, <1>18 DEF PlainType

LEMMA UnloadDaemonStep ==
  ASSUME IInv, UnloadDaemon
  PROVE  IInv'
<1> USE DEF IInv, PlainType, Stop, profileVars, launchVars, trustVars, commandVars
<1>1. command = "uninstall" /\ at = 6
  BY Placed DEF UnloadDaemon
<1>2. Proceed => command' = "uninstall" /\ at' = 7 /\ outcome' = outcome
  BY <1>1, AdvanceOne DEF LengthOf
<1>10. TextType'
  BY <1>1, <1>2 DEF UnloadDaemon, TextType
<1>11. CaseTypes'
  BY <1>1, <1>2 DEF UnloadDaemon, CaseTypes, Commands
<1>12. FlagTypes'
  BY <1>1, <1>2 DEF UnloadDaemon, FlagTypes, EnvVars, CaseTypes
<1>13. CountTypes'
  BY <1>1, <1>2, InstallAssumption DEF UnloadDaemon, CaseTypes, CountTypes
<1>14. PlaceInv'
  BY <1>1, <1>2 DEF UnloadDaemon, CaseTypes, PlaceInv, Commands
<1>15. MintInv'
  BY <1>1, <1>2 DEF UnloadDaemon, FlagTypes, CaseTypes, CountTypes, PlaceInv, MintInv, Commands
<1>16. ProfileInv'
  BY <1>1, <1>2 DEF UnloadDaemon, PlaceInv, ProfileInv
<1>17. ProgressInv'
  BY <1>1, <1>2 DEF UnloadDaemon, FlagTypes, CaseTypes, PlaceInv, ProgressInv
<1>18. DoneInv'
  BY <1>1, <1>2 DEF UnloadDaemon, FlagTypes, CaseTypes, PlaceInv, ProgressInv, DoneInv
<1> QED
  BY <1>10, <1>11, <1>12, <1>13, <1>14, <1>15, <1>16, <1>17, <1>18 DEF PlainType

LEMMA RemovePlistStep ==
  ASSUME IInv, RemovePlist
  PROVE  IInv'
<1> USE DEF IInv, PlainType, Stop, profileVars, launchVars, trustVars, commandVars
<1>1. command = "uninstall" /\ at = 7
  BY Placed DEF RemovePlist
<1>2. Proceed => command' = "uninstall" /\ at' = 8 /\ outcome' = outcome
  BY <1>1, AdvanceOne DEF LengthOf
<1>10. TextType'
  BY <1>1, <1>2 DEF RemovePlist, TextType
<1>11. CaseTypes'
  BY <1>1, <1>2 DEF RemovePlist, CaseTypes, Commands
<1>12. FlagTypes'
  BY <1>1, <1>2 DEF RemovePlist, FlagTypes, EnvVars, CaseTypes
<1>13. CountTypes'
  BY <1>1, <1>2, InstallAssumption DEF RemovePlist, CaseTypes, CountTypes
<1>14. PlaceInv'
  BY <1>1, <1>2 DEF RemovePlist, CaseTypes, PlaceInv, Commands
<1>15. MintInv'
  BY <1>1, <1>2 DEF RemovePlist, FlagTypes, CaseTypes, CountTypes, PlaceInv, MintInv, Commands
<1>16. ProfileInv'
  BY <1>1, <1>2 DEF RemovePlist, PlaceInv, ProfileInv
<1>17. ProgressInv'
  BY <1>1, <1>2 DEF RemovePlist, FlagTypes, CaseTypes, PlaceInv, ProgressInv
<1>18. DoneInv'
  BY <1>1, <1>2 DEF RemovePlist, FlagTypes, CaseTypes, PlaceInv, ProgressInv, DoneInv
<1> QED
  BY <1>10, <1>11, <1>12, <1>13, <1>14, <1>15, <1>16, <1>17, <1>18 DEF PlainType

LEMMA RemoveStateStep ==
  ASSUME IInv, RemoveState
  PROVE  IInv'
<1> USE DEF IInv, PlainType, Stop, profileVars, launchVars, trustVars, commandVars
<1>1. command = "uninstall" /\ at = 8
  BY Placed DEF RemoveState
<1>2. Proceed => command' = "uninstall" /\ at' = 9 /\ outcome' = outcome
  BY <1>1, AdvanceOne DEF LengthOf
<1>10. TextType'
  BY <1>1, <1>2 DEF RemoveState, TextType
<1>11. CaseTypes'
  BY <1>1, <1>2 DEF RemoveState, CaseTypes, Commands
<1>12. FlagTypes'
  BY <1>1, <1>2 DEF RemoveState, FlagTypes, EnvVars, CaseTypes
<1>13. CountTypes'
  BY <1>1, <1>2, InstallAssumption DEF RemoveState, CaseTypes, CountTypes
<1>14. PlaceInv'
  BY <1>1, <1>2 DEF RemoveState, CaseTypes, PlaceInv, Commands
<1>15. MintInv'
  BY <1>1, <1>2 DEF RemoveState, FlagTypes, CaseTypes, CountTypes, PlaceInv, MintInv, Commands
<1>16. ProfileInv'
  BY <1>1, <1>2 DEF RemoveState, PlaceInv, ProfileInv
<1>17. ProgressInv'
  BY <1>1, <1>2 DEF RemoveState, FlagTypes, CaseTypes, PlaceInv, ProgressInv
<1>18. DoneInv'
  BY <1>1, <1>2 DEF RemoveState, FlagTypes, CaseTypes, PlaceInv, ProgressInv, DoneInv
<1> QED
  BY <1>10, <1>11, <1>12, <1>13, <1>14, <1>15, <1>16, <1>17, <1>18 DEF PlainType

LEMMA ClearStep ==
  ASSUME IInv, ClearCapturePause
  PROVE  IInv'
<1> USE DEF IInv, PlainType, Stop, profileVars, launchVars, trustVars, commandVars
<1>1. command = "uninstall" /\ at = 9
  BY Placed DEF ClearCapturePause
<1>2. Proceed => command' = "none" /\ at' = 0 /\ outcome' = "uninstall"
  BY <1>1, AdvanceOne DEF LengthOf
<1>10. TextType'
  BY <1>1, <1>2 DEF ClearCapturePause, TextType
<1>11. CaseTypes'
  BY <1>1, <1>2 DEF ClearCapturePause, CaseTypes, Commands
<1>12. FlagTypes'
  BY <1>1, <1>2 DEF ClearCapturePause, FlagTypes, EnvVars, CaseTypes
<1>13. CountTypes'
  BY <1>1, <1>2, InstallAssumption DEF ClearCapturePause, CaseTypes, CountTypes
<1>14. PlaceInv'
  BY <1>1, <1>2 DEF ClearCapturePause, CaseTypes, PlaceInv, Commands
<1>15. MintInv'
  BY <1>1, <1>2 DEF ClearCapturePause, FlagTypes, CaseTypes, CountTypes, PlaceInv, MintInv, Commands
<1>16. ProfileInv'
  BY <1>1, <1>2 DEF ClearCapturePause, PlaceInv, ProfileInv
<1>17. ProgressInv'
  BY <1>1, <1>2 DEF ClearCapturePause, FlagTypes, CaseTypes, PlaceInv, ProgressInv
<1>18. DoneInv'
  BY <1>1, <1>2 DEF ClearCapturePause, FlagTypes, CaseTypes, PlaceInv, ProgressInv, DoneInv
<1> QED
  BY <1>10, <1>11, <1>12, <1>13, <1>14, <1>15, <1>16, <1>17, <1>18 DEF PlainType

LEMMA TrustInstallStep ==
  ASSUME IInv, TrustInstall
  PROVE  IInv'
<1> USE DEF IInv, PlainType, Stop, profileVars, launchVars, trustVars, commandVars
<1>1. command = "trust" /\ at = 1
  BY Placed DEF TrustInstall
<1>2. Proceed => command' = "none" /\ at' = 0 /\ outcome' = "trust"
  BY <1>1, AdvanceOne DEF LengthOf
<1>10. TextType'
  BY <1>1, <1>2 DEF TrustInstall, TextType
<1>11. CaseTypes'
  BY <1>1, <1>2 DEF TrustInstall, CaseTypes, Commands
<1>12. FlagTypes'
  BY <1>1, <1>2 DEF TrustInstall, FlagTypes, EnvVars, CaseTypes
<1>13. CountTypes'
  <2>1. keychain' = keychain \/ (ca # 0 /\ keychain' = keychain \cup {ca})
    BY DEF TrustInstall
  <2>2. ca # 0 => ca \in 1 .. minted
    BY DEF CountTypes
  <2> DEFINE R == 1 .. minted
  <2>3. keychain \subseteq R /\ (ca # 0 => ca \in R)
    BY <2>2 DEF CountTypes
  <2> HIDE DEF R
  <2>4. keychain' \subseteq R
    BY <2>1, <2>3
  <2>5. keychain' \subseteq 1 .. minted
    BY <2>4 DEF R
  <2> QED
    BY <2>5 DEF TrustInstall, CountTypes
<1>14. PlaceInv'
  BY <1>1, <1>2 DEF TrustInstall, CaseTypes, PlaceInv, Commands
<1>15. MintInv'
  BY <1>1, <1>2 DEF TrustInstall, FlagTypes, CaseTypes, CountTypes, PlaceInv, MintInv, Commands
<1>16. ProfileInv'
  BY <1>1, <1>2 DEF TrustInstall, PlaceInv, ProfileInv
<1>17. ProgressInv'
  BY <1>1, <1>2 DEF TrustInstall, FlagTypes, CaseTypes, PlaceInv, ProgressInv
<1>18. DoneInv'
  BY <1>1, <1>2 DEF TrustInstall, FlagTypes, CaseTypes, PlaceInv, ProgressInv, DoneInv
<1> QED
  BY <1>10, <1>11, <1>12, <1>13, <1>14, <1>15, <1>16, <1>17, <1>18 DEF PlainType

LEMMA TrustRemoveStep ==
  ASSUME IInv, TrustRemove
  PROVE  IInv'
<1> USE DEF IInv, PlainType, Stop, profileVars, launchVars, trustVars, commandVars
<1>1. \/ command = "untrust" /\ at = 1
      \/ command = "uninstall" /\ at = 1
  BY Placed DEF TrustRemove
<1>2. Proceed => IF command = "uninstall"
                  THEN command' = command /\ at' = 2 /\ outcome' = outcome
                  ELSE command' = "none" /\ at' = 0 /\ outcome' = "untrust"
  BY <1>1, AdvanceOne DEF LengthOf
<1>3. ~slipped' => ~slipped /\ keychain' = {}
  BY DEF TrustRemove
<1>10. TextType'
  BY <1>1, <1>2, <1>3 DEF TrustRemove, TextType
<1>11. CaseTypes'
  BY <1>1, <1>2, <1>3 DEF TrustRemove, CaseTypes, Commands
<1>12. FlagTypes'
  BY <1>1, <1>2, <1>3 DEF TrustRemove, FlagTypes, EnvVars, CaseTypes
<1>13. CountTypes'
  BY <1>1, <1>2, <1>3, InstallAssumption DEF TrustRemove, CaseTypes, CountTypes
<1>14. PlaceInv'
  BY <1>1, <1>2, <1>3 DEF TrustRemove, CaseTypes, PlaceInv, Commands
<1>15. MintInv'
  BY <1>1, <1>2, <1>3 DEF TrustRemove, FlagTypes, CaseTypes, CountTypes, PlaceInv, MintInv, Commands
<1>16. ProfileInv'
  BY <1>1, <1>2, <1>3 DEF TrustRemove, PlaceInv, ProfileInv
<1>17. ProgressInv'
  BY <1>1, <1>2, <1>3 DEF TrustRemove, FlagTypes, CaseTypes, PlaceInv, ProgressInv
<1>18. DoneInv'
  BY <1>1, <1>2, <1>3 DEF TrustRemove, FlagTypes, CaseTypes, PlaceInv, ProgressInv, DoneInv
<1> QED
  BY <1>10, <1>11, <1>12, <1>13, <1>14, <1>15, <1>16, <1>17, <1>18 DEF PlainType

LEMMA KeepAliveStep ==
  ASSUME IInv, KeepAlive
  PROVE  IInv'
<1> USE DEF IInv, PlainType, Stop, profileVars, launchVars, trustVars, commandVars
<1>10. TextType'
  BY DEF KeepAlive, TextType
<1>11. CaseTypes'
  BY DEF KeepAlive, CaseTypes, Commands
<1>12. FlagTypes'
  BY DEF KeepAlive, FlagTypes, EnvVars, CaseTypes
<1>13. CountTypes'
  BY InstallAssumption DEF KeepAlive, CaseTypes, CountTypes
<1>14. PlaceInv'
  BY DEF KeepAlive, CaseTypes, PlaceInv, Commands
<1>15. MintInv'
  BY DEF KeepAlive, FlagTypes, CaseTypes, CountTypes, PlaceInv, MintInv, Commands
<1>16. ProfileInv'
  BY DEF KeepAlive, PlaceInv, ProfileInv
<1>17. ProgressInv'
  BY DEF KeepAlive, FlagTypes, CaseTypes, PlaceInv, ProgressInv
<1>18. DoneInv'
  BY DEF KeepAlive, FlagTypes, CaseTypes, PlaceInv, ProgressInv, DoneInv
<1> QED
  BY <1>10, <1>11, <1>12, <1>13, <1>14, <1>15, <1>16, <1>17, <1>18 DEF PlainType

LEMMA LoadOrCreateStep ==
  ASSUME IInv, LoadOrCreateCA
  PROVE  IInv'
<1> USE DEF IInv, PlainType, Stop, profileVars, launchVars, trustVars, commandVars
<1>10. TextType'
  BY DEF LoadOrCreateCA, TextType
<1>11. CaseTypes'
  BY DEF LoadOrCreateCA, CaseTypes, Commands
<1>12. FlagTypes'
  BY DEF LoadOrCreateCA, FlagTypes, EnvVars, CaseTypes
<1>13. CountTypes'
  <2>1. ca = 0 => minted < started
    BY DEF LoadOrCreateCA, CaseTypes, MintInv
  <2>2. minted \in Nat /\ started \in Nat /\ MaxCommands \in Nat /\ MaxFaults \in Nat
    BY InstallAssumption DEF CountTypes
  <2>3. minted' \in 0 .. started /\ ca' \in 0 .. minted' /\ minted <= minted'
    BY <2>1, <2>2 DEF LoadOrCreateCA, CountTypes
  <2>4. keychain \subseteq 1 .. minted'
    BY <2>2, <2>3 DEF CountTypes
  <2> QED
    BY <2>3, <2>4 DEF LoadOrCreateCA, CountTypes
<1>14. PlaceInv'
  BY DEF LoadOrCreateCA, CaseTypes, PlaceInv, Commands
<1>15. MintInv'
  BY DEF LoadOrCreateCA, FlagTypes, CaseTypes, CountTypes, PlaceInv, MintInv, Commands
<1>16. ProfileInv'
  BY DEF LoadOrCreateCA, PlaceInv, ProfileInv
<1>17. ProgressInv'
  BY DEF LoadOrCreateCA, FlagTypes, CaseTypes, PlaceInv, ProgressInv
<1>18. DoneInv'
  BY DEF LoadOrCreateCA, FlagTypes, CaseTypes, PlaceInv, ProgressInv, DoneInv
<1> QED
  BY <1>10, <1>11, <1>12, <1>13, <1>14, <1>15, <1>16, <1>17, <1>18 DEF PlainType

LEMMA PauseStep ==
  ASSUME IInv, PauseCapture
  PROVE  IInv'
<1> USE DEF IInv, PlainType, Stop, profileVars, launchVars, trustVars, commandVars
<1>10. TextType'
  BY DEF PauseCapture, TextType
<1>11. CaseTypes'
  BY DEF PauseCapture, CaseTypes, Commands
<1>12. FlagTypes'
  BY DEF PauseCapture, FlagTypes, EnvVars, CaseTypes
<1>13. CountTypes'
  BY InstallAssumption DEF PauseCapture, CaseTypes, CountTypes
<1>14. PlaceInv'
  BY DEF PauseCapture, CaseTypes, PlaceInv, Commands
<1>15. MintInv'
  BY DEF PauseCapture, FlagTypes, CaseTypes, CountTypes, PlaceInv, MintInv, Commands
<1>16. ProfileInv'
  BY DEF PauseCapture, PlaceInv, ProfileInv
<1>17. ProgressInv'
  BY DEF PauseCapture, FlagTypes, CaseTypes, PlaceInv, ProgressInv
<1>18. DoneInv'
  BY DEF PauseCapture, FlagTypes, CaseTypes, PlaceInv, ProgressInv, DoneInv
<1> QED
  BY <1>10, <1>11, <1>12, <1>13, <1>14, <1>15, <1>16, <1>17, <1>18 DEF PlainType

LEMMA DiesStep ==
  ASSUME IInv, DaemonDies
  PROVE  IInv'
<1> USE DEF IInv, PlainType, Stop, profileVars, launchVars, trustVars, commandVars
<1>10. TextType'
  BY DEF DaemonDies, TextType
<1>11. CaseTypes'
  BY DEF DaemonDies, CaseTypes, Commands
<1>12. FlagTypes'
  BY DEF DaemonDies, FlagTypes, EnvVars, CaseTypes
<1>13. CountTypes'
  BY InstallAssumption DEF DaemonDies, CaseTypes, CountTypes
<1>14. PlaceInv'
  BY DEF DaemonDies, CaseTypes, PlaceInv, Commands
<1>15. MintInv'
  BY DEF DaemonDies, FlagTypes, CaseTypes, CountTypes, PlaceInv, MintInv, Commands
<1>16. ProfileInv'
  BY DEF DaemonDies, PlaceInv, ProfileInv
<1>17. ProgressInv'
  BY DEF DaemonDies, FlagTypes, CaseTypes, PlaceInv, ProgressInv
<1>18. DoneInv'
  BY DEF DaemonDies, FlagTypes, CaseTypes, PlaceInv, ProgressInv, DoneInv
<1> QED
  BY <1>10, <1>11, <1>12, <1>13, <1>14, <1>15, <1>16, <1>17, <1>18 DEF PlainType

LEMMA KillStep ==
  ASSUME IInv, Kill
  PROVE  IInv'
<1> USE DEF IInv, PlainType, Stop, profileVars, launchVars, trustVars, commandVars
<1>3. << >> \in Seq(Tokens) /\ Tidy(<< >>) /\ NoEnd(<< >>)
  BY Fixed, FixedNoEnd, NoEndIsTidy
<1>4. lost' \in BOOLEAN
  BY DEF Kill, PlainType, FlagTypes
<1>10. TextType'
  BY <1>3, <1>4 DEF Kill, TextType
<1>11. CaseTypes'
  BY <1>3, <1>4 DEF Kill, CaseTypes, Commands
<1>12. FlagTypes'
  BY <1>3, <1>4 DEF Kill, FlagTypes, EnvVars, CaseTypes
<1>13. CountTypes'
  BY <1>3, <1>4, InstallAssumption DEF Kill, CaseTypes, CountTypes
<1>14. PlaceInv'
  BY <1>3, <1>4 DEF Kill, CaseTypes, PlaceInv, Commands
<1>15. MintInv'
  BY <1>3, <1>4 DEF Kill, FlagTypes, CaseTypes, CountTypes, PlaceInv, MintInv, Commands
<1>16. ProfileInv'
  BY <1>3, <1>4 DEF Kill, PlaceInv, ProfileInv
<1>17. ProgressInv'
  BY <1>3, <1>4 DEF Kill, FlagTypes, CaseTypes, PlaceInv, ProgressInv
<1>18. DoneInv'
  BY <1>3, <1>4 DEF Kill, FlagTypes, CaseTypes, PlaceInv, ProgressInv, DoneInv
<1> QED
  BY <1>10, <1>11, <1>12, <1>13, <1>14, <1>15, <1>16, <1>17, <1>18 DEF PlainType

LEMMA RebootStep ==
  ASSUME IInv, Reboot
  PROVE  IInv'
<1> USE DEF IInv, PlainType, Stop, profileVars, launchVars, trustVars, commandVars
<1>3. << >> \in Seq(Tokens) /\ Tidy(<< >>) /\ NoEnd(<< >>)
  BY Fixed, FixedNoEnd, NoEndIsTidy
<1>4. lost' \in BOOLEAN
  BY DEF Reboot, PlainType, FlagTypes
<1>10. TextType'
  BY <1>3, <1>4 DEF Reboot, TextType
<1>11. CaseTypes'
  BY <1>3, <1>4 DEF Reboot, CaseTypes, Commands
<1>12. FlagTypes'
  BY <1>3, <1>4 DEF Reboot, FlagTypes, EnvVars, CaseTypes
<1>13. CountTypes'
  BY <1>3, <1>4, InstallAssumption DEF Reboot, CaseTypes, CountTypes
<1>14. PlaceInv'
  BY <1>3, <1>4 DEF Reboot, CaseTypes, PlaceInv, Commands
<1>15. MintInv'
  BY <1>3, <1>4 DEF Reboot, FlagTypes, CaseTypes, CountTypes, PlaceInv, MintInv, Commands
<1>16. ProfileInv'
  BY <1>3, <1>4 DEF Reboot, PlaceInv, ProfileInv
<1>17. ProgressInv'
  BY <1>3, <1>4 DEF Reboot, FlagTypes, CaseTypes, PlaceInv, ProgressInv
<1>18. DoneInv'
  BY <1>3, <1>4 DEF Reboot, FlagTypes, CaseTypes, PlaceInv, ProgressInv, DoneInv
<1> QED
  BY <1>10, <1>11, <1>12, <1>13, <1>14, <1>15, <1>16, <1>17, <1>18 DEF PlainType

LEMMA EditStep ==
  ASSUME IInv, NEW l \in Lines, EditProfile(l)
  PROVE  IInv'
<1> USE DEF IInv, PlainType, Stop, profileVars, launchVars, trustVars, commandVars
<1>3. l \in Tokens /\ l \notin {"begin", "end"}
  BY InstallAssumption DEF Tokens
<1>4. /\ <<l, "nl">> \in Seq(Tokens) /\ <<l>> \in Seq(Lines)
      /\ \A i \in 1 .. Len(<<l, "nl">>) : <<l, "nl">>[i] \notin {"begin", "end"}
  BY <1>3 DEF Tokens
<1>5. /\ profile' \in Seq(Tokens) /\ Tidy(profile') /\ (NoEnd(profile) => NoEnd(profile'))
      /\ lines' \in Seq(Lines)
  <2>1. CASE profile' = <<l, "nl">> \o profile /\ lines' = <<l>> \o lines
    BY <1>4, <2>1, Joined, TidyLines DEF TextType, ProfileInv
  <2>2. CASE profile' = EndsLine(profile) \o <<l, "nl">> /\ lines' = lines \o <<l>>
    <3>1. /\ EndsLine(profile) \in Seq(Tokens) /\ Tidy(EndsLine(profile))
          /\ NoEnd(profile) => NoEnd(EndsLine(profile))
      BY TidyEnded DEF TextType, ProfileInv
    <3> QED
      BY <1>4, <2>2, <3>1, Joined, TidyMoreLines DEF TextType
  <2> QED
    BY <2>1, <2>2 DEF EditProfile
<1>6. lost' \in BOOLEAN
  BY DEF EditProfile, PlainType, FlagTypes
<1>7. UNCHANGED <<draft, env, launchVars, trustVars, marker, commandVars, faults>>
  BY DEF EditProfile
<1>10. TextType'
  BY <1>3, <1>4, <1>5, <1>6, <1>7 DEF EditProfile, TextType
<1>11. CaseTypes'
  BY <1>3, <1>4, <1>5, <1>6, <1>7 DEF EditProfile, CaseTypes, Commands
<1>12. FlagTypes'
  BY <1>3, <1>4, <1>5, <1>6, <1>7 DEF EditProfile, FlagTypes, EnvVars, CaseTypes
<1>13. CountTypes'
  BY <1>3, <1>4, <1>5, <1>6, <1>7, InstallAssumption DEF EditProfile, CaseTypes, CountTypes
<1>14. PlaceInv'
  BY <1>3, <1>4, <1>5, <1>6, <1>7 DEF EditProfile, CaseTypes, PlaceInv, Commands
<1>15. MintInv'
  BY <1>3, <1>4, <1>5, <1>6, <1>7 DEF EditProfile, FlagTypes, CaseTypes, CountTypes, PlaceInv, MintInv, Commands
<1>16. ProfileInv'
  BY <1>3, <1>4, <1>5, <1>6, <1>7 DEF EditProfile, PlaceInv, ProfileInv
<1>17. ProgressInv'
  BY <1>3, <1>4, <1>5, <1>6, <1>7 DEF EditProfile, FlagTypes, CaseTypes, PlaceInv, ProgressInv
<1>18. DoneInv'
  BY <1>3, <1>4, <1>5, <1>6, <1>7 DEF EditProfile, FlagTypes, CaseTypes, PlaceInv, ProgressInv, DoneInv
<1> QED
  BY <1>10, <1>11, <1>12, <1>13, <1>14, <1>15, <1>16, <1>17, <1>18 DEF PlainType

LEMMA StutterStep == IInv /\ UNCHANGED vars => IInv'
  BY DEF IInv, vars, profileVars, launchVars, trustVars, commandVars, TextType, PlainType,
         CaseTypes, FlagTypes, CountTypes, PlaceInv, MintInv, ProfileInv, ProgressInv, DoneInv

LEMMA InitHolds == Init => IInv
<1> SUFFICES ASSUME Init PROVE IInv
  OBVIOUS
<1>1. /\ profile \in Seq(Tokens) /\ draft \in Seq(Tokens) /\ Tidy(profile) /\ Tidy(draft)
  <2>1. << >> \in Seq(Tokens) /\ Tidy(<< >>)
    BY Fixed, FixedNoEnd, NoEndIsTidy
  <2>2. ASSUME NEW l \in Lines, profile \in {<<l>>, <<l, "nl">>}
        PROVE  /\ profile \in Seq(Tokens) /\ NoEnd(profile)
             <3>1. l \in Tokens /\ l # "end" /\ "nl" \in Tokens
      BY InstallAssumption DEF Tokens
    <3>2. CASE profile = <<l>>
      BY <3>1, <3>2 DEF NoEnd
    <3>3. CASE profile = <<l, "nl">>
      <4>1. /\ profile \in Seq(Tokens) /\ Len(profile) = 2
            /\ profile[1] = l /\ profile[2] = "nl"
        BY <3>1, <3>3
      <4> QED
        BY <3>1, <4>1 DEF NoEnd
    <3> QED
      BY <2>2, <3>2, <3>3
  <2>3. \/ profile = << >>
        \/ \E l \in Lines : profile \in {<<l>>, <<l, "nl">>}
    BY DEF Init
  <2> QED
    <3>1. profile \in Seq(Tokens) /\ Tidy(profile)
      <4>1. CASE profile = << >>
        BY <2>1, <4>1
      <4>2. CASE \E l \in Lines : profile \in {<<l>>, <<l, "nl">>}
        BY <2>2, <4>2, NoEndIsTidy
      <4> QED
        BY <2>3, <4>1, <4>2
    <3>2. draft = << >>
      BY DEF Init
    <3> QED
      BY <2>1, <3>1, <3>2
<1>2. lines \in Seq(Lines)
  <2>1. CASE profile = << >>
    BY <2>1 DEF Init
  <2>2. CASE \E l \in Lines : profile \in {<<l>>, <<l, "nl">>}
    <3>1. PICK l \in Lines : profile \in {<<l>>, <<l, "nl">>}
      BY <2>2
    <3>2. profile # << >> /\ profile[1] = l
      BY <3>1
    <3>3. lines = <<l>>
      BY <3>2 DEF Init
    <3> QED
      BY <3>3
  <2> QED
    BY <2>1, <2>2 DEF Init
<1>3. CaseTypes /\ FlagTypes /\ CountTypes
  <2>1. CaseTypes /\ FlagTypes
    <3>1. /\ env = {} /\ plist = FALSE /\ job = FALSE /\ marker = FALSE
          /\ issues = FALSE /\ lost = FALSE /\ slipped = FALSE
      BY DEF Init
    <3>2. command = "none" /\ at = 0 /\ outcome = "none" /\ daemon = "down"
      BY DEF Init
    <3>3. FlagTypes
      BY <3>1 DEF FlagTypes
    <3>4. CaseTypes
      BY <3>2 DEF CaseTypes
    <3> QED
      BY <3>3, <3>4
  <2>2. MaxCommands \in Nat /\ MaxFaults \in Nat
    BY InstallAssumption
  <2>3. minted = 0 /\ started = 0 /\ ca = 0 /\ faults = 0 /\ keychain = {}
    BY DEF Init
  <2>4. CountTypes
    BY <2>2, <2>3 DEF CountTypes
  <2> QED
    BY <2>1, <2>4
<1>4. PlaceInv /\ MintInv /\ ProfileInv /\ ProgressInv /\ DoneInv
  BY <1>1 DEF Init, PlaceInv, MintInv, ProfileInv, ProgressInv, DoneInv
<1> QED
  BY <1>1, <1>2, <1>3, <1>4 DEF IInv, TextType, PlainType

LEMMA Inductive == Spec => []IInv
<1>1. Init => IInv
  BY InitHolds
<1>2. IInv /\ [Next]_vars => IInv'
  BY StartStep, ReadStep, TruncateStep, WriteStep, WriteFailsStep, SetEnvStep, UnsetEnvStep,
     WritePlistStep, LoadDaemonStep, UnloadDaemonStep, RemovePlistStep, RemoveStateStep,
     ClearStep, TrustInstallStep, TrustRemoveStep, KeepAliveStep, LoadOrCreateStep, PauseStep,
     DiesStep, KillStep, RebootStep, EditStep, StutterStep DEF Next
<1> QED
  BY <1>1, <1>2, PTL DEF Spec

-------------------------------------------------------------------------------

(* Types, a process only under a loaded job, and never more CAs than commands
   that can account for them, whatever fails and however launchd restarts the
   daemon in between. *)
THEOREM TypeCorrect == Spec => []TypeOK
<1>1. IInv => TypeOK
  BY TypesInTwo DEF IInv
<1> QED
  BY <1>1, Inductive, PTL

(* An uninstall that reports success, and whose ignored steps did not fail, has
   removed everything, from whatever state earlier commands, kills, cut rewrites
   and reboots have left. *)
THEOREM UninstallRemovesAll == Spec => []UninstallIsComplete
<1>1. IInv => UninstallIsComplete
  <2>1. ASSUME TextType, NoEnd(profile) PROVE ~Fenced(profile)
    BY <2>1, NoEndIsTidy
  <2> QED
    BY <2>1 DEF IInv, DoneInv, UninstallIsComplete
<1> QED
  BY <1>1, Inductive, PTL

-------------------------------------------------------------------------------
(* The user's lines.                                                       *)

(* f witnesses that two texts have the same lines in the same order. *)
LineMap(f, text, other) ==
  /\ f \in [LinesAt(text) -> LinesAt(other)]
  /\ \A n \in LinesAt(other) : \E i \in LinesAt(text) : f[i] = n
  /\ \A i \in LinesAt(text) : other[f[i]] = text[i]
  /\ \A i, j \in LinesAt(text) : i < j => f[i] < f[j]

LEMMA Mapped ==
  ASSUME NEW s, NEW t
  PROVE  /\ SameLines(s, t) => \E f : LineMap(f, s, t)
         /\ \A f : LineMap(f, s, t) => SameLines(s, t)
  BY Zenon DEF SameLines, LineMap

LEMMA LinesAreTokens ==
  /\ Seq(Lines) \subseteq Seq(Tokens)
  /\ "begin" \notin Lines /\ "env" \notin Lines /\ "end" \notin Lines /\ "nl" \notin Lines
<1>1. Lines \subseteq Tokens
  BY DEF Tokens
<1>2. \A q \in Seq(Lines) : q \in Seq(Tokens)
  BY <1>1
<1> QED
  BY <1>2, InstallAssumption

(* The lines of a text moved by d places, without loss. *)
LEMMA Moved ==
  ASSUME NEW s, NEW t, NEW d \in Int, Len(s) \in Nat, Len(t) \in Nat,
         \A i \in LinesAt(s) : i + d \in LinesAt(t) /\ t[i + d] = s[i],
         \A n \in LinesAt(t) : n - d \in LinesAt(s)
  PROVE  SameLines(s, t)
<1> DEFINE f == [i \in LinesAt(s) |-> i + d]
<1>1. \A i \in LinesAt(s) : i \in Nat
  BY DEF LinesAt
<1>2. \A n \in LinesAt(t) : n \in Nat
  BY DEF LinesAt
<1>3. f \in [LinesAt(s) -> LinesAt(t)]
  OBVIOUS
<1>4. \A n \in LinesAt(t) : f[n - d] = n
  BY <1>2
<1>5. \A i, j \in LinesAt(s) : i < j => f[i] < f[j]
  BY <1>1
<1>6. \A i \in LinesAt(s) : t[f[i]] = s[i]
  OBVIOUS
<1>7. LineMap(f, s, t)
  BY <1>3, <1>4, <1>5, <1>6 DEF LineMap
<1> QED
  BY <1>7, Mapped

LEMMA SameAgain ==
  ASSUME NEW s, NEW t, NEW u, SameLines(s, t), SameLines(t, u)
  PROVE  SameLines(s, u)
<1>1. PICK f : LineMap(f, s, t)
  BY Mapped
<1>2. PICK g : LineMap(g, t, u)
  BY Mapped
<1> DEFINE h == [i \in LinesAt(s) |-> g[f[i]]]
<1>3. h \in [LinesAt(s) -> LinesAt(u)]
  BY <1>1, <1>2 DEF LineMap
<1>4. \A n \in LinesAt(u) : \E i \in LinesAt(s) : h[i] = n
  BY <1>1, <1>2 DEF LineMap
<1>5. \A i \in LinesAt(s) : u[h[i]] = s[i]
  BY <1>1, <1>2 DEF LineMap
<1>6. \A i, j \in LinesAt(s) : i < j => h[i] < h[j]
  BY <1>1, <1>2 DEF LineMap
<1>7. LineMap(h, s, u)
  BY <1>3, <1>4, <1>5, <1>6 DEF LineMap
<1> QED
  BY <1>7, Mapped

LEMMA SameAsItself ==
  ASSUME NEW s \in Seq(Tokens)
  PROVE  SameLines(s, s)
<1>1. Len(s) \in Nat /\ \A i \in LinesAt(s) : i \in Nat
  BY DEF LinesAt
<1> QED
  BY <1>1, Moved

(* The lines of a concatenation are those of its parts. *)
LEMMA LinesJoined ==
  ASSUME NEW s \in Seq(Tokens), NEW t \in Seq(Tokens)
  PROVE  /\ \A i \in LinesAt(s \o t) :
              \/ i <= Len(s) /\ i \in LinesAt(s) /\ (s \o t)[i] = s[i]
              \/ i > Len(s) /\ i - Len(s) \in LinesAt(t) /\ (s \o t)[i] = t[i - Len(s)]
         /\ \A i \in LinesAt(s) : i \in LinesAt(s \o t) /\ i \in 1 .. Len(s)
         /\ \A i \in LinesAt(t) : Len(s) + i \in LinesAt(s \o t) /\ i \in 1 .. Len(t)
<1>1. /\ Len(s \o t) = Len(s) + Len(t) /\ Len(s) \in Nat /\ Len(t) \in Nat
      /\ \A i \in 1 .. Len(s) : (s \o t)[i] = s[i]
      /\ \A i \in 1 .. Len(t) : (s \o t)[Len(s) + i] = t[i]
  BY Joined
<1> DEFINE u == s \o t
<1> HIDE DEF u
<1>2. ASSUME NEW i \in LinesAt(u)
      PROVE  \/ i <= Len(s) /\ i \in LinesAt(s) /\ u[i] = s[i]
             \/ i > Len(s) /\ i - Len(s) \in LinesAt(t) /\ u[i] = t[i - Len(s)]
  <2>1. i \in 1 .. Len(s) + Len(t) /\ u[i] \in Lines
    BY <1>1 DEF u, LinesAt
  <2>2. CASE i <= Len(s)
    BY <1>1, <2>1, <2>2 DEF u, LinesAt
  <2>3. CASE i > Len(s)
    <3>1. i - Len(s) \in 1 .. Len(t) /\ i = Len(s) + (i - Len(s))
      BY <1>1, <2>1, <2>3
    <3>2. u[i] = t[i - Len(s)]
      BY <1>1, <3>1 DEF u
    <3> QED
      BY <2>1, <2>3, <3>1, <3>2 DEF LinesAt
  <2> QED
    BY <1>1, <2>1, <2>2, <2>3
<1>3. \A i \in LinesAt(s) : i \in LinesAt(u) /\ i \in 1 .. Len(s)
  BY <1>1 DEF u, LinesAt
<1>4. \A i \in LinesAt(t) : Len(s) + i \in LinesAt(u) /\ i \in 1 .. Len(t)
  BY <1>1 DEF u, LinesAt
<1> QED
  BY <1>2, <1>3, <1>4 DEF u

LEMMA SameJoined ==
  ASSUME NEW a \in Seq(Tokens), NEW b \in Seq(Tokens), NEW c \in Seq(Tokens),
         NEW d \in Seq(Tokens), SameLines(a, c), SameLines(b, d)
  PROVE  SameLines(a \o b, c \o d)
<1> DEFINE u == a \o b
           v == c \o d
<1>1. PICK f : LineMap(f, a, c)
  BY Mapped
<1>2. PICK g : LineMap(g, b, d)
  BY Mapped
<1>0. Len(a) \in Nat /\ Len(c) \in Nat
  OBVIOUS
<1>3. /\ \A i \in LinesAt(u) :
           \/ i <= Len(a) /\ i \in LinesAt(a) /\ u[i] = a[i]
           \/ i > Len(a) /\ i - Len(a) \in LinesAt(b) /\ u[i] = b[i - Len(a)]
      /\ \A i \in LinesAt(a) : i \in LinesAt(u) /\ i \in 1 .. Len(a)
      /\ \A i \in LinesAt(b) : Len(a) + i \in LinesAt(u) /\ i \in 1 .. Len(b)
  BY LinesJoined
<1>4. /\ \A i \in LinesAt(v) :
           \/ i <= Len(c) /\ i \in LinesAt(c) /\ v[i] = c[i]
           \/ i > Len(c) /\ i - Len(c) \in LinesAt(d) /\ v[i] = d[i - Len(c)]
      /\ \A i \in LinesAt(c) : i \in LinesAt(v) /\ i \in 1 .. Len(c)
      /\ \A i \in LinesAt(d) : Len(c) + i \in LinesAt(v) /\ i \in 1 .. Len(d)
  BY LinesJoined
<1>5. /\ \A n \in LinesAt(c) : v[n] = c[n]
      /\ \A n \in LinesAt(d) : v[Len(c) + n] = d[n]
  <2>1. /\ \A i \in 1 .. Len(c) : v[i] = c[i]
        /\ \A i \in 1 .. Len(d) : v[Len(c) + i] = d[i]
    BY Joined
  <2> QED
    BY <1>4, <2>1
<1>6. \A i \in LinesAt(u) : i \in Nat
  BY DEF LinesAt
<1>7. \A n \in LinesAt(v) : n \in Nat
  BY DEF LinesAt
<1> DEFINE h == [i \in LinesAt(u) |-> IF i <= Len(a) THEN f[i] ELSE Len(c) + g[i - Len(a)]]
<1> HIDE DEF u, v
<1>10. ASSUME NEW i \in LinesAt(u), i <= Len(a)
       PROVE  i \in LinesAt(a) /\ u[i] = a[i] /\ h[i] = f[i] /\ h[i] \in LinesAt(c)
  BY <1>0, <1>1, <1>3, <1>6, <1>10 DEF LineMap
<1>11. ASSUME NEW i \in LinesAt(u), i > Len(a)
       PROVE  /\ i - Len(a) \in LinesAt(b) /\ u[i] = b[i - Len(a)]
              /\ h[i] = Len(c) + g[i - Len(a)] /\ g[i - Len(a)] \in LinesAt(d)
  BY <1>0, <1>2, <1>3, <1>6, <1>11 DEF LineMap
<1>12. \A i \in LinesAt(u) : i <= Len(a) \/ i > Len(a)
  BY <1>0, <1>3, <1>6
<1> HIDE DEF h
<1>13. \A i \in LinesAt(u) : h[i] \in LinesAt(v)
  BY <1>4, <1>10, <1>11, <1>12
<1>14. \A i \in LinesAt(u) : v[h[i]] = u[i]
  <2> SUFFICES ASSUME NEW i \in LinesAt(u) PROVE v[h[i]] = u[i]
    OBVIOUS
  <2>1. CASE i <= Len(a)
    BY <1>1, <1>5, <1>10, <2>1 DEF LineMap
  <2>2. CASE i > Len(a)
    BY <1>2, <1>5, <1>11, <2>2 DEF LineMap
  <2> QED
    BY <1>12, <2>1, <2>2
<1>15. \A n \in LinesAt(v) : \E i \in LinesAt(u) : h[i] = n
  <2> SUFFICES ASSUME NEW n \in LinesAt(v) PROVE \E i \in LinesAt(u) : h[i] = n
    OBVIOUS
  <2>1. CASE n \in LinesAt(c)
    <3>1. PICK i \in LinesAt(a) : f[i] = n
      BY <1>1, <2>1 DEF LineMap
    <3>2. i \in LinesAt(u) /\ i <= Len(a)
      BY <1>0, <1>3, <3>1
    <3> QED
      BY <1>10, <3>1, <3>2
  <2>2. CASE n > Len(c) /\ n - Len(c) \in LinesAt(d)
    <3>1. PICK i \in LinesAt(b) : g[i] = n - Len(c)
      BY <1>2, <2>2 DEF LineMap
    <3>2. Len(a) + i \in LinesAt(u) /\ i \in Nat /\ i > 0
      BY <1>3, <3>1
    <3>3. Len(a) + i > Len(a) /\ (Len(a) + i) - Len(a) = i
      BY <1>0, <1>3, <3>2
    <3>4. h[Len(a) + i] = Len(c) + g[i]
      BY <1>11, <3>2, <3>3
    <3>5. Len(c) + (n - Len(c)) = n
      BY <1>0, <1>7
    <3> QED
      BY <3>1, <3>2, <3>4, <3>5
  <2> QED
    BY <1>4, <2>1, <2>2
<1>16. \A i, j \in LinesAt(u) : i < j => h[i] < h[j]
  <2> SUFFICES ASSUME NEW i \in LinesAt(u), NEW j \in LinesAt(u), i < j PROVE h[i] < h[j]
    OBVIOUS
  <2>0. i \in Nat /\ j \in Nat /\ Len(a) \in Nat /\ Len(c) \in Nat
    BY <1>0, <1>3, <1>6
  <2>1. CASE j <= Len(a)
    <3>1. i <= Len(a)
      BY <2>0, <2>1
    <3> QED
      BY <1>1, <1>10, <2>1, <3>1 DEF LineMap
  <2>2. CASE i > Len(a)
    <3>1. j > Len(a) /\ i - Len(a) < j - Len(a)
      BY <2>0, <2>2
    <3>2. g[i - Len(a)] < g[j - Len(a)]
      BY <1>2, <1>11, <2>2, <3>1 DEF LineMap
    <3>3. /\ g[i - Len(a)] \in Nat /\ g[j - Len(a)] \in Nat
          /\ h[i] = Len(c) + g[i - Len(a)] /\ h[j] = Len(c) + g[j - Len(a)]
      BY <1>4, <1>11, <2>2, <3>1
    <3> QED
      BY <2>0, <3>2, <3>3
  <2>3. CASE i <= Len(a) /\ j > Len(a)
    <3>1. h[i] \in 1 .. Len(c)
      BY <1>4, <1>10, <2>3
    <3>2. h[j] = Len(c) + g[j - Len(a)] /\ g[j - Len(a)] \in Nat /\ g[j - Len(a)] > 0
      BY <1>4, <1>11, <2>3
    <3> QED
      BY <2>0, <3>1, <3>2
  <2> QED
    BY <2>0, <2>1, <2>2, <2>3
<1>17. h \in [LinesAt(u) -> LinesAt(v)]
  BY <1>13 DEF h
<1>18. LineMap(h, u, v)
  BY <1>14, <1>15, <1>16, <1>17 DEF LineMap
<1> QED
  BY <1>18, Mapped DEF u, v

(* A text without lines of the user's, before or after, changes none. *)
LEMMA SameExtended ==
  ASSUME NEW s \in Seq(Tokens), NEW t \in Seq(Tokens), LinesAt(t) = {}
  PROVE  SameLines(s, s \o t) /\ SameLines(s \o t, s)
<1> DEFINE u == s \o t
<1>1. /\ \A i \in LinesAt(u) : i \in LinesAt(s) /\ u[i] = s[i]
      /\ \A i \in LinesAt(s) : i \in LinesAt(u)
  BY LinesJoined
<1>2. Len(s) \in Nat /\ Len(u) \in Nat
  BY Joined
<1>3. /\ \A i \in LinesAt(s) : i + 0 = i
      /\ \A i \in LinesAt(u) : i + 0 = i /\ i - 0 = i
      /\ \A i \in LinesAt(s) : i - 0 = i
  BY DEF LinesAt
<1> HIDE DEF u
<1>4. SameLines(s, u)
  BY <1>1, <1>2, <1>3, Moved
<1>5. SameLines(u, s)
  BY <1>1, <1>2, <1>3, Moved
<1> QED
  BY <1>4, <1>5 DEF u

(* The lines of a slice are those of the text between its ends. *)
LEMMA SameSlice ==
  ASSUME NEW s \in Seq(Tokens), NEW m \in 1 .. Len(s) + 1, NEW n \in m - 1 .. Len(s),
         \A i \in LinesAt(s) : m <= i /\ i <= n
  PROVE  SameLines(s, SubSeq(s, m, n))
<1> DEFINE u == SubSeq(s, m, n)
<1>1. /\ u \in Seq(Tokens) /\ Len(u) = n - m + 1
      /\ \A i \in 1 .. n - m + 1 : u[i] = s[m + i - 1]
  BY Slice
<1> HIDE DEF u
<1>2. Len(s) \in Nat /\ m \in Nat /\ n \in Int /\ Len(u) \in Nat
  BY <1>1
<1> DEFINE d == 1 - m
<1>3. ASSUME NEW i \in LinesAt(s)
      PROVE  i + d \in LinesAt(u) /\ u[i + d] = s[i]
  <2>1. i \in 1 .. Len(s) /\ s[i] \in Lines /\ m <= i /\ i <= n
    BY DEF LinesAt
  <2>2. i + d \in 1 .. n - m + 1 /\ m + (i + d) - 1 = i
    BY <1>2, <2>1
  <2>3. u[i + d] = s[i]
    BY <1>1, <2>2
  <2> QED
    BY <1>1, <2>1, <2>2, <2>3 DEF LinesAt
<1>4. ASSUME NEW i \in LinesAt(u)
      PROVE  i - d \in LinesAt(s)
  <2>1. i \in 1 .. n - m + 1 /\ u[i] \in Lines
    BY <1>1 DEF LinesAt
  <2>2. i - d \in 1 .. Len(s) /\ m + i - 1 = i - d
    BY <1>2, <2>1
  <2>3. s[i - d] \in Lines
    BY <1>1, <2>1, <2>2
  <2> QED
    BY <2>2, <2>3 DEF LinesAt
<1>5. d \in Int
  BY <1>2
<1> HIDE DEF d
<1>6. SameLines(s, u)
  BY <1>2, <1>3, <1>4, <1>5, Moved
<1> QED
  BY <1>6 DEF u

(* What is left of a text when its places from b to e, without lines, are cut. *)
LEMMA SameCut ==
  ASSUME NEW s \in Seq(Tokens), NEW b \in 1 .. Len(s), NEW e \in b .. Len(s),
         \A i \in b .. e : s[i] \notin Lines
  PROVE  SameLines(s, SubSeq(s, 1, b - 1) \o SubSeq(s, e + 1, Len(s)))
<1> DEFINE p == SubSeq(s, 1, b - 1)
           q == SubSeq(s, e + 1, Len(s))
           u == p \o q
           gap == e - b + 1
<1>1. Len(s) \in Nat /\ b \in Nat /\ e \in Nat /\ gap \in Nat
  OBVIOUS
<1>2. /\ p \in Seq(Tokens) /\ Len(p) = b - 1
      /\ \A i \in 1 .. b - 1 : p[i] = s[i]
  BY Slice
<1>3. /\ q \in Seq(Tokens) /\ Len(q) = Len(s) - e
      /\ \A i \in 1 .. Len(s) - e : q[i] = s[e + i]
  <2>1. e + 1 \in 1 .. Len(s) + 1 /\ Len(s) \in (e + 1) - 1 .. Len(s)
    BY <1>1
  <2>2. /\ q \in Seq(Tokens) /\ Len(q) = Len(s) - (e + 1) + 1
        /\ \A i \in 1 .. Len(s) - (e + 1) + 1 : q[i] = s[(e + 1) + i - 1]
    BY <2>1, Slice
  <2>3. Len(s) - (e + 1) + 1 = Len(s) - e
    BY <1>1
  <2>4. \A i \in 1 .. Len(s) - e : (e + 1) + i - 1 = e + i
    BY <1>1
  <2> QED
    BY <2>2, <2>3, <2>4
<1> HIDE DEF p, q
<1>4. /\ Len(u) = (b - 1) + (Len(s) - e)
      /\ \A i \in 1 .. b - 1 : u[i] = s[i]
      /\ \A i \in 1 .. Len(s) - e : u[b - 1 + i] = s[e + i]
  <2>1. /\ Len(u) = Len(p) + Len(q)
        /\ \A i \in 1 .. Len(p) : u[i] = p[i]
        /\ \A i \in 1 .. Len(q) : u[Len(p) + i] = q[i]
    <3>1. p \in Seq(Tokens) /\ q \in Seq(Tokens)
      BY <1>2, <1>3
    <3> QED
      BY <3>1, Joined
  <2> HIDE DEF u
  <2> QED
    BY <1>2, <1>3, <2>1
<1> HIDE DEF u
<1>5. \A i \in LinesAt(s) : i \in 1 .. Len(s) /\ s[i] \in Lines /\ (i < b \/ i > e)
  BY <1>1 DEF LinesAt
<1>6. ASSUME NEW i \in LinesAt(s), i < b
      PROVE  i \in LinesAt(u) /\ u[i] = s[i]
  <2>1. i \in 1 .. Len(s) /\ s[i] \in Lines
    BY <1>5
  <2>2. i \in 1 .. b - 1 /\ i \in 1 .. Len(u)
    BY <1>1, <1>4, <1>6, <2>1
  <2> QED
    BY <1>4, <2>1, <2>2 DEF LinesAt
<1>7. ASSUME NEW i \in LinesAt(s), i > e
      PROVE  i - gap \in LinesAt(u) /\ u[i - gap] = s[i]
  <2>0. i \in 1 .. Len(s)
    BY <1>5
  <2>1. i - e \in 1 .. Len(s) - e /\ b - 1 + (i - e) = i - gap /\ e + (i - e) = i
    BY <1>1, <1>7, <2>0
  <2>2. u[i - gap] = s[i]
    BY <1>4, <2>1
  <2>3. i - gap \in 1 .. Len(u)
    BY <1>1, <1>4, <1>5, <1>7
  <2> QED
    BY <1>5, <2>2, <2>3 DEF LinesAt
<1>8. ASSUME NEW n \in LinesAt(u)
      PROVE  \/ n < b /\ n \in LinesAt(s)
             \/ n >= b /\ n + gap \in LinesAt(s) /\ n + gap > e
  <2>1. n \in 1 .. Len(u) /\ u[n] \in Lines
    BY DEF LinesAt
  <2>2. CASE n < b
    <3>1. n \in 1 .. b - 1 /\ n \in 1 .. Len(s)
      BY <1>1, <1>4, <2>1, <2>2
    <3>2. s[n] \in Lines
      BY <1>4, <2>1, <3>1
    <3> QED
      BY <2>2, <3>1, <3>2 DEF LinesAt
  <2>3. CASE n >= b
    <3>1. /\ n - b + 1 \in 1 .. Len(s) - e
          /\ b - 1 + (n - b + 1) = n /\ e + (n - b + 1) = n + gap
      BY <1>1, <1>4, <2>1, <2>3
    <3>2. u[n] = s[n + gap]
      BY <1>4, <3>1
    <3>3. n + gap \in 1 .. Len(s) /\ n + gap > e
      BY <1>1, <1>4, <2>1, <2>3
    <3> QED
      BY <2>1, <2>3, <3>2, <3>3 DEF LinesAt
  <2> QED
    BY <1>1, <2>1, <2>2, <2>3
<1> DEFINE f == [i \in LinesAt(s) |-> IF i < b THEN i ELSE i - gap]
<1>9. \A i \in LinesAt(s) :
        /\ i < b => f[i] = i
        /\ i > e => f[i] = i - gap
  BY <1>1, <1>5
<1>10. f \in [LinesAt(s) -> LinesAt(u)]
  <2>1. \A i \in LinesAt(s) : f[i] \in LinesAt(u)
    <3> HIDE DEF f, gap
    <3> QED
      BY <1>5, <1>6, <1>7, <1>9
  <2> QED
    BY <2>1
<1> HIDE DEF f
<1>11. \A i \in LinesAt(s) : u[f[i]] = s[i]
  <2> HIDE DEF gap
  <2> QED
    BY <1>5, <1>6, <1>7, <1>9
<1>12. \A n \in LinesAt(u) : \E i \in LinesAt(s) : f[i] = n
  <2> SUFFICES ASSUME NEW n \in LinesAt(u) PROVE \E i \in LinesAt(s) : f[i] = n
    OBVIOUS
  <2>1. CASE n < b /\ n \in LinesAt(s)
    BY <1>9, <2>1
  <2>2. CASE n + gap \in LinesAt(s) /\ n + gap > e
    <3>1. f[n + gap] = (n + gap) - gap
      BY <1>9, <2>2
    <3>2. n \in Nat
      BY DEF LinesAt
    <3>3. (n + gap) - gap = n
      BY <1>1, <3>2
    <3> QED
      BY <2>2, <3>1, <3>3
  <2> QED
    BY <1>8, <2>1, <2>2
<1>13. \A i, j \in LinesAt(s) : i < j => f[i] < f[j]
  <2> SUFFICES ASSUME NEW i \in LinesAt(s), NEW j \in LinesAt(s), i < j PROVE f[i] < f[j]
    OBVIOUS
  <2>1. i \in Nat /\ j \in Nat /\ (i < b \/ i > e) /\ (j < b \/ j > e)
    BY <1>5
  <2> QED
    BY <1>1, <1>9, <2>1
<1>14. LineMap(f, s, u)
  BY <1>10, <1>11, <1>12, <1>13 DEF LineMap
<1> QED
  BY <1>14, Mapped DEF u, p, q

(* Trimming removes newlines only. *)
LEMMA SameTrimmed ==
  ASSUME NEW s \in Seq(Tokens)
  PROVE  SameLines(s, TrimRight(s)) /\ SameLines(s, TrimLeft(s))
<1>0. Len(s) \in Nat /\ Words(s) \subseteq 1 .. Len(s) /\ LinesAt(s) \subseteq Words(s)
  BY LinesAreTokens DEF Words, LinesAt
<1> DEFINE n == IF Words(s) = {} THEN 0
                ELSE CHOOSE i \in Words(s) : \A j \in Words(s) : j <= i
<1>1. n \in 0 .. Len(s) /\ \A j \in Words(s) : j <= n
  <2>1. CASE Words(s) = {}
    BY <1>0, <2>1
  <2>2. CASE Words(s) # {}
    <3>1. \E i \in Words(s) : \A j \in Words(s) : j <= i
      BY <1>0, <2>2, GreatestOf
    <3>2. n \in Words(s) /\ \A j \in Words(s) : j <= n
      BY <2>2, <3>1
    <3>3. n \in 1 .. Len(s)
      BY <1>0, <3>2
    <3> HIDE DEF n
    <3> QED
      BY <1>0, <3>2, <3>3
  <2> QED
    BY <2>1, <2>2
<1>2. TrimRight(s) = SubSeq(s, 1, n)
  BY DEF TrimRight
<1> HIDE DEF n
<1>3. \A i \in LinesAt(s) : 1 <= i /\ i <= n
  BY <1>0, <1>1
<1>4. SameLines(s, SubSeq(s, 1, n))
  <2>1. 1 \in 1 .. Len(s) + 1 /\ n \in 1 - 1 .. Len(s)
    BY <1>0, <1>1
  <2> QED
    BY <1>3, <2>1, SameSlice
<1> DEFINE m == IF Words(s) = {} THEN Len(s) + 1 ELSE Least(Words(s))
<1>5. m \in 1 .. Len(s) + 1 /\ \A j \in Words(s) : m <= j
  <2>1. CASE Words(s) = {}
    BY <1>0, <2>1
  <2>2. CASE Words(s) # {}
    <3>1. Words(s) \subseteq Nat
      BY <1>0
    <3>2. Least(Words(s)) \in Words(s) /\ \A j \in Words(s) : Least(Words(s)) <= j
      BY <2>2, <3>1, LeastOf
    <3> QED
      BY <1>0, <2>2, <3>2
  <2> QED
    BY <2>1, <2>2
<1>6. TrimLeft(s) = SubSeq(s, m, Len(s))
  BY DEF TrimLeft
<1> HIDE DEF m
<1>7. \A i \in LinesAt(s) : m <= i /\ i <= Len(s)
  BY <1>0, <1>5
<1>8. SameLines(s, SubSeq(s, m, Len(s)))
  <2>1. Len(s) \in m - 1 .. Len(s)
    BY <1>0, <1>5
  <2> QED
    BY <1>5, <1>7, <2>1, SameSlice
<1> QED
  BY <1>2, <1>4, <1>6, <1>8

(***************************************************************************)
(* The managed block.                                                      *)
(***************************************************************************)

NoMark(text) == \A i \in 1 .. Len(text) : text[i] \notin {"begin", "end"}

LEMMA NoMarkSlice ==
  ASSUME NEW s \in Seq(Tokens), NEW m \in 1 .. Len(s) + 1, NEW n \in m - 1 .. Len(s),
         \A i \in m .. n : s[i] \notin {"begin", "end"}
  PROVE  NoMark(SubSeq(s, m, n))
  BY Slice DEF NoMark

LEMMA NoMarkJoined ==
  ASSUME NEW s \in Seq(Tokens), NEW t \in Seq(Tokens), NoMark(s), NoMark(t)
  PROVE  s \o t \in Seq(Tokens) /\ NoMark(s \o t)
<1>1. ASSUME NEW i \in 1 .. Len(s) + Len(t) PROVE (s \o t)[i] \notin {"begin", "end"}
  <2>1. CASE i <= Len(s)
    BY <2>1, Joined DEF NoMark
  <2>2. CASE i > Len(s)
    <3>1. i - Len(s) \in 1 .. Len(t) /\ i = Len(s) + (i - Len(s))
      BY <2>2
    <3> QED
      BY <3>1, Joined DEF NoMark
  <2> QED
    BY <2>1, <2>2
<1> QED
  BY <1>1, Joined DEF NoMark

LEMMA FixedPlain ==
  /\ NoMark(NL) /\ NoMark(<< >>)
  /\ LinesAt(NL) = {} /\ LinesAt(<< >>) = {} /\ LinesAt(Block) = {}
<1>1. NoMark(NL) /\ NoMark(<< >>) /\ LinesAt(NL) = {} /\ LinesAt(<< >>) = {}
  BY Fixed, LinesAreTokens DEF NoMark, LinesAt
<1>2. ASSUME NEW i \in 1 .. 6 PROVE Block[i] \notin Lines
  <2>1. i \in {1, 2, 3, 4, 5, 6}
    OBVIOUS
  <2> QED
    BY <2>1, Fixed, LinesAreTokens
<1> QED
  BY <1>1, <1>2, Fixed DEF LinesAt

LEMMA NoMarkTrimmed ==
  ASSUME NEW s \in Seq(Tokens), NoMark(s)
  PROVE  /\ TrimRight(s) \in Seq(Tokens) /\ NoMark(TrimRight(s))
         /\ TrimLeft(s) \in Seq(Tokens) /\ NoMark(TrimLeft(s))
<1>0. Len(s) \in Nat /\ Words(s) \subseteq 1 .. Len(s)
  BY DEF Words
<1> DEFINE n == IF Words(s) = {} THEN 0
                ELSE CHOOSE i \in Words(s) : \A j \in Words(s) : j <= i
<1>1. n \in 0 .. Len(s)
  <2>1. CASE Words(s) # {}
    <3>1. \E i \in Words(s) : \A j \in Words(s) : j <= i
      BY <1>0, <2>1, GreatestOf
    <3>2. n \in Words(s)
      BY <2>1, <3>1
    <3>3. n \in 1 .. Len(s)
      BY <1>0, <3>2
    <3> QED
      BY <1>0, <3>3
  <2> QED
    BY <1>0, <2>1
<1> DEFINE m == IF Words(s) = {} THEN Len(s) + 1 ELSE Least(Words(s))
<1>2. m \in 1 .. Len(s) + 1
  <2>1. CASE Words(s) # {}
    <3>1. Words(s) \subseteq Nat
      BY <1>0
    <3>2. Least(Words(s)) \in Words(s)
      BY <2>1, <3>1, LeastOf
    <3> QED
      BY <1>0, <2>1, <3>2
  <2> QED
    BY <1>0, <2>1
<1>3. TrimRight(s) = SubSeq(s, 1, n) /\ TrimLeft(s) = SubSeq(s, m, Len(s))
  BY DEF TrimRight, TrimLeft
<1> HIDE DEF n, m
<1>4. /\ \A i \in 1 .. n : s[i] \notin {"begin", "end"}
      /\ \A i \in m .. Len(s) : s[i] \notin {"begin", "end"}
  BY <1>0, <1>1, <1>2 DEF NoMark
<1>5. 1 \in 1 .. Len(s) + 1 /\ n \in 1 - 1 .. Len(s) /\ Len(s) \in m - 1 .. Len(s)
  BY <1>0, <1>1, <1>2
<1>6. SubSeq(s, 1, n) \in Seq(Tokens) /\ NoMark(SubSeq(s, 1, n))
  BY <1>4, <1>5, Slice, NoMarkSlice
<1>7. SubSeq(s, m, Len(s)) \in Seq(Tokens) /\ NoMark(SubSeq(s, m, Len(s)))
  BY <1>2, <1>4, <1>5, Slice, NoMarkSlice
<1> QED
  BY <1>3, <1>6, <1>7

(* stripBlock takes the block and nothing else. *)
LEMMA StripKeepsLines ==
  ASSUME NEW s \in Seq(Tokens), OneBlock(s)
  PROVE  /\ StripBlock(s) \in Seq(Tokens) /\ NoMark(StripBlock(s))
         /\ SameLines(s, StripBlock(s))
<1>1. CASE Places(s, "begin") = {} /\ Places(s, "end") = {}
  <2>1. StripBlock(s) = s
    BY <1>1 DEF StripBlock, Fenced
  <2>2. NoMark(s)
    BY <1>1 DEF NoMark, Places
  <2> QED
    BY <2>1, <2>2, SameAsItself
<1>2. CASE \E b, e \in 1 .. Len(s) :
             /\ b < e /\ Places(s, "begin") = {b} /\ Places(s, "end") = {e}
             /\ \A i \in b .. e : s[i] \notin Lines
  <2>1. PICK b \in 1 .. Len(s), e \in 1 .. Len(s) :
             /\ b < e /\ Places(s, "begin") = {b} /\ Places(s, "end") = {e}
             /\ \A i \in b .. e : s[i] \notin Lines
    BY <1>2
  <2>2. Len(s) \in Nat /\ b \in Nat /\ e \in Nat /\ e \in b .. Len(s)
    BY <2>1
  <2>3. Least({b}) = b /\ Least({e}) = e
    BY <2>2 DEF Least
  <2>4. Fenced(s)
    BY <2>1, <2>3 DEF Fenced
  <2> DEFINE p == SubSeq(s, 1, b - 1)
             q == SubSeq(s, e + 1, Len(s))
             pp == TrimRight(p)
             qq == TrimLeft(q)
             gap == IF pp # << >> /\ qq # << >> THEN NL ELSE << >>
  <2>5. Before(s) = pp /\ After(s) = qq
    BY <2>1, <2>3 DEF Before, After
  <2>6. SameLines(s, p \o q)
    BY <2>1, <2>2, SameCut
  <2>7. /\ 1 \in 1 .. Len(s) + 1 /\ b - 1 \in 1 - 1 .. Len(s)
        /\ e + 1 \in 1 .. Len(s) + 1 /\ Len(s) \in (e + 1) - 1 .. Len(s)
    BY <2>2
  <2>8. ASSUME NEW i \in 1 .. Len(s), i # b, i # e PROVE s[i] \notin {"begin", "end"}
    BY <2>1, <2>8 DEF Places
  <2>9. /\ \A i \in 1 .. b - 1 : s[i] \notin {"begin", "end"}
        /\ \A i \in e + 1 .. Len(s) : s[i] \notin {"begin", "end"}
    <3>1. \A i \in 1 .. b - 1 : i \in 1 .. Len(s) /\ i # b /\ i # e
      BY <2>1, <2>2
    <3>2. \A i \in e + 1 .. Len(s) : i \in 1 .. Len(s) /\ i # b /\ i # e
      BY <2>1, <2>2
    <3> QED
      BY <2>8, <3>1, <3>2
  <2>10. /\ p \in Seq(Tokens) /\ NoMark(p)
         /\ q \in Seq(Tokens) /\ NoMark(q)
    BY <2>7, <2>9, Slice, NoMarkSlice
  <2> HIDE DEF p, q
  <2>11. /\ pp \in Seq(Tokens) /\ NoMark(pp) /\ SameLines(p, pp)
         /\ qq \in Seq(Tokens) /\ NoMark(qq) /\ SameLines(q, qq)
    BY <2>10, NoMarkTrimmed, SameTrimmed
  <2>12. gap \in Seq(Tokens) /\ NoMark(gap) /\ LinesAt(gap) = {}
    BY Fixed, FixedPlain
  <2>13. StripBlock(s) = IF pp = << >> /\ qq = << >> THEN << >> ELSE pp \o gap \o qq \o NL
    BY <2>4, <2>5 DEF StripBlock
  <2> HIDE DEF pp, qq
  <2>14. SameLines(s, pp \o qq)
    <3>1. SameLines(p \o q, pp \o qq)
      BY <2>10, <2>11, SameJoined
    <3> QED
      BY <2>6, <3>1, SameAgain
  <2>15. CASE pp = << >> /\ qq = << >>
    <3>1. pp \o qq = << >> /\ StripBlock(s) = << >>
      BY <2>13, <2>15
    <3> QED
      BY <2>14, <3>1, Fixed, FixedPlain
  <2>16. CASE ~(pp = << >> /\ qq = << >>)
    <3> HIDE DEF gap
    <3>1. /\ pp \o gap \in Seq(Tokens) /\ NoMark(pp \o gap)
          /\ SameLines(pp, pp \o gap)
      BY <2>11, <2>12, NoMarkJoined, SameExtended
    <3>2. SameLines(qq, qq)
      BY <2>11, SameAsItself
    <3>3. /\ pp \o gap \o qq \in Seq(Tokens) /\ NoMark(pp \o gap \o qq)
          /\ SameLines(pp \o qq, pp \o gap \o qq)
      BY <2>11, <3>1, <3>2, NoMarkJoined, SameJoined
    <3>4. /\ pp \o gap \o qq \o NL \in Seq(Tokens) /\ NoMark(pp \o gap \o qq \o NL)
          /\ SameLines(pp \o gap \o qq, pp \o gap \o qq \o NL)
      BY <3>3, Fixed, FixedPlain, NoMarkJoined, SameExtended
    <3>5. SameLines(s, pp \o gap \o qq)
      BY <2>14, <3>3, SameAgain
    <3>6. SameLines(s, pp \o gap \o qq \o NL)
      BY <3>4, <3>5, SameAgain
    <3> QED
      BY <2>13, <2>16, <3>4, <3>6
  <2> QED
    BY <2>15, <2>16
<1> QED
  BY <1>1, <1>2 DEF OneBlock

(* Lines around a block leave it one block. *)
LEMMA OneBlockAfter ==
  ASSUME NEW s \in Seq(Tokens), NEW t \in Seq(Tokens), NoMark(s), OneBlock(t)
  PROVE  OneBlock(s \o t)
<1> DEFINE u == s \o t
<1>1. /\ Len(u) = Len(s) + Len(t) /\ Len(s) \in Nat /\ Len(t) \in Nat
      /\ \A i \in 1 .. Len(s) : u[i] = s[i]
      /\ \A i \in 1 .. Len(t) : u[Len(s) + i] = t[i]
  BY Joined
<1> HIDE DEF u
<1>2. ASSUME NEW i \in 1 .. Len(u)
      PROVE  \/ u[i] \notin {"begin", "end"}
             \/ i > Len(s) /\ i - Len(s) \in 1 .. Len(t) /\ u[i] = t[i - Len(s)]
  <2>1. CASE i <= Len(s)
    BY <1>1, <2>1 DEF NoMark
  <2>2. CASE i > Len(s)
    <3>1. i - Len(s) \in 1 .. Len(t) /\ i = Len(s) + (i - Len(s))
      BY <1>1, <2>2
    <3> QED
      BY <1>1, <2>2, <3>1
  <2> QED
    BY <1>1, <2>1, <2>2
<1>3. CASE Places(t, "begin") = {} /\ Places(t, "end") = {}
  <2>1. Places(u, "begin") = {} /\ Places(u, "end") = {}
    BY <1>2, <1>3 DEF Places
  <2> QED
    BY <2>1 DEF OneBlock, u
<1>4. CASE \E b, e \in 1 .. Len(t) :
             /\ b < e /\ Places(t, "begin") = {b} /\ Places(t, "end") = {e}
             /\ \A i \in b .. e : t[i] \notin Lines
  <2>1. PICK b \in 1 .. Len(t), e \in 1 .. Len(t) :
             /\ b < e /\ Places(t, "begin") = {b} /\ Places(t, "end") = {e}
             /\ \A i \in b .. e : t[i] \notin Lines
    BY <1>4
  <2>2. t[b] = "begin" /\ t[e] = "end"
    BY <2>1 DEF Places
  <2>3. /\ Len(s) + b \in 1 .. Len(u) /\ Len(s) + e \in 1 .. Len(u) /\ Len(s) + b < Len(s) + e
        /\ u[Len(s) + b] = "begin" /\ u[Len(s) + e] = "end"
    BY <1>1, <2>1, <2>2
  <2>4. ASSUME NEW i \in 1 .. Len(u)
        PROVE  /\ u[i] = "begin" => i = Len(s) + b
               /\ u[i] = "end" => i = Len(s) + e
    <3>1. u[i] = "begin" => i - Len(s) \in {b}
      BY <1>2, <2>1 DEF Places
    <3>2. u[i] = "end" => i - Len(s) \in {e}
      BY <1>2, <2>1 DEF Places
    <3> QED
      BY <1>1, <3>1, <3>2
  <2>5. Places(u, "begin") = {Len(s) + b} /\ Places(u, "end") = {Len(s) + e}
    BY <2>3, <2>4 DEF Places
  <2>6. ASSUME NEW i \in Len(s) + b .. Len(s) + e PROVE u[i] \notin Lines
    <3>1. /\ i - Len(s) \in b .. e /\ i - Len(s) \in 1 .. Len(t)
          /\ i = Len(s) + (i - Len(s))
      BY <1>1, <2>1
    <3>2. u[i] = t[i - Len(s)]
      BY <1>1, <3>1
    <3> QED
      BY <2>1, <3>1, <3>2
  <2>7. OneBlock(u)
    BY <2>3, <2>5, <2>6 DEF OneBlock
  <2> QED
    BY <2>7 DEF u
<1> QED
  BY <1>3, <1>4 DEF OneBlock

LEMMA OneBlockBefore ==
  ASSUME NEW s \in Seq(Tokens), NEW t \in Seq(Tokens), OneBlock(s), NoMark(t)
  PROVE  OneBlock(s \o t)
<1> DEFINE u == s \o t
<1>1. /\ Len(u) = Len(s) + Len(t) /\ Len(s) \in Nat /\ Len(t) \in Nat
      /\ \A i \in 1 .. Len(s) : u[i] = s[i]
      /\ \A i \in 1 .. Len(t) : u[Len(s) + i] = t[i]
  BY Joined
<1> HIDE DEF u
<1>2. ASSUME NEW i \in 1 .. Len(u)
      PROVE  \/ u[i] \notin {"begin", "end"}
             \/ i \in 1 .. Len(s) /\ u[i] = s[i]
  <2>1. CASE i <= Len(s)
    BY <1>1, <2>1
  <2>2. CASE i > Len(s)
    <3>1. i - Len(s) \in 1 .. Len(t) /\ i = Len(s) + (i - Len(s))
      BY <1>1, <2>2
    <3>2. u[i] = t[i - Len(s)]
      BY <1>1, <3>1
    <3> QED
      BY <3>1, <3>2 DEF NoMark
  <2> QED
    BY <1>1, <2>1, <2>2
<1>3. \A i \in 1 .. Len(s) : i \in 1 .. Len(u)
  BY <1>1
<1>4. Places(u, "begin") = Places(s, "begin") /\ Places(u, "end") = Places(s, "end")
  BY <1>1, <1>2, <1>3 DEF Places
<1>5. ASSUME NEW b \in 1 .. Len(s), NEW e \in 1 .. Len(s), NEW i \in b .. e
      PROVE  u[i] = s[i]
  BY <1>1
<1>6. OneBlock(u)
  <2>1. CASE Places(s, "begin") = {} /\ Places(s, "end") = {}
    BY <1>4, <2>1 DEF OneBlock
  <2>2. CASE ~(Places(s, "begin") = {} /\ Places(s, "end") = {})
    <3>1. PICK b \in 1 .. Len(s), e \in 1 .. Len(s) :
               /\ b < e /\ Places(s, "begin") = {b} /\ Places(s, "end") = {e}
               /\ \A i \in b .. e : s[i] \notin Lines
      BY <2>2 DEF OneBlock
    <3>2. \A i \in b .. e : u[i] \notin Lines
      BY <1>5, <3>1
    <3> QED
      BY <1>3, <1>4, <3>1, <3>2 DEF OneBlock
  <2> QED
    BY <2>1, <2>2
<1> QED
  BY <1>6 DEF u

LEMMA BlockIsOne == OneBlock(Block) /\ OneBlock(<< >>)
<1>1. ASSUME NEW i \in 1 .. 6
      PROVE  /\ Block[i] = "begin" <=> i = 1
             /\ Block[i] = "end" <=> i = 5
  <2>1. i \in {1, 2, 3, 4, 5, 6}
    OBVIOUS
  <2> QED
    BY <2>1, Fixed
<1>2. Places(Block, "begin") = {1} /\ Places(Block, "end") = {5}
  BY <1>1, Fixed DEF Places
<1>3. \A i \in 1 .. 5 : Block[i] \notin Lines
  <2>1. \A i \in 1 .. 5 : i \in 1 .. Len(Block)
    BY Fixed
  <2> QED
    BY <2>1, FixedPlain DEF LinesAt
<1>4. OneBlock(Block)
  BY <1>2, <1>3, Fixed DEF OneBlock
<1>5. OneBlock(<< >>)
  BY Fixed DEF OneBlock, Places
<1> QED
  BY <1>4, <1>5

LEMMA EndedKeepsLines ==
  ASSUME NEW s \in Seq(Tokens)
  PROVE  /\ EndsLine(s) \in Seq(Tokens) /\ SameLines(s, EndsLine(s))
         /\ NoMark(s) => NoMark(EndsLine(s))
         /\ OneBlock(s) => OneBlock(EndsLine(s))
<1>1. CASE EndsLine(s) = s
  BY <1>1, SameAsItself
<1>2. CASE EndsLine(s) = s \o NL
  <2>1. NL \in Seq(Tokens) /\ NoMark(NL) /\ LinesAt(NL) = {}
    BY Fixed, FixedPlain
  <2>2. s \o NL \in Seq(Tokens) /\ SameLines(s, s \o NL)
    BY <2>1, Joined, SameExtended
  <2>3. NoMark(s) => NoMark(s \o NL)
    BY <2>1, NoMarkJoined
  <2>4. OneBlock(s) => OneBlock(s \o NL)
    BY <2>1, OneBlockBefore
  <2> QED
    BY <1>2, <2>2, <2>3, <2>4
<1> QED
  BY <1>1, <1>2 DEF EndsLine

(* What install and uninstall are about to write. *)
LEMMA DraftKeepsLines ==
  ASSUME NEW s \in Seq(Tokens), OneBlock(s)
  PROVE  /\ SameLines(s, WithBlock(s)) /\ OneBlock(WithBlock(s))
         /\ SameLines(s, StripBlock(s)) /\ OneBlock(StripBlock(s))
<1> DEFINE p == StripBlock(s)
           q == EndsLine(p)
<1>1. p \in Seq(Tokens) /\ NoMark(p) /\ SameLines(s, p)
  BY StripKeepsLines
<1> HIDE DEF p
<1>2. q \in Seq(Tokens) /\ NoMark(q) /\ SameLines(p, q)
  BY <1>1, EndedKeepsLines
<1> HIDE DEF q
<1>3. Block \in Seq(Tokens) /\ LinesAt(Block) = {} /\ OneBlock(Block)
  BY Fixed, FixedPlain, BlockIsOne
<1>4. SameLines(q, q \o Block) /\ OneBlock(q \o Block)
  BY <1>2, <1>3, SameExtended, OneBlockAfter
<1>5. SameLines(s, q)
  BY <1>1, <1>2, SameAgain
<1>6. SameLines(s, q \o Block)
  BY <1>4, <1>5, SameAgain
<1>7. OneBlock(p)
  BY <1>1 DEF NoMark, OneBlock, Places
<1>8. WithBlock(s) = q \o Block
  BY DEF WithBlock, p, q
<1> QED
  BY <1>1, <1>4, <1>6, <1>7, <1>8 DEF p

(***************************************************************************)
(* The profile through every step.                                         *)
(***************************************************************************)

Truncating == (command = "install" /\ at = 2) \/ (command = "uninstall" /\ at = 3)
Writing    == (command = "install" /\ at = 3) \/ (command = "uninstall" /\ at = 4)

Kept(text) == SameLines(lines, text) /\ OneBlock(text)

(* Unless a rewrite went wrong, the profile is kept while it is not being
   written, and what a command is about to write would keep it too. *)
KeptInv ==
  ~lost => /\ ~Writing => Kept(profile)
           /\ Truncating \/ Writing => Kept(draft)

LEMMA RewritingPlaces ==
  /\ Truncating => At("truncate")
  /\ Writing => At("write")
  BY DEF Truncating, Writing, At, StepsOf, InstallSteps, UninstallSteps

(* A step that is not about the profile. *)
LEMMA QuietStep ==
  ASSUME KeptInv, UNCHANGED <<profile, lines>>, lost = lost' \/ lost',
         Writing => lost', ~Truncating', ~Writing'
  PROVE  KeptInv'
  BY DEF KeptInv, Kept

LEMMA WorldStep ==
  ASSUME KeptInv, UNCHANGED <<profileVars, command, at>>
  PROVE  KeptInv'
  BY DEF KeptInv, Kept, profileVars, Truncating, Writing

(* The steps of a command that are not those that rewrite the profile. *)
Elsewhere ==
  \/ command = "install" /\ at >= 4
  \/ command = "uninstall" /\ (at = 1 \/ at >= 5)
  \/ command \in {"trust", "untrust"}

LEMMA StepElsewhere ==
  ASSUME IInv, KeptInv, Elsewhere, UNCHANGED profileVars,
         Proceed \/ \E r : Stop(r)
  PROVE  KeptInv'
<1>1. PlainType /\ PlaceInv /\ command # "none" /\ at \in 0 .. 9
  BY DEF IInv, PlainType, CaseTypes, Elsewhere
<1>2. ~Writing
  BY <1>1 DEF Elsewhere, Writing, PlaceInv
<1>3. ~Truncating' /\ ~Writing'
  <2>1. CASE Proceed
    <3>1. \/ command' = "none"
          \/ command' = command /\ at' = at + 1
      BY <1>1, <2>1, AdvanceOne
    <3> QED
      BY <1>1, <3>1 DEF Elsewhere, Truncating, Writing, PlaceInv
  <2>2. CASE \E r : Stop(r)
    BY <2>2 DEF Stop, Truncating, Writing
  <2> QED
    BY <2>1, <2>2
<1> QED
  BY <1>2, <1>3, QuietStep DEF profileVars

LEMMA KeptByStart ==
  ASSUME IInv, KeptInv, NEW c \in Commands, Start(c)
  PROVE  KeptInv'
<1>1. ~Writing /\ ~Truncating' /\ ~Writing'
  BY DEF Start, Writing, Truncating
<1> QED
  BY <1>1, QuietStep DEF Start, profileVars

LEMMA KeptByRead ==
  ASSUME IInv, KeptInv, ReadProfile
  PROVE  KeptInv'
<1>1. PlainType /\ PlaceInv /\ profile \in Seq(Tokens)
  BY DEF IInv, TextType
<1>2. \/ command = "install" /\ at = 1
      \/ command = "uninstall" /\ at = 2
  BY <1>1, Placed DEF ReadProfile
<1>3. ~Writing
  BY <1>2 DEF Writing
<1>4. UNCHANGED <<profile, lines>>
  BY DEF ReadProfile
<1>5. CASE lost'
  BY <1>5 DEF KeptInv
<1>6. CASE ~lost' /\ Proceed /\ UNCHANGED lost
           /\ draft' = IF command = "install" THEN WithBlock(profile) ELSE StripBlock(profile)
  <2>1. command' = command /\ at' = at + 1
    BY <1>1, <1>2, <1>6, AdvanceOne DEF LengthOf
  <2>2. ~Writing'
    BY <1>2, <2>1 DEF Writing
  <2>3. SameLines(lines, profile) /\ OneBlock(profile)
    BY <1>3, <1>6 DEF KeptInv, Kept
  <2>4. SameLines(lines, draft') /\ OneBlock(draft')
    BY <1>1, <1>6, <2>3, DraftKeepsLines, SameAgain
  <2> QED
    BY <1>4, <2>2, <2>3, <2>4 DEF KeptInv, Kept
<1>7. CASE ~lost' /\ UNCHANGED <<draft, lost>> /\ command = "uninstall" /\ Skip(3)
  <2>1. command' = command /\ at' = 5
    BY <1>1, <1>2, <1>7, Advance DEF LengthOf
  <2>2. ~Writing' /\ ~Truncating'
    BY <2>1 DEF Writing, Truncating
  <2> QED
    BY <1>3, <1>4, <1>7, <2>2, QuietStep
<1> QED
  BY <1>5, <1>6, <1>7 DEF ReadProfile

LEMMA KeptByTruncate ==
  ASSUME IInv, KeptInv, TruncateProfile
  PROVE  KeptInv'
<1>1. PlainType /\ PlaceInv
  BY DEF IInv
<1>2. \/ command = "install" /\ at = 2
      \/ command = "uninstall" /\ at = 3
  BY <1>1, Placed DEF TruncateProfile
<1>3. command' = command /\ at' = at + 1
  BY <1>1, <1>2, AdvanceOne DEF TruncateProfile, LengthOf
<1>4. Truncating /\ Writing'
  BY <1>2, <1>3 DEF Truncating, Writing
<1>5. UNCHANGED <<draft, lines, lost>>
  BY DEF TruncateProfile
<1> QED
  BY <1>4, <1>5 DEF KeptInv, Kept

LEMMA KeptByWrite ==
  ASSUME IInv, KeptInv, WriteProfile
  PROVE  KeptInv'
<1>1. PlainType /\ PlaceInv
  BY DEF IInv
<1>2. \/ command = "install" /\ at = 3
      \/ command = "uninstall" /\ at = 4
  BY <1>1, Placed DEF WriteProfile
<1>3. command' = command /\ at' = at + 1
  BY <1>1, <1>2, AdvanceOne DEF WriteProfile, LengthOf
<1>4. Writing /\ ~Truncating' /\ ~Writing'
  BY <1>2, <1>3 DEF Truncating, Writing
<1>5. profile' = draft /\ UNCHANGED <<lines, lost>>
  BY DEF WriteProfile
<1> QED
  BY <1>4, <1>5 DEF KeptInv, Kept

LEMMA KeptByFailure ==
  ASSUME IInv, KeptInv, WriteProfileFails
  PROVE  KeptInv'
<1>1. PlainType /\ PlaceInv
  BY DEF IInv
<1>2. CASE At("truncate") /\ profile' = profile /\ lost' = lost
  <2>1. \/ command = "install" /\ at = 2
        \/ command = "uninstall" /\ at = 3
    BY <1>1, <1>2, Placed
  <2>2. command = "uninstall" /\ Skip(2) => command' = command /\ at' = 5
    BY <1>1, <2>1, Advance DEF LengthOf
  <2>3. command' = "none" \/ at' = 5
    BY <1>2, <2>1, <2>2 DEF WriteProfileFails, Stop
  <2>4. ~Writing /\ ~Truncating' /\ ~Writing'
    BY <2>1, <2>3 DEF Truncating, Writing
  <2>5. UNCHANGED lines
    BY DEF WriteProfileFails
  <2> QED
    BY <1>2, <2>4, <2>5, QuietStep
<1>3. CASE lost'
  BY <1>3 DEF KeptInv
<1> QED
  BY <1>2, <1>3 DEF WriteProfileFails

LEMMA KeptByKill ==
  ASSUME IInv, KeptInv, Kill \/ Reboot
  PROVE  KeptInv'
<1>1. UNCHANGED <<profile, lines>> /\ lost' = (lost \/ At("write")) /\ command' = "none"
  BY DEF Kill, Reboot, Stop
<1>2. ~Writing' /\ ~Truncating'
  BY <1>1 DEF Writing, Truncating
<1>3. CASE lost'
  BY <1>3 DEF KeptInv
<1>4. CASE ~lost'
  <2>1. ~Writing /\ lost = lost'
    BY <1>1, <1>4, RewritingPlaces DEF IInv, PlainType, FlagTypes
  <2> QED
    BY <1>1, <1>2, <2>1, QuietStep
<1> QED
  BY <1>3, <1>4

LEMMA OneLine ==
  ASSUME NEW l \in Lines
  PROVE  /\ <<l>> \in Seq(Tokens) /\ NoMark(<<l>>) /\ OneBlock(<<l>>)
         /\ <<l, "nl">> \in Seq(Tokens) /\ NoMark(<<l, "nl">>) /\ OneBlock(<<l, "nl">>)
         /\ SameLines(<<l>>, <<l, "nl">>)
<1> DEFINE p == <<l>>
           q == <<l, "nl">>
<1>1. /\ p \in Seq(Tokens) /\ Len(p) = 1 /\ p[1] = l
      /\ q \in Seq(Tokens) /\ Len(q) = 2 /\ q[1] = l /\ q[2] = "nl"
  BY DEF Tokens
<1> HIDE DEF p, q
<1>2. l \notin {"begin", "end"} /\ "nl" \notin Lines
  BY LinesAreTokens
<1>3. NoMark(p) /\ NoMark(q)
  BY <1>1, <1>2 DEF NoMark
<1>4. OneBlock(p) /\ OneBlock(q)
  BY <1>3 DEF NoMark, OneBlock, Places
<1>5. LinesAt(p) = {1} /\ LinesAt(q) = {1}
  BY <1>1, <1>2 DEF LinesAt
<1>6. SameLines(p, q)
  BY <1>1, <1>5, Moved
<1> QED
  BY <1>1, <1>3, <1>4, <1>6 DEF p, q

LEMMA KeptByEdit ==
  ASSUME IInv, KeptInv, NEW l \in Lines, EditProfile(l)
  PROVE  KeptInv'
<1>1. CASE lost'
  BY <1>1 DEF KeptInv
<1>2. CASE ~lost'
  <2>1. ~lost /\ ~Rewriting /\ UNCHANGED <<command, at>>
    BY <1>2 DEF EditProfile, commandVars
  <2>2. ~Writing /\ ~Truncating /\ ~Writing' /\ ~Truncating'
    BY <2>1, RewritingPlaces DEF Rewriting, Writing, Truncating
  <2>3. SameLines(lines, profile) /\ OneBlock(profile)
    BY <2>1, <2>2 DEF KeptInv, Kept
  <2>4. profile \in Seq(Tokens) /\ lines \in Seq(Tokens)
    BY LinesAreTokens DEF IInv, TextType
  <2>5. /\ <<l>> \in Seq(Tokens) /\ <<l, "nl">> \in Seq(Tokens)
        /\ SameLines(<<l>>, <<l, "nl">>) /\ NoMark(<<l, "nl">>)
    BY OneLine
  <2>6. CASE profile' = <<l, "nl">> \o profile /\ lines' = <<l>> \o lines
    <3>1. SameLines(<<l>> \o lines, <<l, "nl">> \o profile)
      BY <2>3, <2>4, <2>5, SameJoined
    <3>2. OneBlock(<<l, "nl">> \o profile)
      BY <2>3, <2>4, <2>5, OneBlockAfter
    <3> QED
      BY <2>2, <2>6, <3>1, <3>2 DEF KeptInv, Kept
  <2>7. CASE profile' = EndsLine(profile) \o <<l, "nl">> /\ lines' = lines \o <<l>>
    <3>1. /\ EndsLine(profile) \in Seq(Tokens) /\ OneBlock(EndsLine(profile))
          /\ SameLines(profile, EndsLine(profile))
      BY <2>3, <2>4, EndedKeepsLines
    <3>2. SameLines(lines, EndsLine(profile))
      BY <2>3, <3>1, SameAgain
    <3>3. SameLines(lines \o <<l>>, EndsLine(profile) \o <<l, "nl">>)
      BY <2>4, <2>5, <3>1, <3>2, SameJoined
    <3>4. OneBlock(EndsLine(profile) \o <<l, "nl">>)
      BY <2>4, <2>5, <3>1, OneBlockBefore
    <3> QED
      BY <2>2, <2>7, <3>3, <3>4 DEF KeptInv, Kept
  <2> QED
    BY <2>6, <2>7 DEF EditProfile
<1> QED
  BY <1>1, <1>2

(* The commands' other steps, and the daemon's. *)
LEMMA KeptByCommand ==
  ASSUME IInv, KeptInv,
         \/ SetEnv \/ UnsetEnv \/ WritePlist \/ LoadDaemon \/ UnloadDaemon \/ RemovePlist
         \/ RemoveState \/ ClearCapturePause \/ TrustInstall \/ TrustRemove
  PROVE  KeptInv'
<1>1. PlainType /\ PlaceInv
  BY DEF IInv
<1>2. \/ At("setenv") \/ At("unsetenv") \/ At("plist") \/ At("bootstrap") \/ At("bootout")
      \/ At("unlink") \/ At("state") \/ At("clear") \/ At("trust") \/ At("untrust")
  BY DEF SetEnv, UnsetEnv, WritePlist, LoadDaemon, UnloadDaemon, RemovePlist, RemoveState,
         ClearCapturePause, TrustInstall, TrustRemove
<1>3. Elsewhere
  BY <1>1, <1>2, Placed DEF Elsewhere
<1>4. UNCHANGED profileVars
  BY DEF SetEnv, UnsetEnv, WritePlist, LoadDaemon, UnloadDaemon, RemovePlist, RemoveState,
         ClearCapturePause, TrustInstall, TrustRemove
<1>5. Proceed \/ \E r : Stop(r)
  BY DEF SetEnv, UnsetEnv, WritePlist, LoadDaemon, UnloadDaemon, RemovePlist, RemoveState,
         ClearCapturePause, TrustInstall, TrustRemove
<1> QED
  BY <1>3, <1>4, <1>5, StepElsewhere

LEMMA KeptByDaemon ==
  ASSUME KeptInv, KeepAlive \/ LoadOrCreateCA \/ PauseCapture \/ DaemonDies \/ UNCHANGED vars
  PROVE  KeptInv'
<1>1. UNCHANGED <<profileVars, command, at>>
  BY DEF KeepAlive, LoadOrCreateCA, PauseCapture, DaemonDies, vars, commandVars
<1> QED
  BY <1>1, WorldStep

LEMMA KeptAtFirst == Init => KeptInv
<1> SUFFICES ASSUME Init PROVE Kept(profile) /\ ~Writing /\ ~Truncating
  BY DEF KeptInv
<1>1. ~Writing /\ ~Truncating
  BY DEF Init, Writing, Truncating
<1>2. CASE profile = << >>
  <2>1. lines = << >>
    BY <1>2 DEF Init
  <2> QED
    BY <1>1, <1>2, <2>1, Fixed, SameAsItself, BlockIsOne DEF Kept
<1>3. ASSUME NEW l \in Lines, profile \in {<<l>>, <<l, "nl">>}
      PROVE  Kept(profile)
  <2>1. lines = <<l>>
    <3>1. profile # << >> /\ profile[1] = l
      BY <1>3
    <3> QED
      BY <3>1 DEF Init
  <2>2. /\ OneBlock(<<l>>) /\ OneBlock(<<l, "nl">>)
        /\ SameLines(<<l>>, <<l>>) /\ SameLines(<<l>>, <<l, "nl">>)
    BY OneLine, SameAsItself
  <2> QED
    BY <1>3, <2>1, <2>2 DEF Kept
<1> QED
  BY <1>1, <1>2, <1>3 DEF Init

(* Whatever is installed, repaired and removed around the user's edits, the
   profile has the user's lines, all of them and in their order, and at most one
   managed block with none of them inside, as long as no rewrite was cut short,
   overtook an edit or began from a profile it could not read: writeProfileBlock,
   removeProfileBlock and stripBlock, for any numbers of lines, commands and
   faults. *)
THEOREM ProfileKept == Spec => []ProfileIsKept
<1>1. Init => KeptInv
  BY KeptAtFirst
<1>2. IInv /\ KeptInv /\ [Next]_vars => KeptInv'
  BY KeptByStart, KeptByRead, KeptByTruncate, KeptByWrite, KeptByFailure, KeptByKill,
     KeptByEdit, KeptByCommand, KeptByDaemon DEF Next
<1>3. IInv /\ KeptInv => ProfileIsKept
  BY RewritingPlaces DEF KeptInv, Kept, ProfileIsKept
<1> QED
  BY <1>1, <1>2, <1>3, Inductive, PTL DEF Spec

-------------------------------------------------------------------------------
(* Installing again, and uninstalling.                                     *)

LEMMA SameText ==
  ASSUME NEW s \in Seq(Tokens), NEW t \in Seq(Tokens), Len(s) = Len(t),
         \A i \in 1 .. Len(s) : s[i] = t[i]
  PROVE  s = t
  OBVIOUS

(* The text up to its last word is its first n tokens. *)
WordsEndAt(text, n) ==
  /\ n = 0 \/ text[n] # "nl"
  /\ \A i \in n + 1 .. Len(text) : text[i] = "nl"

LEMMA SomeWordIsLast ==
  ASSUME NEW s \in Seq(Tokens)
  PROVE  \E n \in 0 .. Len(s) : WordsEndAt(s, n)
<1>0. Len(s) \in Nat /\ Words(s) \subseteq 1 .. Len(s)
  BY DEF Words
<1>1. CASE Words(s) = {}
  BY <1>0, <1>1 DEF Words, WordsEndAt
<1>2. CASE Words(s) # {}
  <2>1. PICK n \in Words(s) : \A j \in Words(s) : j <= n
    BY <1>0, <1>2, GreatestOf
  <2>2. n \in 1 .. Len(s) /\ s[n] # "nl"
    BY <2>1 DEF Words
  <2>3. ASSUME NEW i \in n + 1 .. Len(s) PROVE s[i] = "nl"
    <3>1. i \in 1 .. Len(s) /\ ~(i <= n)
      BY <1>0, <2>2
    <3> QED
      BY <2>1, <3>1 DEF Words
  <2>4. n \in 0 .. Len(s)
    BY <1>0, <2>2
  <2> QED
    BY <2>2, <2>3, <2>4 DEF WordsEndAt
<1> QED
  BY <1>1, <1>2

LEMMA TrimmedTo ==
  ASSUME NEW s \in Seq(Tokens), NEW n \in 0 .. Len(s), WordsEndAt(s, n)
  PROVE  /\ TrimRight(s) = SubSeq(s, 1, n)
         /\ TrimRight(s) \in Seq(Tokens) /\ Len(TrimRight(s)) = n
         /\ \A i \in 1 .. n : TrimRight(s)[i] = s[i]
<1>0. Len(s) \in Nat /\ n \in Nat /\ Words(s) \subseteq 1 .. Len(s)
  BY DEF Words
<1>1. ASSUME NEW j \in Words(s) PROVE j <= n
  <2>1. j \in 1 .. Len(s) /\ s[j] # "nl"
    BY DEF Words
  <2>2. j \notin n + 1 .. Len(s)
    BY <2>1 DEF WordsEndAt
  <2> QED
    BY <1>0, <2>1, <2>2
<1> DEFINE m == IF Words(s) = {} THEN 0
                ELSE CHOOSE i \in Words(s) : \A j \in Words(s) : j <= i
<1>2. m = n
  <2>1. CASE n = 0
    <3>1. Words(s) = {}
      BY <1>0, <1>1, <2>1
    <3> QED
      BY <2>1, <3>1
  <2>2. CASE n # 0
    <3>1. n \in Words(s)
      BY <1>0, <2>2 DEF Words, WordsEndAt
    <3>2. ASSUME NEW c \in Words(s), \A j \in Words(s) : j <= c PROVE c = n
      <4>1. c <= n /\ n <= c /\ c \in Nat
        BY <1>0, <1>1, <3>1, <3>2
      <4> QED
        BY <1>0, <4>1
    <3> QED
      BY <1>1, <3>1, <3>2
  <2> QED
    BY <2>1, <2>2
<1>4. TrimRight(s) = SubSeq(s, 1, m)
  BY DEF TrimRight
<1> HIDE DEF m
<1>5. 1 \in 1 .. Len(s) + 1 /\ n \in 1 - 1 .. Len(s) /\ n - 1 + 1 = n
  BY <1>0
<1>6. \A i \in 1 .. n : 1 + i - 1 = i
  OBVIOUS
<1> QED
  BY <1>0, <1>2, <1>4, <1>5, <1>6, Slice

(* Newlines at the end make no difference, and trimming twice none either. *)
LEMMA TrimmedAlike ==
  ASSUME NEW s \in Seq(Tokens), NEW t \in Seq(Tokens), NEW n \in 0 .. Len(s), n <= Len(t),
         WordsEndAt(s, n), WordsEndAt(t, n), \A i \in 1 .. n : s[i] = t[i]
  PROVE  TrimRight(s) = TrimRight(t)
<1>1. n \in 0 .. Len(t)
  OBVIOUS
<1>2. /\ TrimRight(s) \in Seq(Tokens) /\ Len(TrimRight(s)) = n
      /\ \A i \in 1 .. n : TrimRight(s)[i] = s[i]
  BY TrimmedTo
<1>3. /\ TrimRight(t) \in Seq(Tokens) /\ Len(TrimRight(t)) = n
      /\ \A i \in 1 .. n : TrimRight(t)[i] = t[i]
  BY <1>1, TrimmedTo
<1> QED
  BY <1>2, <1>3, SameText

LEMMA EndedTrimsAlike ==
  ASSUME NEW s \in Seq(Tokens)
  PROVE  TrimRight(EndsLine(s)) = TrimRight(s)
<1>1. CASE EndsLine(s) = s
  BY <1>1
<1>2. CASE EndsLine(s) = s \o NL
  <2>1. PICK n \in 0 .. Len(s) : WordsEndAt(s, n)
    BY SomeWordIsLast
  <2> DEFINE t == s \o NL
  <2>2. /\ t \in Seq(Tokens) /\ Len(t) = Len(s) + 1
        /\ \A i \in 1 .. Len(s) : t[i] = s[i]
        /\ \A i \in 1 .. 1 : t[Len(s) + i] = NL[i]
    <3>1. NL \in Seq(Tokens) /\ Len(NL) = 1
      BY Fixed
    <3>2. \A b \in Seq(Tokens) :
          /\ s \o b \in Seq(Tokens)
          /\ Len(s \o b) = Len(s) + Len(b)
          /\ \A i \in 1 .. Len(s) : (s \o b)[i] = s[i]
          /\ \A i \in 1 .. Len(b) : (s \o b)[Len(s) + i] = b[i]
      BY Joined
    <3> QED
      BY <3>1, <3>2
  <2> HIDE DEF t
  <2>3. n <= Len(t) /\ n \in Nat /\ Len(s) \in Nat
    BY <2>2
  <2>4. t[Len(s) + 1] = "nl"
    BY <2>2, Fixed
  <2>5. ASSUME NEW i \in n + 1 .. Len(t) PROVE t[i] = "nl"
    <3>1. (i \in n + 1 .. Len(s) /\ i \in 1 .. Len(s)) \/ i = Len(s) + 1
      BY <2>2, <2>3
    <3> QED
      BY <2>1, <2>2, <2>4, <3>1 DEF WordsEndAt
  <2>6. n = 0 \/ t[n] = s[n]
    BY <2>2, <2>3
  <2>7. WordsEndAt(t, n)
    BY <2>1, <2>5, <2>6 DEF WordsEndAt
  <2>8. \A i \in 1 .. n : s[i] = t[i]
    BY <2>2, <2>3
  <2>9. TrimRight(s) = TrimRight(t)
    BY <2>1, <2>2, <2>3, <2>7, <2>8, TrimmedAlike
  <2> QED
    BY <1>2, <2>9 DEF t
<1> QED
  BY <1>1, <1>2 DEF EndsLine

LEMMA TrimmedTwice ==
  ASSUME NEW s \in Seq(Tokens)
  PROVE  TrimRight(TrimRight(s)) = TrimRight(s)
<1>1. PICK n \in 0 .. Len(s) : WordsEndAt(s, n)
  BY SomeWordIsLast
<1> DEFINE t == TrimRight(s)
<1>2. t \in Seq(Tokens) /\ Len(t) = n /\ \A i \in 1 .. n : t[i] = s[i]
  BY <1>1, TrimmedTo
<1> HIDE DEF t
<1>3. WordsEndAt(t, n)
  BY <1>1, <1>2 DEF WordsEndAt
<1>4. TrimRight(s) = TrimRight(t)
  BY <1>1, <1>2, <1>3, TrimmedAlike
<1> QED
  BY <1>4 DEF t

(* A trimmed text, ended. *)
LEMMA TrimmedEnded ==
  ASSUME NEW s \in Seq(Tokens)
  PROVE  /\ TrimRight(s) \in Seq(Tokens)
         /\ EndsLine(TrimRight(s)) \in Seq(Tokens)
         /\ EndsLine(TrimRight(s))
              = (IF TrimRight(s) = << >> THEN << >> ELSE TrimRight(s) \o NL)
<1>1. PICK n \in 0 .. Len(s) : WordsEndAt(s, n)
  BY SomeWordIsLast
<1> DEFINE t == TrimRight(s)
<1>2. t \in Seq(Tokens) /\ Len(t) = n /\ \A i \in 1 .. n : t[i] = s[i]
  BY <1>1, TrimmedTo
<1> HIDE DEF t
<1>3. t = << >> \/ t[Len(t)] # "nl"
  <2>1. CASE n = 0
    BY <1>2, <2>1
  <2>2. CASE n # 0
    <3>1. n \in 1 .. n
      BY <2>2
    <3> QED
      BY <1>1, <1>2, <2>2, <3>1 DEF WordsEndAt
  <2> QED
    BY <2>1, <2>2
<1>4. EndsLine(t) = (IF t = << >> THEN << >> ELSE t \o NL)
  BY <1>3 DEF EndsLine
<1>5. EndsLine(t) \in Seq(Tokens)
  BY <1>2, LineEnded
<1> QED
  BY <1>2, <1>4, <1>5 DEF t

(* Where the fence is once a block is appended: the block's end marker is the
   only one, and it begins at the first begin marker there is. *)
LEMMA FenceAppended ==
  ASSUME NEW s \in Seq(Tokens), NoEnd(s)
  PROVE  /\ s \o Block \in Seq(Tokens) /\ Len(s \o Block) = Len(s) + 6
         /\ Fenced(s \o Block)
         /\ Least(Places(s \o Block, "end")) = Len(s) + 5
         /\ Least(Places(s \o Block, "begin")) \in 1 .. Len(s) + 1
         /\ \A i \in 1 .. Least(Places(s \o Block, "begin")) - 1 : s[i] # "begin"
         /\ NoMark(s) => Least(Places(s \o Block, "begin")) = Len(s) + 1
<1> DEFINE t == s \o Block
<1> DEFINE B == Places(t, "begin")
<1> DEFINE E == Places(t, "end")
<1>0. Len(s) \in Nat
  OBVIOUS
<1>1. /\ t \in Seq(Tokens) /\ Len(t) = Len(s) + 6
      /\ \A i \in 1 .. Len(s) : t[i] = s[i]
      /\ \A i \in 1 .. 6 : t[Len(s) + i] = Block[i]
  <2>1. Block \in Seq(Tokens) /\ Len(Block) = 6
    BY Fixed
  <2>2. \A b \in Seq(Tokens) :
        /\ s \o b \in Seq(Tokens)
        /\ Len(s \o b) = Len(s) + Len(b)
        /\ \A i \in 1 .. Len(s) : (s \o b)[i] = s[i]
        /\ \A i \in 1 .. Len(b) : (s \o b)[Len(s) + i] = b[i]
    BY Joined
  <2> QED
    BY <2>1, <2>2
<1> HIDE DEF t
<1>2. t[Len(s) + 1] = "begin" /\ t[Len(s) + 5] = "end"
  BY <1>0, <1>1, Fixed
<1>3. Len(s) + 1 \in B /\ Len(s) + 5 \in E /\ B \subseteq Nat /\ E \subseteq Nat
  BY <1>0, <1>1, <1>2 DEF Places
<1>4. ASSUME NEW i \in E PROVE i = Len(s) + 5
  <2>1. i \in 1 .. Len(t) /\ t[i] = "end"
    BY DEF Places
  <2>2. i \notin 1 .. Len(s)
    BY <1>0, <1>1, <2>1 DEF NoEnd
  <2>3. i - Len(s) \in {1, 2, 3, 4, 5, 6} /\ i = Len(s) + (i - Len(s))
    BY <1>0, <1>1, <2>1, <2>2
  <2>4. Block[i - Len(s)] = "end"
    BY <1>0, <1>1, <2>1, <2>3
  <2>5. i - Len(s) = 5
    BY <2>3, <2>4, Fixed
  <2> QED
    BY <1>0, <1>1, <2>3, <2>5
<1>5. Least(E) = Len(s) + 5
  <2> HIDE DEF B, E
  <2> QED
    BY <1>3, <1>4, LeastOf
<1>6. Least(B) \in B /\ \A j \in B : Least(B) <= j
  <2> HIDE DEF B, E
  <2> QED
    BY <1>3, LeastOf
<1>7. Least(B) \in 1 .. Len(t) /\ Least(B) <= Len(s) + 1 /\ t[Least(B)] = "begin"
  BY <1>3, <1>6 DEF Places
<1>8. Least(B) \in 1 .. Len(s) + 1
  BY <1>0, <1>1, <1>7
<1>9. ASSUME NEW i \in 1 .. Least(B) - 1 PROVE s[i] # "begin"
  <2>1. i \in 1 .. Len(s) /\ i \in 1 .. Len(t) /\ ~(Least(B) <= i)
    <3>1. Len(t) = Len(s) + 6
      BY <1>1
    <3> HIDE DEF B
    <3> QED
      BY <1>0, <1>8, <3>1
  <2>2. i \notin B
    BY <1>6, <2>1
  <2> QED
    BY <1>0, <1>1, <2>1, <2>2 DEF Places
<1>10. NoMark(s) => Least(B) = Len(s) + 1
  <2>1. ASSUME NoMark(s), Least(B) # Len(s) + 1 PROVE FALSE
    <3>1. Least(B) \in 1 .. Len(s)
      BY <1>0, <1>1, <1>8, <2>1
    <3> QED
      BY <1>0, <1>1, <1>7, <2>1, <3>1 DEF NoMark
  <2> QED
    BY <2>1
<1>11. Fenced(t)
  <2>1. Least(B) < Least(E)
    <3> HIDE DEF B, E
    <3> QED
      BY <1>0, <1>5, <1>8
  <2>2. B # {} /\ E # {}
    <3> HIDE DEF B, E
    <3> QED
      BY <1>3
  <2> QED
    BY <2>1, <2>2 DEF Fenced
<1> QED
  BY <1>0, <1>1, <1>5, <1>8, <1>9, <1>10, <1>11 DEF t

(* stripBlock of a text and an appended block: the part of the text before its
   first begin marker, ended with one newline. *)
LEMMA BlockTaken ==
  ASSUME NEW s \in Seq(Tokens), NoEnd(s)
  PROVE  \E n \in 0 .. Len(s) :
           /\ SubSeq(s, 1, n) \in Seq(Tokens) /\ NoMark(SubSeq(s, 1, n))
           /\ NoMark(s) => n = Len(s)
           /\ StripBlock(s \o Block) = EndsLine(TrimRight(SubSeq(s, 1, n)))
<1> DEFINE t == s \o Block
<1> DEFINE b == Least(Places(t, "begin"))
<1> DEFINE e == Least(Places(t, "end"))
<1>0. Len(s) \in Nat
  OBVIOUS
<1>1. /\ t \in Seq(Tokens) /\ Len(t) = Len(s) + 6 /\ Fenced(t)
      /\ e = Len(s) + 5 /\ b \in 1 .. Len(s) + 1
      /\ \A i \in 1 .. b - 1 : s[i] # "begin"
      /\ NoMark(s) => b = Len(s) + 1
  BY FenceAppended
<1>2. \A i \in 1 .. Len(s) : t[i] = s[i]
  BY Fixed, Joined
<1>3. t[Len(s) + 6] = "nl"
  <2>1. Block \in Seq(Tokens) /\ Len(Block) = 6
    BY Fixed
  <2>2. \A k \in Seq(Tokens) : \A i \in 1 .. Len(k) : (s \o k)[Len(s) + i] = k[i]
    BY Joined
  <2>3. \A i \in 1 .. 6 : t[Len(s) + i] = Block[i]
    BY <2>1, <2>2
  <2> HIDE DEF t
  <2> QED
    BY <2>3, Fixed
<1>4. Before(t) = TrimRight(SubSeq(t, 1, b - 1)) /\ After(t) = TrimLeft(SubSeq(t, e + 1, Len(t)))
  BY DEF Before, After
<1> DEFINE p == SubSeq(s, 1, b - 1)
<1> DEFINE q == SubSeq(t, e + 1, Len(t))
<1> HIDE DEF t, b, e
<1>5. b - 1 \in 0 .. Len(s) /\ 1 \in 1 .. Len(s) + 1 /\ 1 \in 1 .. Len(t) + 1
      /\ b - 1 \in 1 - 1 .. Len(s) /\ b - 1 \in 1 - 1 .. Len(t) /\ b - 1 - 1 + 1 = b - 1
  BY <1>0, <1>1
<1>6. \A i \in 1 .. b - 1 : 1 + i - 1 = i /\ i \in 1 .. Len(s)
  BY <1>0, <1>1
<1>7. /\ p \in Seq(Tokens) /\ Len(p) = b - 1 /\ \A i \in 1 .. b - 1 : p[i] = s[i]
  BY <1>5, <1>6, Slice
<1>8. /\ SubSeq(t, 1, b - 1) \in Seq(Tokens) /\ Len(SubSeq(t, 1, b - 1)) = b - 1
      /\ \A i \in 1 .. b - 1 : SubSeq(t, 1, b - 1)[i] = t[i]
  BY <1>1, <1>5, <1>6, Slice
<1>9. SubSeq(t, 1, b - 1) = p
  <2> HIDE DEF p
  <2>1. \A i \in 1 .. b - 1 : SubSeq(t, 1, b - 1)[i] = p[i]
    BY <1>2, <1>6, <1>7, <1>8
  <2> QED
    BY <1>7, <1>8, <2>1, SameText
<1>10. NoMark(p)
  <2> HIDE DEF p
  <2> QED
    BY <1>1, <1>6, <1>7 DEF NoMark, NoEnd
<1>11. After(t) = << >>
  <2>1. e + 1 \in 1 .. Len(t) + 1 /\ Len(t) \in e + 1 - 1 .. Len(t) /\ Len(t) - (e + 1) + 1 = 1
        /\ e + 1 + 1 - 1 = Len(s) + 6
    BY <1>0, <1>1
  <2>2. q \in Seq(Tokens) /\ Len(q) = 1 /\ q[1] = t[e + 1 + 1 - 1]
    BY <1>1, <2>1, Slice
  <2> HIDE DEF q
  <2>3. q[1] = "nl"
    BY <1>3, <2>1, <2>2
  <2>4. Words(q) = {}
    <3>1. \A i \in 1 .. Len(q) : q[i] = "nl"
      BY <2>2, <2>3
    <3> QED
      BY <3>1 DEF Words
  <2>5. TrimLeft(q) = SubSeq(q, 2, 1)
    BY <2>2, <2>4 DEF TrimLeft
  <2>6. SubSeq(q, 2, 1) = << >>
    BY <2>2
  <2> QED
    BY <1>4, <2>5, <2>6 DEF q
<1>12. Before(t) = TrimRight(p)
  BY <1>4, <1>9
<1>13. StripBlock(t) = EndsLine(TrimRight(p))
  <2> HIDE DEF p
  <2>1. /\ TrimRight(p) \in Seq(Tokens)
        /\ EndsLine(TrimRight(p)) = (IF TrimRight(p) = << >> THEN << >> ELSE TrimRight(p) \o NL)
    BY <1>7, TrimmedEnded
  <2>2. TrimRight(p) \o << >> = TrimRight(p)
    BY <2>1
  <2>3. StripBlock(t) = (IF TrimRight(p) = << >> THEN << >>
                         ELSE TrimRight(p) \o << >> \o << >> \o NL)
    BY <1>1, <1>11, <1>12 DEF StripBlock
  <2> QED
    BY <2>1, <2>2, <2>3
<1>14. NoMark(s) => b - 1 = Len(s)
  BY <1>0, <1>1
<1>15. StripBlock(s \o Block) = EndsLine(TrimRight(SubSeq(s, 1, b - 1)))
  BY <1>13 DEF t
<1> QED
  BY <1>5, <1>7, <1>10, <1>14, <1>15

(* The second install leaves what every further one leaves again. *)
LEMMA BlockSettles ==
  ASSUME NEW s \in Seq(Tokens), Tidy(s)
  PROVE  WithBlock(WithBlock(WithBlock(s))) = WithBlock(WithBlock(s))
<1> DEFINE first == EndsLine(StripBlock(s))
<1>1. first \in Seq(Tokens) /\ NoEnd(first)
  BY Stripped, LineEnded
<1>2. WithBlock(s) = first \o Block
  BY DEF WithBlock
<1> HIDE DEF first
<1>3. PICK n \in 0 .. Len(first) :
        /\ SubSeq(first, 1, n) \in Seq(Tokens) /\ NoMark(SubSeq(first, 1, n))
        /\ StripBlock(first \o Block) = EndsLine(TrimRight(SubSeq(first, 1, n)))
  BY <1>1, BlockTaken
<1> DEFINE kept == TrimRight(SubSeq(first, 1, n))
<1>4. kept \in Seq(Tokens) /\ NoMark(kept) /\ TrimRight(kept) = kept
  BY <1>3, NoMarkTrimmed, TrimmedTwice
<1>5. StripBlock(first \o Block) = EndsLine(kept)
  BY <1>3
<1> HIDE DEF kept
<1>6. EndsLine(kept) \in Seq(Tokens) /\ NoMark(EndsLine(kept)) /\ EndsLine(EndsLine(kept)) = EndsLine(kept)
  <2>1. EndsLine(kept) \in Seq(Tokens) /\ NoMark(EndsLine(kept))
    BY <1>4, EndedKeepsLines
  <2>2. EndsLine(EndsLine(kept)) = EndsLine(kept)
    <3>1. CASE EndsLine(kept) = kept
      BY <3>1
    <3>2. CASE EndsLine(kept) = kept \o NL
      <4>1. (kept \o NL)[Len(kept \o NL)] = "nl"
        BY <1>4 DEF NL
      <4> QED
        BY <3>2, <4>1 DEF EndsLine
    <3> QED
      BY <3>1, <3>2 DEF EndsLine
  <2> QED
    BY <2>1, <2>2
<1> DEFINE second == EndsLine(kept)
<1>7. WithBlock(first \o Block) = second \o Block
  BY <1>5, <1>6 DEF WithBlock
<1>8. StripBlock(second \o Block) = second
  <2>1. second \in Seq(Tokens) /\ NoMark(second) /\ NoEnd(second)
    BY <1>6 DEF NoMark, NoEnd
  <2>2. TrimRight(second) = kept
    BY <1>4, EndedTrimsAlike
  <2> HIDE DEF second
  <2>3. SubSeq(second, 1, Len(second)) = second
    BY <2>1
  <2>4. StripBlock(second \o Block) = EndsLine(TrimRight(second))
    BY <2>1, <2>3, BlockTaken
  <2>5. EndsLine(TrimRight(second)) = EndsLine(kept)
    BY <2>2
  <2> QED
    BY <2>4, <2>5 DEF second
<1>9. WithBlock(second \o Block) = second \o Block
  BY <1>6, <1>8 DEF WithBlock
<1> QED
  BY <1>2, <1>7, <1>9

(* An uninstall undoes an install of any profile without a marker: every token of
   it comes back in its place, with one newline at the end of what is not blank
   (writeProfileBlock and removeProfileBlock, of which install.go:174 says that
   one "reverses Install completely").  So a profile that ended in one newline
   comes back as it was, and blank lines at its end do not come back. *)
THEOREM UninstallUndoesInstall ==
  ASSUME NEW s \in Seq(Tokens), NoMark(s)
  PROVE  StripBlock(WithBlock(s)) = EndsLine(TrimRight(s))
<1> DEFINE t == EndsLine(s)
<1>1. StripBlock(s) = s
  <2>1. Places(s, "begin") = {}
    BY DEF NoMark, Places
  <2> QED
    BY <2>1 DEF StripBlock, Fenced
<1>2. t \in Seq(Tokens) /\ NoMark(t)
  BY EndedKeepsLines
<1>3. NoEnd(t)
  BY <1>2 DEF NoMark, NoEnd
<1>4. WithBlock(s) = t \o Block
  BY <1>1 DEF WithBlock
<1>5. TrimRight(t) = TrimRight(s)
  BY EndedTrimsAlike
<1> HIDE DEF t
<1>6. SubSeq(t, 1, Len(t)) = t
  BY <1>2
<1>7. StripBlock(t \o Block) = EndsLine(TrimRight(t))
  BY <1>2, <1>3, <1>6, BlockTaken
<1> QED
  BY <1>4, <1>5, <1>7

(* Whatever earlier commands, cut short or not, and the user's edits have left in
   the profile, the second of two undisturbed installs leaves what every further
   one leaves again: "Idempotent: re-running replaces the managed profile block",
   install.go:132.  One install is not enough: blank lines before the block, and
   the beginning of a block whose writing was cut short, only go with the next. *)
THEOREM InstallsSettle ==
  Spec => [](LET twice == WithBlock(WithBlock(profile)) IN WithBlock(twice) = twice)
<1>1. IInv => WithBlock(WithBlock(WithBlock(profile))) = WithBlock(WithBlock(profile))
  BY BlockSettles DEF IInv, TextType, ProfileInv
<1> QED
  BY <1>1, Inductive, PTL

===============================================================================
