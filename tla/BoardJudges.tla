----------------------------- MODULE BoardJudges -----------------------------
(***************************************************************************)
(* What the board makes of its members' texts between the stages: the      *)
(* atomizer, the contradiction judge, the disagreement score, the pairs    *)
(* for a rebuttal, and the verifier.  Each operator gives the set of       *)
(* results the code can come to, or its one result where no model is       *)
(* asked.                                                                  *)
(***************************************************************************)
EXTENDS Integers, Sequences, FiniteSets, FiniteSetsExt

CONSTANTS
  Topic,                    \* bound: what claims may be about
  contradiction_max_pairs,  \* hardening
  auto_promote_max_pairs,   \* hardening
  MaxClaims                 \* bound: cited claims of a synthesis

ASSUME JudgesAssumption ==
  /\ contradiction_max_pairs \in Nat /\ auto_promote_max_pairs \in Nat
  /\ MaxClaims \in Nat

Severity == {"load_bearing", "material", "minor"}
_SEVERITY_RANK == [load_bearing |-> 3, material |-> 2, minor |-> 1]

(* The load-bearing claims of one response, by what they are about; the    *)
(* qualitative ones, and the claim that stands for a failed atomization,   *)
(* meet no other claim.                                                    *)
atomize == SUBSET Topic

_topics_overlap(claims, a, b, t) == t \in claims[a] /\ t \in claims[b]

(* The pairs of claims that two members make about one thing. *)
Candidates(claims) ==
  {c \in [pair : kSubset(2, DOMAIN claims), topic : Topic] :
     \A a, b \in c.pair : _topics_overlap(claims, a, b, c.topic)}

(* The strongest ones, when there are too many. *)
_score_pair_overlap(cands) ==
  IF Cardinality(cands) <= contradiction_max_pairs THEN {cands}
  ELSE kSubset(contradiction_max_pairs, cands)

(* Anything but a contradiction, and a judge that fails, is "none"; a      *)
(* contradiction without a severity is minor.                              *)
_judge_pair == Severity \cup {"none"}

detect_contradictions(claims) ==
  UNION {{ {[pair |-> c.pair, topic |-> c.topic, severity |-> verdict[c]] :
              c \in {k \in kept : verdict[k] # "none"}}
           : verdict \in [kept -> _judge_pair] }
         : kept \in _score_pair_overlap(Candidates(claims))}

-----------------------------------------------------------------------------
(* A review is [challenges, changed]: its [Challenge] marks, and whether it *)
(* says what it changed because of a peer.                                 *)

compute_disagreement(reviews) ==
  MapThenSumSet(LAMBDA m : reviews[m].challenges + (IF reviews[m].changed THEN 1 ELSE 0),
                DOMAIN reviews)

_challenge_counts_by_member(reviews, m) ==
  IF m \in DOMAIN reviews THEN reviews[m].challenges ELSE 0

PairScore(reviews, pair) ==
  MapThenSumSet(LAMBDA m : _challenge_counts_by_member(reviews, m), pair)

Before(reviews, c, d) ==
  LET rc == _SEVERITY_RANK[c.severity]
      rd == _SEVERITY_RANK[d.severity]
  IN rc > rd \/ (rc = rd /\ PairScore(reviews, c.pair) >= PairScore(reviews, d.pair))

(* Slip: two findings about one pair are two rebuttals. *)
EachFinding(findings, taken) == findings \ taken

(* What is left when some findings are taken: a pair is taken once. *)
OncePerPair(findings, taken) == {c \in findings : \A t \in taken : t.pair # c.pair}

(* The cap is looked at after a pair is taken. *)
Cap == Max({1, auto_promote_max_pairs})

(* One of the first among those left, again and again, until the cap is    *)
(* reached or nothing is left.                                             *)
Ranked(reviews, findings) ==
  LET Left(s, k) == OncePerPair(findings, {s[i] : i \in 1..k})
  IN {s \in UNION {[1..n -> findings] : n \in 1..Cap} :
        /\ \A i \in DOMAIN s :
             /\ s[i] \in Left(s, i - 1)
             /\ \A c \in Left(s, i - 1) : Before(reviews, s[i], c)
        /\ Len(s) = Cap \/ Left(s, Len(s)) = {}}

(* No findings, but challenges: the two most challenging members. *)
FallbackPair(reviews) ==
  LET c(m) == reviews[m].challenges
  IN IF MapThenSumSet(c, DOMAIN reviews) = 0 \/ Cardinality(DOMAIN reviews) < 2 THEN {<<>>}
     ELSE {<<[pair |-> p, topic |-> "fallback", severity |-> "None"]>> :
             p \in {q \in kSubset(2, DOMAIN reviews) :
                      \A m \in q, n \in DOMAIN reviews \ q : c(m) >= c(n)}}

pick_top_pairs(reviews, findings) ==
  IF findings = {} THEN FallbackPair(reviews)
  ELSE Ranked(reviews, findings)

-----------------------------------------------------------------------------
(* The verifier. *)

(* One cited claim; a verifier that fails or does not follow the format    *)
(* leaves it unverified.                                                   *)
_verify_one_claim == {"SUPPORTED", "CONTRADICTED", "UNVERIFIED"}

Tally == {n \in [_verify_one_claim -> 0..MaxClaims] :
            MapThenSumSet(LAMBDA v : n[v], _verify_one_claim) \in 1..MaxClaims}

(* blinded_verifier_pass_threshold: four claims of five. *)
Passes(n) ==
  /\ n["CONTRADICTED"] = 0
  /\ 5 * n["SUPPORTED"] >= 4 * (n["SUPPORTED"] + n["UNVERIFIED"])

(* A score against the threshold, or an answer that cannot be parsed. *)
_verify_synthesis_checklist == {TRUE, FALSE}

(* The synthesis is atomized and its cited load-bearing claims are judged; *)
(* a text without any goes through the checklist.                          *)
verify_synthesis(empty) ==
  IF empty THEN _verify_synthesis_checklist
  ELSE {Passes(n) : n \in Tally} \cup _verify_synthesis_checklist
=============================================================================
