------------------------------ MODULE Learning ------------------------------
(***************************************************************************)
(* Learned patterns (internal/agent/patterns) and the analysis that uses   *)
(* them (internal/agent/analyze).  Every change of an incident is analysed *)
(* by the goroutine that got it: a match in the library of patterns raises *)
(* the confidence, the change is recorded, and with in-loop apply what is  *)
(* confident enough is carried out and its outcome recorded too.  A        *)
(* recording loads the whole library, changes it and saves it, under a     *)
(* mutex of the process; commands on the side have a mutex of their own.   *)
(***************************************************************************)
EXTENDS Naturals, FiniteSets

CONSTANTS
    Loops,          \* goroutines of the agent that analyse changes
    Ask,            \* the Slack listener of the agent
    Commands,       \* processes that apply a proposal from a terminal
    Signatures,
    Earlier,        \* libraries that earlier runs may have left
    Raws,           \* confidences an analysis comes to, in basis points
    Floor,          \* MinConfidence of the remediation policy
    MaxPatterns,    \* the cap of the library: 200 in the code
    StoreFaults,    \* subset of {"load", "save"}
    MaxRecordings,  \* bound: changes, marks and approvals
    None

InAgent == Loops \cup {Ask}
Actors  == InAgent \cup Commands

Pattern == [count : Nat \ {0}, confirmed : Nat, fps : Nat, weight : {0} \cup 20..100]
Library == [Signatures -> Pattern \cup {None}]
Nothing == [s \in Signatures |-> None]

Applying == {"apply_success", "apply_failed", "apply_partial"}
Good     == {"resolved", "apply_success"}
Outcomes == Applying \cup {"resolved", "false_positive"}

ASSUME LearningAssumption ==
    /\ Ask \notin Loops /\ InAgent \cap Commands = {} /\ None \notin Actors
    /\ None \notin Pattern \cup Signatures
    /\ IsFiniteSet(Signatures) /\ Earlier \subseteq Library
    /\ Raws \subseteq 0..10000 /\ Floor \in Nat
    /\ MaxPatterns \in Nat \ {0} /\ MaxRecordings \in Nat
    /\ StoreFaults \subseteq {"load", "save"}

VARIABLES
    stored,      \* the saved library: signature -> pattern or None
    holder,      \* who holds the mutex of the agent's library
    stage,       \* actor -> what it does next
    work,        \* actor -> what it records, how sure it is, and (history) how
                 \* often its signature had been seen when it was matched
    copy,        \* actor -> the library it has loaded
    begun,       \* changes, marks and approvals so far
    happened,    \* history: signature -> what was saved about it
    forgotten,   \* history: signatures once cut off
    disturbed,   \* history: a load failed or two processes overlapped
    applied      \* history: how sure the loop was of what it carried out, and why

library == <<stored, holder, copy>>
history == <<happened, forgotten, disturbed, applied>>
learningVars == <<library, stage, work, begun, history>>

NoWork == [sig |-> None, what |-> None, raw |-> 0, conf |-> 0, prior |-> 0]

\* What a pattern accounts for; the library of an earlier run is taken as it is.
Account(p) == IF p = None THEN [seen |-> 0, good |-> 0, marked |-> 0]
              ELSE [seen |-> p.count, good |-> p.confirmed, marked |-> p.fps]

LearningInit ==
    /\ stored \in Earlier
    /\ holder = None
    /\ stage = [a \in Actors |-> "idle"]
    /\ work = [a \in Actors |-> NoWork]
    /\ copy = [a \in Actors |-> Nothing]
    /\ begun = 0
    /\ happened = [s \in Signatures |-> Account(stored[s])]
    /\ forgotten = {}
    /\ disturbed = FALSE
    /\ applied = {}

(***************************************************************************)
(* The library.                                                            *)
(***************************************************************************)

MinPriorCount_One == 1
MinPriorCount == 2

Lesser(x, y)  == IF x < y THEN x ELSE y
Greater(x, y) == IF x > y THEN x ELSE y

\* A weight never set counts as full.
WeightOf(p) == IF p.weight = 0 THEN 100 ELSE p.weight

\* The boost in basis points; much-marked patterns lend little.
EffectiveBoost(p) ==
    LET base  == IF p.count >= 5 THEN 1500 ELSE 1000
        trust == IF p.fps > p.confirmed /\ p.fps >= 2 THEN Lesser(WeightOf(p), 40)
                 ELSE WeightOf(p)
    IN  IF p.count < MinPriorCount THEN 0 ELSE (base * trust) \div 100

\* The soft match compares the text of the reasons with the start of a hash
\* and never matches, so only the same signature does.
Match(s) == stored[s] # None /\ stored[s].count >= MinPriorCount

Weighed(w, what) ==
    CASE what \in Good -> Lesser(100, w + 5)
      [] what = "false_positive" -> Greater(20, w - 15)
      [] what = "apply_failed" -> Greater(20, w - 10)
      [] what = "apply_partial" -> Greater(20, w - 2)

RecordOutcomeAction_CountsToo(p, what) ==
    [p EXCEPT !.weight = Weighed(WeightOf(p), what), !.count = @ + 1]

\* The pattern after an outcome: occurrences are not counted again.
RecordOutcomeAction(p, what) ==
    [p EXCEPT !.weight = Weighed(WeightOf(p), what),
              !.confirmed = IF what \in Good THEN @ + 1 ELSE @,
              !.fps = IF what = "false_positive" THEN @ + 1 ELSE @]

First(weight) == [count |-> 1, confirmed |-> 0, fps |-> 0, weight |-> weight]

\* A pattern is needed to resolve it or to mark it; applying makes one.
Refused(lib, s, what) == lib[s] = None /\ what \in Outcomes \ Applying

Present(lib) == {s \in Signatures : lib[s] # None}

Shortened(lib) ==
    {[s \in Signatures |-> IF s \in kept THEN lib[s] ELSE None] :
        kept \in {k \in SUBSET Present(lib) :
            Cardinality(k) = Lesser(MaxPatterns, Cardinality(Present(lib)))}}

\* Sorted by count, the first MaxPatterns stay; ties fall either way.
Cut(lib) ==
    {cut \in Shortened(lib) :
        \A s \in Present(cut), t \in Present(lib) \ Present(cut) : lib[s].count >= lib[t].count}

\* What a recording may turn the loaded library into.  Outcomes never cut.
Record(lib, s, what) ==
    LET p == lib[s] IN
    IF what = "fired"
    THEN Cut([lib EXCEPT ![s] = IF p = None THEN First(0) ELSE [p EXCEPT !.count = @ + 1]])
    ELSE {[lib EXCEPT ![s] = RecordOutcomeAction(IF p = None THEN First(100) ELSE p, what)]}

\* What one more recording adds to the account of its signature.
Accounted(lib, w) ==
    [happened EXCEPT
        ![w.sig].seen   = IF w.what = "fired" \/ lib[w.sig] = None THEN @ + 1 ELSE @,
        ![w.sig].good   = IF w.what \in Good THEN @ + 1 ELSE @,
        ![w.sig].marked = IF w.what = "false_positive" THEN @ + 1 ELSE @]

Unlocked_Always(a) == TRUE

\* The mutex of the process of a is free; a command is alone in its process.
Unlocked(a) == a \in InAgent => holder = None

(***************************************************************************)
(* What starts a recording.                                                *)
(***************************************************************************)

Start(a, w, next) ==
    /\ stage[a] = "idle" /\ begun < MaxRecordings
    /\ begun' = begun + 1
    /\ work' = [work EXCEPT ![a] = w]
    /\ stage' = [stage EXCEPT ![a] = next]

\* A change with a fingerprint of its own reaches Analyze.
Change(a) ==
    /\ \E s \in Signatures, what \in {"fired", "resolved"}, raw \in Raws :
           Start(a, [NoWork EXCEPT !.sig = s, !.what = what, !.raw = raw, !.conf = raw], "match")
    /\ UNCHANGED <<library, history>>

\* What the library lends; one that cannot be loaded lends nothing.
Boosts(s) == {IF Match(s) THEN EffectiveBoost(stored[s]) ELSE 0}
             \cup (IF "load" \in StoreFaults THEN {0} ELSE {})

Boosted(w, boost) ==
    [w EXCEPT !.conf = Lesser(10000, w.conf + boost), !.prior = happened[w.sig].seen]

\* Analyze raises the confidence by what is known of the signature.
Analyze(a) ==
    /\ stage[a] = "match" /\ Unlocked(a)
    /\ \E boost \in Boosts(work[a].sig) :
           work' = [work EXCEPT ![a] = Boosted(work[a], boost)]
    /\ stage' = [stage EXCEPT ![a] = "learn"]
    /\ UNCHANGED <<library, begun, history>>

\* In-loop apply.  By now the incident has the summary of the analysis, which
\* is part of what is hashed: the outcome may go to another signature.
ApplyProposal(a) ==
    /\ stage[a] = "apply"
    /\ applied' = applied \cup {[raw |-> work[a].raw, conf |-> work[a].conf,
                                 prior |-> work[a].prior]}
    /\ \/ /\ \E s \in Signatures, o \in Applying :
                 work' = [work EXCEPT ![a] = [NoWork EXCEPT !.sig = s, !.what = o]]
          /\ stage' = [stage EXCEPT ![a] = "learn"]
       \/ /\ work' = [work EXCEPT ![a] = NoWork]
          /\ stage' = [stage EXCEPT ![a] = "idle"]
    /\ UNCHANGED <<library, begun, happened, forgotten, disturbed>>

\* "false positive" in Slack.
MarkFalsePositive(a) ==
    /\ \E s \in Signatures :
           Start(a, [NoWork EXCEPT !.sig = s, !.what = "false_positive"], "learn")
    /\ UNCHANGED <<library, history>>

\* An approval, in Slack or as a command, ends in an outcome of the proposal.
Approve(a) ==
    /\ \E s \in Signatures, o \in Applying :
           Start(a, [NoWork EXCEPT !.sig = s, !.what = o], "learn")
    /\ UNCHANGED <<library, history>>

(***************************************************************************)
(* A recording: lock, load; then change, save, unlock.                     *)
(***************************************************************************)

Overlaps(a) ==
    \E b \in Actors \ {a} : stage[b] = "save" /\ (a \in Commands \/ b \in Commands)

\* A library that cannot be loaded is taken for an empty one.
Load(a) ==
    /\ stage[a] = "learn" /\ Unlocked(a)
    /\ holder' = IF a \in InAgent THEN a ELSE holder
    /\ \/ /\ copy' = [copy EXCEPT ![a] = stored]
          /\ disturbed' = (disturbed \/ Overlaps(a))
       \/ /\ "load" \in StoreFaults
          /\ copy' = [copy EXCEPT ![a] = Nothing]
          /\ disturbed' = TRUE
    /\ stage' = [stage EXCEPT ![a] = "save"]
    /\ UNCHANGED <<stored, work, begun, happened, forgotten, applied>>

\* After the analysis an alert that is sure enough is acted on.
GoesOn(a) == a \in Loops /\ work[a].what \in {"fired", "resolved"} /\ work[a].conf >= Floor

Finish(a) ==
    /\ holder' = IF a \in InAgent THEN None ELSE holder
    /\ copy' = [copy EXCEPT ![a] = Nothing]
    /\ stage' = [stage EXCEPT ![a] = IF GoesOn(a) THEN "apply" ELSE "idle"]
    /\ work' = IF GoesOn(a) THEN work ELSE [work EXCEPT ![a] = NoWork]
    /\ UNCHANGED <<begun, disturbed, applied>>

Save(a) ==
    /\ stage[a] = "save"
    /\ ~Refused(copy[a], work[a].sig, work[a].what)
    /\ \E lib \in Record(copy[a], work[a].sig, work[a].what) :
           /\ stored' = lib
           /\ happened' = Accounted(copy[a], work[a])
           /\ forgotten' = forgotten \cup
                  ((Present(copy[a]) \cup {work[a].sig}) \ Present(lib))
    /\ Finish(a)

\* Nothing to resolve or to mark, or the save fails: the library stays.
Drop(a) ==
    /\ stage[a] = "save"
    /\ Refused(copy[a], work[a].sig, work[a].what) \/ "save" \in StoreFaults
    /\ Finish(a)
    /\ UNCHANGED <<stored, happened, forgotten>>

LearningNext ==
    \/ \E a \in Loops : Change(a) \/ Analyze(a) \/ ApplyProposal(a)
    \/ MarkFalsePositive(Ask)
    \/ \E a \in Commands \cup {Ask} : Approve(a)
    \/ \E a \in Actors : Load(a) \/ Save(a) \/ Drop(a)

LearningSpec == LearningInit /\ [][LearningNext]_learningVars

(***************************************************************************)
(* Properties.                                                             *)
(***************************************************************************)

BasisPoints == 0..10000

Work ==
    [sig : Signatures \cup {None}, what : Outcomes \cup {"fired", None},
     raw : BasisPoints, conf : BasisPoints, prior : Nat]
Applied == [raw : BasisPoints, conf : BasisPoints, prior : Nat]
Happened == [seen : Nat, good : Nat, marked : Nat]

(* Every pattern has been seen, a weight is unset or at least a fifth        *)
(* (clamp01 and the floor of RecordOutcomeAction), and confidences end at 1. *)
LearningTypeOK ==
    /\ stored \in Library
    /\ holder \in InAgent \cup {None}
    /\ stage \in [Actors -> {"idle", "match", "learn", "save", "apply"}]
    /\ work \in [Actors -> Work]
    /\ copy \in [Actors -> Library]
    /\ begun \in Nat
    /\ happened \in [Signatures -> Happened]
    /\ forgotten \subseteq Signatures
    /\ disturbed \in BOOLEAN
    /\ applied \subseteq Applied

Backed(p, s) ==
    p # None => /\ p.count <= happened[s].seen
                /\ p.confirmed <= happened[s].good
                /\ p.fps <= happened[s].marked

(* Whatever fails, overlaps or is cut, a pattern never claims more than was  *)
(* recorded: occurrences and outcomes are each counted once, in the library  *)
(* and in the copies on their way back to it.                                *)
CountsHonest ==
    \A s \in Signatures :
        /\ Backed(stored[s], s)
        /\ \A a \in Actors : Backed(copy[a][s], s)

(* As long as loads succeed and no other process records meanwhile, nothing  *)
(* recorded about a signature that was never cut is lost: the mutex makes    *)
(* load and save of the loops and of the Slack listener one step             *)
(* (patterns.go:162).                                                        *)
NothingLost ==
    ~disturbed => \A s \in Signatures \ forgotten : Account(stored[s]) = happened[s]

(* A pattern leaves the library only for MaxPatterns others seen at least as *)
(* often ("Cap history to keep files small", patterns.go:204).               *)
KeepsFrequent ==
    \A s \in Signatures : stored[s] # None /\ stored'[s] = None /\ ~disturbed =>
        Cardinality({t \in Present(stored') : stored'[t].count >= stored[s].count}) >= MaxPatterns

\* The most that n earlier recordings may lend to a confidence.
LiftOf(n) == IF n >= 5 THEN 1500 ELSE IF n >= 2 THEN 1000 ELSE 0

(* What the loop carries out below the floor of the policy on its own        *)
(* evidence is lifted over it by recordings made before the analysis matched *)
(* it, not by its own: two of them lend at most 0.10, five at most 0.15,     *)
(* whatever was recorded, cut, marked or left by earlier runs meanwhile      *)
(* (patterns.go:313, analyze.go matches before it records).                  *)
LiftIsEarned ==
    \A done \in applied : done.raw >= Floor \/ done.raw + LiftOf(done.prior) >= Floor

(* "still Observe-only; patterns never trigger apply/patch/delete"           *)
(* (docs/agent.md:319): what the loop carries out is sure enough without the *)
(* help of a pattern.                                                        *)
PatternsNeverApply == \A done \in applied : done.raw >= Floor

\* The library can be trusted as evidence (patterns.go:158, patterns.go:230).
LibraryHonest == LearningTypeOK /\ CountsHonest

\* What the agent learned stays learned, up to the cap (patterns.go:162, patterns.go:205).
LibraryKept == [][NothingLost' /\ KeepsFrequent]_learningVars
=============================================================================
