------------------------ MODULE AutomationPolicyProofs ------------------------
(***************************************************************************)
(* Proofs about AutomationPolicy: the engine, the editor, the gate of the  *)
(* retries and the preview come to one verdict on every list of rules, the *)
(* migration keeps it, a decision made without the SSID does not hang on   *)
(* it, and a window covers the minutes between its ends.                   *)
(***************************************************************************)
EXTENDS AutomationPolicy, WellFoundedInduction, TLAPS

(* A set of numbers that is not empty has a least element. *)
LEMMA LeastElement ==
    ASSUME NEW T \in SUBSET Nat, T # {}
    PROVE  \E x \in T : \A y \in T : x <= y
<1> DEFINE R == OpToRel(<, Nat)
<1>1. IsWellFoundedOn(R, Nat)
  BY NatLessThanWellFounded
<1>2. \A x, y \in Nat : y < x => <<y, x>> \in R
  BY DEF OpToRel
<1> HIDE DEF R
<1>3. PICK x \in T : \A y \in T : <<y, x>> \notin R
  BY <1>1, WFMin
<1>4. ASSUME NEW y \in T PROVE x <= y
  <2>1. x \in Nat /\ y \in Nat
    OBVIOUS
  <2>2. ~(y < x)
    BY <1>2, <1>3, <2>1
  <2>3. QED BY <2>1, <2>2
<1>5. QED BY <1>3, <1>4

-----------------------------------------------------------------------------
(* The first rule that decides *)

First(F) == CHOOSE i \in F : \A j \in F : i <= j

LEMMA FirstIs ==
    ASSUME NEW F \in SUBSET Nat, F # {}
    PROVE  First(F) \in F /\ \A j \in F : First(F) <= j
BY LeastElement DEF First

LEMMA FirstOnly ==
    ASSUME NEW F \in SUBSET Nat, NEW i \in F, \A j \in F : i <= j
    PROVE  First(F) = i
<1>1. First(F) \in F /\ First(F) <= i /\ i <= First(F)
  BY FirstIs
<1>2. First(F) \in Nat /\ i \in Nat
  BY <1>1
<1>3. QED BY <1>1, <1>2

Firing(rules, ctx) ==
    {i \in DOMAIN rules : ValidRule(rules[i]) /\ RuleMatches(rules[i], ctx)}

(* Evaluate, by the first rule that fires. *)
LEMMA EvaluateIs ==
    ASSUME NEW rules \in Seq(Rules), NEW ctx
    PROVE  /\ Firing(rules, ctx) = {} => Evaluate(rules, ctx) = Unmanaged
           /\ Firing(rules, ctx) # {} =>
                 Evaluate(rules, ctx) = rules[First(Firing(rules, ctx))].do
BY DEF Evaluate, Firing, First

(* A rule that fires has one of the two actions. *)
LEMMA FiringActs ==
    ASSUME NEW rules \in Seq(Rules), NEW ctx, NEW i \in Firing(rules, ctx)
    PROVE  KnownAction(rules[i].do) /\ rules[i].do # Unmanaged
BY DEF Firing, ValidRule, KnownAction, Connect, Disconnect, Unmanaged

(* EvaluateDetail walks every rule and comes to the verdict of Evaluate. *)
LEMMA WalkAgrees ==
    ASSUME NEW rules \in Seq(Rules), NEW ctx
    PROVE  DetailState(rules, ctx) = Evaluate(rules, ctx)
<1> DEFINE n == Len(rules)
           F == Firing(rules, ctx)
           Before(i) == {j \in F : j <= i}
           W == [i \in 0..n |-> IF Before(i) = {} THEN Unmanaged
                                ELSE rules[First(Before(i))].do]
           Walk[i \in 0..Len(rules)] ==
              IF i = 0 THEN Unmanaged
              ELSE IF Walk[i - 1] = Unmanaged /\ Marks(rules, ctx)[i]
                      /\ KnownAction(rules[i].do)
                   THEN rules[i].do
                   ELSE Walk[i - 1]
<1>1. DetailState(rules, ctx) = Walk[n]
  BY DEF DetailState
<1>2. n \in Nat /\ DOMAIN rules = 1..n /\ F \in SUBSET (1..n)
  BY DEF Firing
<1>3. \A i \in 1..n : Marks(rules, ctx)[i] <=> i \in F
  BY <1>2 DEF Marks, Firing
<1>4. W[0] = Unmanaged
  BY <1>2
<1>5. ASSUME NEW i \in 1..n
      PROVE  W[i] = IF W[i - 1] = Unmanaged /\ i \in F THEN rules[i].do
                    ELSE W[i - 1]
  <2>1. i \in Nat /\ i - 1 \in 0..n /\ i \in 0..n
    BY <1>2
  <2>2. Before(i) = Before(i - 1) \cup ({i} \cap F)
    BY <1>2, <2>1
  <2>3. Before(i) \in SUBSET Nat /\ Before(i - 1) \in SUBSET Nat
    BY <1>2
  <2>4. Before(i - 1) # {} =>
           rules[First(Before(i - 1))].do # Unmanaged
    BY <2>3, FirstIs, FiringActs
  <2>5. CASE i \notin F
    BY <2>1, <2>2, <2>5
  <2>6. CASE i \in F /\ Before(i - 1) = {}
    <3>1. Before(i) = {i}
      BY <2>2, <2>6
    <3>2. First({i}) = i
      BY <2>1, FirstOnly
    <3>3. QED BY <2>1, <2>6, <3>1, <3>2
  <2>7. CASE i \in F /\ Before(i - 1) # {}
    <3>1. First(Before(i - 1)) \in Before(i - 1)
          /\ \A j \in Before(i - 1) : First(Before(i - 1)) <= j
      BY <2>3, <2>7, FirstIs
    <3>2. PICK k \in Before(i - 1) :
             k = First(Before(i - 1)) /\ \A j \in Before(i) : k <= j
      <4>1. PICK k \in Before(i - 1) :
               k = First(Before(i - 1)) /\ \A j \in Before(i - 1) : k <= j
        BY <3>1
      <4>2. k \in 1..n /\ k <= i
        BY <1>2, <2>1
      <4>3. \A j \in Before(i) : j = i \/ j \in Before(i - 1)
        BY <2>2
      <4>4. \A j \in Before(i) : k <= j
        BY <4>1, <4>2, <4>3
      <4>5. QED BY <4>1, <4>4
    <3>3. k \in Before(i)
      BY <2>2
    <3>4. First(Before(i)) = k
      BY <2>3, <3>2, <3>3, FirstOnly
    <3>5. W[i] = rules[k].do /\ W[i - 1] = rules[k].do
      BY <2>1, <2>7, <3>2, <3>3, <3>4
    <3>6. QED BY <2>4, <2>7, <3>2, <3>5
  <2>8. QED BY <2>5, <2>6, <2>7
<1> DEFINE Step(f) ==
              [i \in 0..Len(rules) |->
                  IF i = 0 THEN Unmanaged
                  ELSE IF f[i - 1] = Unmanaged /\ Marks(rules, ctx)[i]
                          /\ KnownAction(rules[i].do)
                       THEN rules[i].do
                       ELSE f[i - 1]]
<1>6. \A i \in F : KnownAction(rules[i].do)
  BY FiringActs
<1>7. W = Step(W)
  <2>1. ASSUME NEW i \in 0..n PROVE W[i] = Step(W)[i]
    <3>1. CASE i = 0
      BY <1>2, <1>4, <3>1
    <3>2. CASE i # 0
      <4>1. i \in 1..n
        BY <1>2, <3>2
      <4>2. W[i] = IF W[i - 1] = Unmanaged /\ i \in F THEN rules[i].do
                   ELSE W[i - 1]
        BY <1>5, <4>1
      <4> HIDE DEF W
      <4>3. QED BY <1>3, <1>6, <3>2, <4>1, <4>2
    <3>3. QED BY <3>1, <3>2
  <2>2. QED BY <2>1
<1>8. Walk = Step(Walk)
  <2>1. \E f : f = Step(f)
    <3> HIDE DEF W, Step
    <3> QED BY <1>7
  <2>2. Walk = CHOOSE f : f = Step(f)
    OBVIOUS
  <2> HIDE DEF Walk, Step
  <2>3. QED BY <2>1, <2>2
<1> HIDE DEF W, Walk
<1>9. \A i \in 0..n : Walk[i] = W[i]
  <2> DEFINE T == {i \in 0..n : Walk[i] # W[i]}
  <2>1. SUFFICES ASSUME T # {} PROVE FALSE
    OBVIOUS
  <2>2. PICK i \in T : \A j \in T : i <= j
    <3>1. T \in SUBSET Nat
      BY <1>2
    <3> HIDE DEF T
    <3>2. QED BY <2>1, <3>1, LeastElement
  <2>3. Walk[i] = Step(Walk)[i] /\ W[i] = Step(W)[i]
    BY <1>7, <1>8
  <2>4. i # 0
    BY <2>2, <2>3
  <2>5. i - 1 \in 0..n /\ i - 1 \notin T
    BY <1>2, <2>2, <2>4
  <2>6. Walk[i - 1] = W[i - 1]
    BY <2>5
  <2>7. QED BY <2>2, <2>3, <2>4, <2>6
<1>10. W[n] = Evaluate(rules, ctx)
  <2>1. Before(n) = F /\ n \in 0..n
    BY <1>2
  <2>2. W[n] = IF F = {} THEN Unmanaged ELSE rules[First(F)].do
    BY <2>1 DEF W
  <2>3. QED BY <2>2, EvaluateIs
<1>11. QED BY <1>1, <1>2, <1>9, <1>10

(* So the editor's preview of a policy is the engine's verdict. *)
LEMMA DetailIsEvaluate ==
    ASSUME NEW rules \in Seq(Rules), NEW def, NEW ctx
    PROVE  DetailPolicy(rules, def, ctx) = EvaluatePolicy(rules, def, ctx)
BY WalkAgrees DEF DetailPolicy, EvaluatePolicy

-----------------------------------------------------------------------------
(* The migration *)

Otherwises(rules) == {i \in DOMAIN rules : Otherwise(rules[i])}

(* Cut is the first "otherwise" rule, or one past the end. *)
LEMMA CutIs ==
    ASSUME NEW rules \in Seq(Rules)
    PROVE  /\ Cut(rules) \in 1..(Len(rules) + 1)
           /\ \A i \in 1..(Cut(rules) - 1) : ~Otherwise(rules[i])
           /\ Cut(rules) <= Len(rules) =>
                 Cut(rules) \in DOMAIN rules /\ Otherwise(rules[Cut(rules)])
<1>1. Otherwises(rules) \in SUBSET Nat /\ Len(rules) \in Nat
      /\ DOMAIN rules = 1..Len(rules)
  BY DEF Otherwises
<1>2. CASE Otherwises(rules) = {}
  BY <1>1, <1>2 DEF Cut, Otherwises
<1>3. CASE Otherwises(rules) # {}
  <2>1. Cut(rules) = First(Otherwises(rules))
    BY <1>3 DEF Cut, First, Otherwises
  <2>2. Cut(rules) \in Otherwises(rules)
        /\ \A j \in Otherwises(rules) : Cut(rules) <= j
    BY <1>1, <1>3, <2>1, FirstIs
  <2>3. Cut(rules) \in DOMAIN rules /\ Otherwise(rules[Cut(rules)])
    BY <2>2 DEF Otherwises
  <2>4. ASSUME NEW i \in 1..(Cut(rules) - 1) PROVE ~Otherwise(rules[i])
    <3>1. i \in DOMAIN rules /\ ~(Cut(rules) <= i)
      BY <1>1, <2>3
    <3>2. QED BY <2>2, <3>1 DEF Otherwises
  <2>5. QED BY <1>1, <2>3, <2>4
<1>4. QED BY <1>2, <1>3

(* What Normalize leaves of a list is its beginning. *)
LEMMA NormalRulesIs ==
    ASSUME NEW rules \in Seq(Rules)
    PROVE  /\ NormalRules(rules) \in Seq(Rules)
           /\ Len(NormalRules(rules)) = Cut(rules) - 1
           /\ \A i \in 1..(Cut(rules) - 1) : NormalRules(rules)[i] = rules[i]
<1>1. Cut(rules) \in 1..(Len(rules) + 1) /\ Len(rules) \in Nat
  BY CutIs
<1> DEFINE k == Cut(rules) - 1
<1>2. k \in 0..Len(rules)
  BY <1>1
<1>3. SubSeq(rules, 1, k) \in Seq(Rules)
      /\ Len(SubSeq(rules, 1, k)) = k
      /\ \A i \in 1..k : SubSeq(rules, 1, k)[i] = rules[i]
  <2> HIDE DEF k
  <2> QED BY <1>2
<1>4. QED BY <1>3 DEF NormalRules

(* A normalised list has no lone "otherwise" rule, so Normalize leaves it. *)
LEMMA NormalIsFixed ==
    ASSUME NEW rules \in Seq(Rules)
    PROVE  /\ Cut(NormalRules(rules)) = Len(NormalRules(rules)) + 1
           /\ NormalRules(NormalRules(rules)) = NormalRules(rules)
<1> DEFINE new == NormalRules(rules)
<1>1. new \in Seq(Rules) /\ Len(new) = Cut(rules) - 1 /\ Len(new) \in Nat
      /\ \A i \in 1..Len(new) : new[i] = rules[i]
  BY NormalRulesIs
<1>2. \A i \in 1..Len(new) : ~Otherwise(new[i])
  BY <1>1, CutIs
<1> HIDE DEF new
<1>3. Cut(new) = Len(new) + 1
  <2>1. Cut(new) \in 1..(Len(new) + 1)
        /\ (Cut(new) <= Len(new) => Otherwise(new[Cut(new)]))
    BY <1>1, CutIs
  <2>2. QED BY <1>1, <1>2, <2>1
<1>4. NormalRules(new) = new
  <2>1. /\ NormalRules(new) \in Seq(Rules)
        /\ Len(NormalRules(new)) = Len(new)
        /\ \A i \in 1..Len(new) : NormalRules(new)[i] = new[i]
    BY <1>1, <1>3, NormalRulesIs
  <2>2. QED BY <1>1, <2>1
<1>5. QED BY <1>3, <1>4 DEF new

(* The Default State that Normalize keeps, or makes. *)
Defaults == {Absent, Connect, Disconnect}

LEMMA NormalDefaultIs ==
    ASSUME NEW rules \in Seq(Rules), NEW def \in Defaults
    PROVE  /\ NormalDefault(rules, def) \in Defaults
           /\ rules # <<>> => KnownAction(NormalDefault(rules, def))
<1>1. Cut(rules) <= Len(rules) => KnownAction(rules[Cut(rules)].do)
  BY CutIs DEF Otherwise, ValidRule
<1>2. QED
  BY <1>1 DEF NormalDefault, Defaults, KnownAction, Absent, Connect, Disconnect

Policies == [rules : Seq(Rules), def : Defaults]

LEMMA NormalIs ==
    ASSUME NEW p \in Policies
    PROVE  Normal(p) \in Policies /\ Normal(Normal(p)) = Normal(p)
<1>1. p.rules \in Seq(Rules) /\ p.def \in Defaults
  BY DEF Policies
<1>2. Normal(p).rules = NormalRules(p.rules)
      /\ Normal(p).def = NormalDefault(p.rules, p.def)
  BY DEF Normal
<1>3. NormalRules(p.rules) \in Seq(Rules)
      /\ NormalDefault(p.rules, p.def) \in Defaults
  BY <1>1, NormalRulesIs, NormalDefaultIs
<1>4. NormalRules(NormalRules(p.rules)) = NormalRules(p.rules)
  BY <1>1, NormalIsFixed
<1>5. NormalDefault(NormalRules(p.rules), NormalDefault(p.rules, p.def))
         = NormalDefault(p.rules, p.def)
  <2>1. CASE NormalRules(p.rules) = <<>>
    BY <2>1 DEF NormalDefault
  <2>2. CASE p.rules = <<>>
    <3>1. Len(NormalRules(p.rules)) = 0
      <4>1. Len(p.rules) = 0
        BY <2>2
      <4>2. Cut(p.rules) \in 1..(Len(p.rules) + 1)
        BY <1>1, CutIs
      <4>3. Len(NormalRules(p.rules)) = Cut(p.rules) - 1
        BY <1>1, NormalRulesIs
      <4>4. QED BY <4>1, <4>2, <4>3
    <3>2. QED BY <1>3, <2>1, <3>1
  <2>3. CASE p.rules # <<>>
    <3>1. NormalDefault(p.rules, p.def) # Absent
      BY <1>1, <2>3, NormalDefaultIs
         DEF KnownAction, Absent, Connect, Disconnect
    <3>2. QED BY <3>1 DEF NormalDefault
  <2>4. QED BY <2>2, <2>3
<1>6. QED
  BY <1>2, <1>3, <1>4, <1>5 DEF Normal, Policies

(* An "otherwise" rule fires everywhere. *)
LEMMA OtherwiseFires ==
    ASSUME NEW rules \in Seq(Rules), NEW ctx, Cut(rules) <= Len(rules)
    PROVE  Cut(rules) \in Firing(rules, ctx)
<1> DEFINE r == rules[Cut(rules)]
<1>1. Cut(rules) \in DOMAIN rules /\ r \in Rules /\ Otherwise(r)
  BY CutIs
<1>2. ValidRule(r) /\ Len(r.when) = 1 /\ r.when[1].type = "none_match"
  BY <1>1 DEF Otherwise
<1>3. r.when = [i \in 1..Len(r.when) |-> r.when[i]]
  BY <1>1, PolicyAssumption
<1>4. \A i \in DOMAIN r.when : i = 1
  BY <1>2, <1>3
<1>5. \A i \in DOMAIN r.when : ConditionMatches(r.when[i], ctx)
  BY <1>2, <1>4 DEF ConditionMatches
<1>6. RuleMatches(r, ctx)
  BY <1>2, <1>5 DEF RuleMatches, ValidRule
<1>7. QED BY <1>1, <1>2, <1>6 DEF Firing

(* Of the rules of the old list those in front of the cut fire in the new. *)
LEMMA NormalFiring ==
    ASSUME NEW rules \in Seq(Rules), NEW ctx
    PROVE  Firing(NormalRules(rules), ctx)
              = {i \in Firing(rules, ctx) : i < Cut(rules)}
<1>1. NormalRules(rules) \in Seq(Rules)
      /\ Len(NormalRules(rules)) = Cut(rules) - 1
      /\ \A i \in 1..(Cut(rules) - 1) : NormalRules(rules)[i] = rules[i]
  BY NormalRulesIs
<1>2. Cut(rules) \in 1..(Len(rules) + 1) /\ Len(rules) \in Nat
  BY CutIs
<1>3. DOMAIN NormalRules(rules) = 1..(Cut(rules) - 1)
      /\ DOMAIN rules = 1..Len(rules)
  BY <1>1
<1>4. QED BY <1>1, <1>2, <1>3 DEF Firing

(* The migrated policy's verdict is the old list's, with disconnect for
   unmanaged where there were rules. *)
LEMMA NormalVerdict ==
    ASSUME NEW rules \in Seq(Rules), NEW ctx
    PROVE  LET verdict == EvaluatePolicy(rules, Absent, ctx)
           IN EvaluatePolicy(NormalRules(rules),
                             NormalDefault(rules, Absent), ctx)
                 = IF verdict = Unmanaged /\ rules # <<>> THEN Disconnect
                   ELSE verdict
<1> DEFINE F == Firing(rules, ctx)
           new == NormalRules(rules)
           G == Firing(new, ctx)
           cut == Cut(rules)
<1>1. /\ new \in Seq(Rules) /\ F \in SUBSET Nat /\ G \in SUBSET Nat
      /\ cut \in Nat
      /\ \A i \in 1..(cut - 1) : new[i] = rules[i]
  <2>1. /\ new \in Seq(Rules)
        /\ \A i \in 1..(cut - 1) : new[i] = rules[i]
    BY NormalRulesIs
  <2>2. cut \in Nat
    <3>1. cut \in 1..(Len(rules) + 1)
      BY CutIs
    <3>2. QED BY <3>1
  <2>3. \A list \in Seq(Rules) : Firing(list, ctx) \in SUBSET Nat
    BY DEF Firing
  <2> HIDE DEF new
  <2>4. F \in SUBSET Nat /\ G \in SUBSET Nat
    BY <2>1, <2>3
  <2>5. QED BY <2>1, <2>2, <2>4 DEF new
<1>2. G = {i \in F : i < cut}
  BY NormalFiring
<1>3. EvaluatePolicy(rules, Absent, ctx) = Evaluate(rules, ctx)
  BY DEF EvaluatePolicy, KnownAction, Absent, Connect, Disconnect
<1>4. \A i \in F : rules[i].do # Unmanaged
  BY FiringActs
<1>5. CASE G # {}
  <2>1. First(G) \in G /\ \A j \in G : First(G) <= j
    BY <1>1, <1>5, FirstIs
  <2>2. PICK k \in G : k = First(G) /\ \A j \in G : k <= j
    BY <2>1
  <2>3. k \in F /\ k < cut /\ k \in Nat
    BY <1>1, <1>2
  <2>4. \A j \in F : k <= j
    BY <1>1, <1>2, <2>2, <2>3
  <2>5. First(F) = k
    BY <1>1, <2>3, <2>4, FirstOnly
  <2>6. new[k] = rules[k]
    <3>1. k \in 1..(cut - 1)
      BY <1>1, <2>3 DEF Firing
    <3>2. QED BY <1>1, <3>1
  <2>7. Evaluate(new, ctx) = rules[k].do /\ Evaluate(rules, ctx) = rules[k].do
    BY <1>1, <1>5, <2>2, <2>3, <2>5, <2>6, EvaluateIs
  <2>8. rules[k].do # Unmanaged
    BY <1>4, <2>3
  <2>9. QED BY <1>3, <2>7, <2>8 DEF EvaluatePolicy
<1>6. CASE G = {} /\ cut <= Len(rules)
  <2>1. cut \in F /\ rules # <<>>
    BY <1>6, OtherwiseFires DEF Firing
  <2>2. First(F) = cut
    <3>1. \A j \in F : cut <= j
      BY <1>1, <1>2, <1>6
    <3>2. QED BY <1>1, <2>1, <3>1, FirstOnly
  <2>3. Evaluate(rules, ctx) = rules[cut].do
    BY <2>1, <2>2, EvaluateIs
  <2>4. Evaluate(new, ctx) = Unmanaged
    BY <1>1, <1>6, EvaluateIs
  <2>5. NormalDefault(rules, Absent) = rules[cut].do
    BY <1>6, <2>1 DEF NormalDefault
  <2>6. KnownAction(rules[cut].do) /\ rules[cut].do # Unmanaged
    BY <2>1, FiringActs
  <2>7. QED BY <1>3, <2>3, <2>4, <2>5, <2>6 DEF EvaluatePolicy
<1>7. CASE G = {} /\ ~(cut <= Len(rules))
  <2>1. cut = Len(rules) + 1 /\ Len(rules) \in Nat
    BY <1>7, CutIs
  <2>2. F = {}
    <3>1. \A i \in F : i < cut
      BY <2>1 DEF Firing
    <3>2. QED BY <1>2, <1>7, <3>1
  <2>3. Evaluate(rules, ctx) = Unmanaged /\ Evaluate(new, ctx) = Unmanaged
    BY <1>1, <1>7, <2>2, EvaluateIs
  <2>4. NormalDefault(rules, Absent) =
           IF rules = <<>> THEN Absent ELSE Disconnect
    BY <1>7 DEF NormalDefault
  <2>5. QED
    BY <1>3, <2>3, <2>4
       DEF EvaluatePolicy, KnownAction, Absent, Connect, Disconnect, Unmanaged
<1>8. QED BY <1>5, <1>6, <1>7

-----------------------------------------------------------------------------
(* The gates *)

(* What a policy asks for. *)
LEMMA DesiredIs ==
    ASSUME NEW p \in Policies, NEW ctx
    PROVE  /\ DetailPolicy(p.rules, p.def, ctx)
                 \in {Connect, Disconnect, Unmanaged}
           /\ p.rules = <<>> /\ p.def \in {Absent, None} =>
                 DetailPolicy(p.rules, p.def, ctx) = Unmanaged
<1>1. p.rules \in Seq(Rules) /\ p.def \in Defaults
  BY DEF Policies
<1>2. DetailPolicy(p.rules, p.def, ctx) = EvaluatePolicy(p.rules, p.def, ctx)
  BY <1>1, DetailIsEvaluate
<1>3. Evaluate(p.rules, ctx) \in {Connect, Disconnect, Unmanaged}
  <2>1. CASE Firing(p.rules, ctx) = {}
    BY <1>1, <2>1, EvaluateIs
  <2>2. CASE Firing(p.rules, ctx) # {}
    <3>1. Firing(p.rules, ctx) \in SUBSET Nat
      BY <1>1 DEF Firing
    <3>2. First(Firing(p.rules, ctx)) \in Firing(p.rules, ctx)
      BY <2>2, <3>1, FirstIs
    <3>3. QED
      BY <1>1, <2>2, <3>2, EvaluateIs, FiringActs DEF KnownAction
  <2>3. QED BY <2>1, <2>2
<1>4. p.rules = <<>> => Evaluate(p.rules, ctx) = Unmanaged
  <2>1. Firing(<<>>, ctx) = {}
    BY DEF Firing
  <2>2. QED BY <1>1, <2>1, EvaluateIs
<1>5. QED
  BY <1>2, <1>3, <1>4
     DEF EvaluatePolicy, KnownAction, Absent, None, Connect, Disconnect

(* Where the engine connects the gate is open. *)
LEMMA GateIsOpen ==
    ASSUME NEW p \in Policies, NEW ctx, NEW t, NEW e \in Envs(t),
           Decide(p, ctx, e).action = Connect
    PROVE  ConnectAllowed(Decide(p, ctx, e))
BY DesiredIs
   DEF Decide, Reconcile, ConnectAllowed, Envs, Connect, Disconnect, Unmanaged,
       None

(* What passes the gate is not taken down. *)
LEMMA GateIsKept ==
    ASSUME NEW p \in Policies, NEW ctx, NEW t, NEW e \in Envs(t),
           ConnectAllowed(Decide(p, ctx, e))
    PROVE  Decide(p, ctx, [e EXCEPT !.active = TRUE]).action # Disconnect
<1> DEFINE a == [e EXCEPT !.active = TRUE]
<1>1. /\ a.exempted = e.exempted /\ a.paused = e.paused /\ a.off = e.off
      /\ a.on = e.on /\ a.policyBlock = e.policyBlock
      /\ a.dnsBlock = e.dnsBlock /\ a.backingOff = e.backingOff
  BY DEF Envs
<1> HIDE DEF a
<1>2. QED
  BY <1>1, DesiredIs
     DEF Decide, Reconcile, ConnectAllowed, Connect, Disconnect, Unmanaged,
         None, a

(* The preview shows what the engine would do. *)
LEMMA PreviewIsAction ==
    ASSUME NEW p \in Policies, NEW ctx, NEW t, NEW e \in Envs(t)
    PROVE  LET d == Decide(p, ctx, e)
           IN \A act \in {Connect, Disconnect} :
                 Preview(d) = act <=> d.action = act
<1> DEFINE d == Decide(p, ctx, e)
<1>1. d.action \in {None, "unresolved", "skip-manual-off", "skip-manual-on",
                    "blocked", "deferred", Connect, Disconnect}
  BY DEF Decide, Reconcile
<1>2. d.exempted => d.action \in {None, "unresolved"}
  <2>1. d.exempted <=> e.exempted
    BY DEF Decide, Envs
  <2>2. e.exempted => d.action \in {None, "unresolved"}
    BY DEF Decide, Envs
  <2>3. QED BY <2>1, <2>2
<1>3. d.action = Connect => ~d.off
  BY DEF Decide, Reconcile, Connect, Disconnect, None
<1>4. d.action = Disconnect => ~d.on
  BY DEF Decide, Reconcile, Connect, Disconnect, None
<1> HIDE DEF d
<1>5. QED
  BY <1>1, <1>2, <1>3, <1>4
     DEF Preview, Connect, Disconnect, None, Unmanaged, d

-----------------------------------------------------------------------------
(* What does not hang on the SSID *)

(* Rules that do not mention the SSID decide the same under every SSID. *)
LEMMA BlindVerdict ==
    ASSUME NEW rules \in Seq(Rules), NEW ctx \in Contexts, NEW s,
           ~RulesReferenceSSID(rules), NEW def
    PROVE  DetailPolicy(rules, def, [ctx EXCEPT !.ssid = s])
              = DetailPolicy(rules, def, ctx)
<1> DEFINE other == [ctx EXCEPT !.ssid = s]
<1>1. /\ other.ips = ctx.ips /\ other.mac = ctx.mac /\ other.gwIP = ctx.gwIP
      /\ other.ifaces = ctx.ifaces /\ other.now = ctx.now
  BY PolicyAssumption
<1> HIDE DEF other
<1>2. ASSUME NEW i \in DOMAIN rules, ValidRule(rules[i]),
             NEW j \in DOMAIN rules[i].when
      PROVE  ConditionMatches(rules[i].when[j], other)
                <=> ConditionMatches(rules[i].when[j], ctx)
  <2>1. rules[i].when[j].type \notin {"ssid", "wifi"}
    BY <1>2 DEF RulesReferenceSSID
  <2>2. ValidCondition(rules[i].when[j])
    BY <1>2 DEF ValidRule
  <2>3. rules[i].when[j].type \in {"ethernet", "none_match", "time", "subnet",
                                   "network", "gateway_ip", "interface"}
    BY <2>1, <2>2 DEF ValidCondition
  <2>4. QED BY <1>1, <2>3 DEF ConditionMatches
<1>3. Firing(rules, other) = Firing(rules, ctx)
  BY <1>2 DEF Firing, RuleMatches
<1>4. Evaluate(rules, other) = Evaluate(rules, ctx)
  BY <1>3, EvaluateIs
<1>5. QED
  BY <1>4, DetailIsEvaluate DEF EvaluatePolicy, other

(* A decision with consequences that is made without the SSID stays when the
   SSID comes to be known. *)
LEMMA BlindDecision ==
    ASSUME NEW p \in Policies, NEW ctx \in Contexts, NEW t, NEW e \in Envs(t),
           NEW s, SSIDUndecidable(ctx),
           KnownAction(Decide(p, ctx, e).action)
    PROVE  Decide(p, [ctx EXCEPT !.ssid = s], e).action
              = Decide(p, ctx, e).action
<1> DEFINE other == [ctx EXCEPT !.ssid = s]
           d == Decide(p, ctx, e)
<1>1. /\ other.ips = ctx.ips /\ other.ifaces = ctx.ifaces
      /\ other.ssid = s /\ ctx.ssid = None
  BY PolicyAssumption DEF SSIDUndecidable
<1>2. /\ ctx.ips # {} /\ ~e.exempted /\ ~e.paused
      /\ DetailPolicy(p.rules, p.def, ctx) # Unmanaged
      /\ ~(/\ p.rules # <<>> \/ p.def \notin {Absent, None}
           /\ SSIDUndecidable(ctx) /\ RulesReferenceSSID(p.rules))
  BY <1>1
     DEF Decide, Reconcile, KnownAction, Connect, Disconnect, Unmanaged, None
<1>3. ~RulesReferenceSSID(p.rules)
  BY <1>2, DesiredIs
<1>4. DetailPolicy(p.rules, p.def, other) = DetailPolicy(p.rules, p.def, ctx)
  BY <1>3, BlindVerdict DEF Policies
<1> HIDE DEF other
<1>5. QED
  BY <1>1, <1>2, <1>3, <1>4 DEF Decide, other

-----------------------------------------------------------------------------
(* Windows *)

(* The clock, up to a day past midnight. *)
LEMMA Clock ==
    ASSUME NEW x \in Nat, x < 2 * DayLen
    PROVE  x % DayLen = IF x < DayLen THEN x ELSE x - DayLen
BY RulesAssumption

(* The minutes that follow on the start of a window. *)
LEMMA Minutes ==
    ASSUME NEW start \in 0..DayLen, NEW end \in 0..DayLen,
           start > end => start < DayLen,
           NEW m \in 0..(DayLen - 1)
    PROVE  LET length == IF start <= end THEN end - start
                         ELSE DayLen - start + end
           IN (\E k \in 0..(length - 1) : m = (start + k) % DayLen) <=>
                 \/ start <= end /\ start <= m /\ m < end
                 \/ start > end /\ (start <= m \/ m < end)
<1> DEFINE length == IF start <= end THEN end - start
                     ELSE DayLen - start + end
           inside == \/ start <= end /\ start <= m /\ m < end
                     \/ start > end /\ (start <= m \/ m < end)
<1>1. DayLen \in Nat \ {0} /\ length \in 0..DayLen
      /\ start \in Nat /\ end \in Nat /\ m \in Nat
  BY RulesAssumption
<1>2. ASSUME NEW k \in 0..(length - 1), m = (start + k) % DayLen PROVE inside
  <2>1. k \in Nat /\ start + k \in Nat /\ start + k < 2 * DayLen
    BY <1>1
  <2>2. m = IF start + k < DayLen THEN start + k ELSE start + k - DayLen
    <3> DEFINE x == start + k
    <3>1. x \in Nat /\ x < 2 * DayLen /\ m = x % DayLen
      BY <1>2, <2>1
    <3> HIDE DEF x
    <3>2. m = IF x < DayLen THEN x ELSE x - DayLen
      BY <3>1, Clock
    <3>3. QED BY <1>1, <2>1, <3>2 DEF x
  <2>3. QED BY <1>1, <2>1, <2>2
<1>3. ASSUME inside PROVE \E k \in 0..(length - 1) : m = (start + k) % DayLen
  <2>1. CASE start <= m
    <3>1. m - start \in 0..(length - 1) /\ start + (m - start) = m
      BY <1>1, <1>3, <2>1
    <3>2. m = m % DayLen
      BY <1>1, Clock
    <3>3. QED BY <3>1, <3>2
  <2>2. CASE m < start
    <3> DEFINE k == DayLen - start + m
    <3>1. k \in 0..(length - 1) /\ start + k = m + DayLen
      BY <1>1, <1>3, <2>2
    <3>2. m = (m + DayLen) % DayLen
      BY <1>1, Clock
    <3>3. QED BY <3>1, <3>2
  <2>3. QED BY <1>1, <2>1, <2>2
<1>4. QED BY <1>2, <1>3

(* timeMatches and the minutes of the window. *)
LEMMA WindowIs ==
    ASSUME NEW w, ValidWindow(w),
           w.start \in {Unset} \cup 0..(DayLen - 1),
           w.end \in {Unset} \cup 0..(DayLen - 1),
           NEW day \in 0..6, NEW m \in 0..(DayLen - 1)
    PROVE  InWindow(w, [day |-> day, mins |-> m]) <=>
              (w.days = {} \/ day \in w.days) /\ m \in WindowMinutes(w)
<1> DEFINE start == IF w.start = Unset THEN 0 ELSE w.start
           end == IF w.end = Unset THEN DayLen ELSE w.end
<1>1. start \in 0..DayLen /\ end \in 0..DayLen
      /\ (start > end => start < DayLen)
  BY RulesAssumption DEF Unset
<1>2. m \in WindowMinutes(w) <=>
         \E k \in 0..((IF start <= end THEN end - start
                       ELSE DayLen - start + end) - 1) :
            m = (start + k) % DayLen
  BY DEF WindowMinutes
<1>3. m \in WindowMinutes(w) <=>
         \/ start <= end /\ start <= m /\ m < end
         \/ start > end /\ (start <= m \/ m < end)
  <2> HIDE DEF start, end
  <2> QED BY <1>1, <1>2, Minutes
<1>4. w.start = Unset /\ w.end = Unset =>
         start <= end /\ start <= m /\ m < end
  BY RulesAssumption
<1>5. QED
  BY <1>3, <1>4 DEF InWindow

-----------------------------------------------------------------------------
(* The stored policies *)

(* What every operation leaves in settings.json: lists of rules that may be
   written, a Default State that is an action or none. *)
PolicyInv == policy \in [Tunnels -> Policies]

LEMMA InitPolicies == Init => PolicyInv
<1> SUFFICES ASSUME Init PROVE PolicyInv
  OBVIOUS
<1>1. ASSUME NEW rules \in Lists PROVE rules \in Seq(Rules)
  <2>1. PICK n \in 0..MaxRules : rules \in [1..n -> Rules]
    BY DEF Lists
  <2>2. n \in Nat
    BY PolicyAssumption
  <2>3. QED BY <2>1, <2>2
<1>2. policy \in [Tunnels -> [rules : Lists, def : {Absent, Connect}]]
  BY DEF Init
<1>3. [rules : Lists, def : {Absent, Connect}] \subseteq Policies
  BY <1>1 DEF Policies, Defaults
<1>4. QED BY <1>2, <1>3 DEF PolicyInv

(* EnsureAutomation leaves such policies. *)
LEMMA LoadedPolicies == PolicyInv => Loaded \in [Tunnels -> Policies]
<1> SUFFICES ASSUME PolicyInv PROVE Loaded \in [Tunnels -> Policies]
  OBVIOUS
<1>1. \A t \in Tunnels : Normal(policy[t]) \in Policies
  BY NormalIs DEF PolicyInv
<1>2. QED BY <1>1 DEF Loaded

LEMMA NoPolicyIs == NoPolicy \in Policies
BY DEF NoPolicy, Policies, Defaults

(* One tunnel's policy replaced. *)
LEMMA OneReplaced ==
    ASSUME NEW old \in [Tunnels -> Policies], NEW t, NEW p \in Policies
    PROVE  [old EXCEPT ![t] = p] \in [Tunnels -> Policies]
OBVIOUS

LEMMA SavePolicies ==
    ASSUME PolicyInv, NEW t \in Tunnels, NEW rules \in Lists, NEW def,
           SaveAutomationRules(t, rules, def)
    PROVE  PolicyInv'
<1>1. rules \in Seq(Rules)
  <2>1. PICK n \in 0..MaxRules : rules \in [1..n -> Rules]
    BY DEF Lists
  <2>2. n \in Nat
    BY PolicyAssumption
  <2>3. QED BY <2>1, <2>2
<1> DEFINE p == [rules |-> rules,
                 def |-> IF KnownAction(def) THEN def ELSE Disconnect]
<1>2. p \in Policies
  BY <1>1 DEF Policies, Defaults, KnownAction
<1>3. policy' = [Loaded EXCEPT ![t] = p]
  BY DEF SaveAutomationRules
<1> HIDE DEF p
<1>4. QED
  BY <1>2, <1>3, LoadedPolicies, OneReplaced DEF PolicyInv

LEMMA AddPolicies ==
    ASSUME PolicyInv, NEW t \in Tunnels, NEW r \in Rules, AutomationAdd(t, r)
    PROVE  PolicyInv'
<1> DEFINE q == Loaded[t]
           p == [rules |-> Append(q.rules, r),
                 def |-> IF q.def = Absent THEN Disconnect ELSE q.def]
<1>1. Loaded \in [Tunnels -> Policies]
  BY LoadedPolicies
<1>2. p \in Policies
  BY <1>1 DEF Policies, Defaults
<1>3. policy' = [Loaded EXCEPT ![t] = p]
  BY <1>1 DEF AutomationAdd
<1> HIDE DEF p
<1>4. QED BY <1>1, <1>2, <1>3, OneReplaced DEF PolicyInv

LEMMA RmPolicies ==
    ASSUME PolicyInv, NEW t \in Tunnels, NEW i, AutomationRm(t, i)
    PROVE  PolicyInv'
<1> DEFINE q == Loaded[t]
           rest == [j \in 1..(Len(q.rules) - 1) |->
                       q.rules[IF j < i THEN j ELSE j + 1]]
           p == IF rest = <<>> /\ ~KnownAction(q.def) THEN NoPolicy
                ELSE [rules |-> rest, def |-> q.def]
<1>1. Loaded \in [Tunnels -> Policies] /\ i \in DOMAIN q.rules
  BY LoadedPolicies DEF AutomationRm
<1>2. q.rules \in Seq(Rules) /\ q.def \in Defaults
  BY <1>1 DEF Policies
<1>3. rest \in Seq(Rules)
  <2>1. Len(q.rules) - 1 \in Nat
    BY <1>1, <1>2
  <2>2. \A j \in 1..(Len(q.rules) - 1) :
           q.rules[IF j < i THEN j ELSE j + 1] \in Rules
    BY <1>1, <1>2
  <2>3. QED BY <2>1, <2>2
<1>4. policy' = [Loaded EXCEPT ![t] = p]
  BY <1>1 DEF AutomationRm
<1>5. p \in Policies
  <2> HIDE DEF rest
  <2> QED BY <1>2, <1>3, NoPolicyIs DEF Policies
<1> HIDE DEF p
<1>6. QED BY <1>1, <1>4, <1>5, OneReplaced DEF PolicyInv

LEMMA MovePolicies ==
    ASSUME PolicyInv, NEW t \in Tunnels, NEW from, NEW to,
           AutomationMove(t, from, to)
    PROVE  PolicyInv'
<1> DEFINE old == Loaded[t].rules
           moved == [j \in DOMAIN old |->
                        IF j = to THEN old[from]
                        ELSE IF from <= j /\ j < to THEN old[j + 1]
                        ELSE IF to < j /\ j <= from THEN old[j - 1]
                        ELSE old[j]]
           p == [Loaded[t] EXCEPT !.rules = moved]
<1>1. Loaded \in [Tunnels -> Policies]
      /\ from \in DOMAIN old /\ to \in DOMAIN old
  BY LoadedPolicies DEF AutomationMove
<1>2. old \in Seq(Rules) /\ Loaded[t].def \in Defaults
  BY <1>1 DEF Policies
<1>3. moved \in Seq(Rules)
  <2>1. Len(old) \in Nat /\ DOMAIN old = 1..Len(old)
    BY <1>2
  <2>2. \A j \in DOMAIN old : moved[j] \in Rules
    BY <1>1, <1>2, <2>1
  <2>3. moved \in [1..Len(old) -> Rules]
    <3>1. moved = [j \in DOMAIN old |-> moved[j]]
      OBVIOUS
    <3> HIDE DEF moved
    <3>2. QED BY <2>1, <2>2, <3>1
  <2> HIDE DEF moved, old
  <2>4. QED BY <2>1, <2>3
<1>4. policy' = [Loaded EXCEPT ![t] = p]
  BY <1>1 DEF AutomationMove
<1>5. p \in Policies
  <2> HIDE DEF moved
  <2> QED BY <1>1, <1>3 DEF Policies
<1> HIDE DEF p
<1>6. QED BY <1>1, <1>4, <1>5, OneReplaced DEF PolicyInv

LEMMA DefaultPolicies ==
    ASSUME PolicyInv, NEW t \in Tunnels, NEW def, AutomationDefault(t, def)
    PROVE  PolicyInv'
<1> DEFINE p == [Loaded[t] EXCEPT !.def = def]
<1>1. Loaded \in [Tunnels -> Policies] /\ def \in Defaults
  BY LoadedPolicies DEF AutomationDefault, KnownAction, Defaults
<1>2. policy' = [Loaded EXCEPT ![t] = p]
  BY <1>1 DEF AutomationDefault
<1>3. p \in Policies
  BY <1>1 DEF Policies
<1> HIDE DEF p
<1>4. QED BY <1>1, <1>2, <1>3, OneReplaced DEF PolicyInv

LEMMA RenamePolicies ==
    ASSUME PolicyInv, NEW t \in Tunnels, NEW u \in Tunnels,
           RenameTunnelRules(t, u)
    PROVE  PolicyInv'
<1> DEFINE p == [rules |-> IF policy[t] # NoPolicy THEN policy[t].rules
                           ELSE policy[u].rules,
                 def |-> IF policy[t].def # Absent THEN policy[t].def
                         ELSE policy[u].def]
           moved == [policy EXCEPT ![u] = p]
<1>1. policy \in [Tunnels -> Policies]
  BY DEF PolicyInv
<1>2. p \in Policies
  BY <1>1 DEF Policies
<1>3. policy' = [policy EXCEPT ![u] = p, ![t] = NoPolicy]
  BY <1>1 DEF RenameTunnelRules
<1> HIDE DEF p
<1>4. policy' = [moved EXCEPT ![t] = NoPolicy]
  BY <1>1, <1>3
<1>5. moved \in [Tunnels -> Policies]
  BY <1>1, <1>2, OneReplaced
<1> HIDE DEF moved
<1>6. QED BY <1>4, <1>5, NoPolicyIs, OneReplaced DEF PolicyInv

(* Every operation keeps it. *)
LEMMA NextPolicies == PolicyInv /\ [Next]_vars => PolicyInv'
<1> SUFFICES ASSUME PolicyInv, [Next]_vars PROVE PolicyInv'
  OBVIOUS
<1>1. ASSUME NEW t \in Tunnels, Edit(t) PROVE PolicyInv'
  BY <1>1, SavePolicies, AddPolicies, RmPolicies, MovePolicies, DefaultPolicies
     DEF Edit
<1>2. ASSUME NEW t \in Tunnels, DeleteTunnelRules(t) PROVE PolicyInv'
  <2>1. policy' = [policy EXCEPT ![t] = NoPolicy]
    BY <1>2 DEF DeleteTunnelRules
  <2>2. QED BY <2>1, NoPolicyIs, OneReplaced DEF PolicyInv
<1>3. ASSUME NEW t \in Tunnels, NEW u \in Tunnels, RenameTunnelRules(t, u)
      PROVE  PolicyInv'
  BY <1>3, RenamePolicies
<1>4. ASSUME NEW t \in Tunnels, Manual(t) PROVE PolicyInv'
  BY <1>4 DEF Manual, SetManualOff, SetManualOn, ClearOverrides, PolicyInv
<1>5. CASE ClearOverrides(Tunnels)
  BY <1>5 DEF ClearOverrides, PolicyInv
<1>6. CASE UNCHANGED vars
  BY <1>6 DEF vars, PolicyInv
<1>7. QED BY <1>1, <1>2, <1>3, <1>4, <1>5, <1>6 DEF Next

LEMMA PoliciesAlways == Spec => []PolicyInv
BY InitPolicies, NextPolicies, PTL DEF Spec

(* The rules of a stored policy, as it is kept and as it is loaded. *)
LEMMA StoredPolicy ==
    ASSUME PolicyInv, NEW t \in Tunnels
    PROVE  /\ policy[t] \in Policies /\ Normal(policy[t]) \in Policies
           /\ policy[t].rules \in Seq(Rules) /\ policy[t].def \in Defaults
<1>1. policy[t] \in Policies
  BY DEF PolicyInv
<1>2. QED BY <1>1, NormalIs DEF Policies

-----------------------------------------------------------------------------
(* Evaluate, EvaluateDetail, DecisionConnectAllowed and handleAutomationPreview
   each decide with code of their own: they come to one verdict on every stored
   policy, in every context, whatever else the helper knows. *)
THEOREM VerdictIsOne == Spec => []OneVerdict
<1>1. ASSUME PolicyInv PROVE OneVerdict
  <2>1. MarkingAgrees
    BY <1>1, StoredPolicy, DetailIsEvaluate DEF MarkingAgrees
  <2>2. GateAgrees
    BY <1>1, StoredPolicy, GateIsOpen, GateIsKept DEF GateAgrees, Decision
  <2>3. PreviewAgrees
    BY <1>1, StoredPolicy, PreviewIsAction DEF PreviewAgrees, Decision
  <2>4. QED BY <2>1, <2>2, <2>3 DEF OneVerdict
<1>2. QED BY <1>1, PoliciesAlways, PTL

(* Automation.Normalize: migrating an old file changes no verdict but the
   documented one, and doing it again changes nothing. *)
THEOREM MigrationIsSafe == Spec => []MigrationKeepsVerdicts
<1>1. ASSUME PolicyInv PROVE MigrationKeepsVerdicts
  <2>1. ASSUME NEW t \in Tunnels
        PROVE  /\ Normal(Normal(policy[t])) = Normal(policy[t])
               /\ Normal(policy[t]).rules = NormalRules(policy[t].rules)
               /\ Normal(policy[t]).def
                     = NormalDefault(policy[t].rules, policy[t].def)
    BY <1>1, StoredPolicy, NormalIs DEF Normal
  <2>2. ASSUME NEW t \in Tunnels, policy[t].def = Absent, NEW ctx \in Contexts
        PROVE  LET verdict == EvaluatePolicy(policy[t].rules, Absent, ctx)
               IN EvaluatePolicy(Normal(policy[t]).rules,
                                 Normal(policy[t]).def, ctx)
                     = IF verdict = Unmanaged /\ policy[t].rules # <<>>
                       THEN Disconnect ELSE verdict
    BY <1>1, <2>1, <2>2, StoredPolicy, NormalVerdict
  <2>3. QED BY <2>1, <2>2 DEF MigrationKeepsVerdicts
<1>2. QED BY <1>1, PoliciesAlways, PTL

(* EvaluateTunnelDecision under SSIDUndecidable: what is done without knowing
   the SSID would be done under every SSID. *)
THEOREM BlindActionsAreSafe == Spec => []BlindActionIsSafe
<1>1. ASSUME PolicyInv PROVE BlindActionIsSafe
  <2>1. ASSUME NEW t \in Tunnels, NEW ctx \in Contexts, NEW e \in Envs(t),
               SSIDUndecidable(ctx), KnownAction(Decision(t, ctx, e).action),
               NEW c \in Contexts
        PROVE  Decision(t, [ctx EXCEPT !.ssid = c.ssid], e).action
                  = Decision(t, ctx, e).action
    <3> DEFINE p == Normal(policy[t])
               s == c.ssid
    <3>1. p \in Policies /\ KnownAction(Decide(p, ctx, e).action)
      BY <1>1, <2>1, StoredPolicy DEF Decision
    <3> HIDE DEF p, s
    <3>2. Decide(p, [ctx EXCEPT !.ssid = s], e).action
             = Decide(p, ctx, e).action
      BY <2>1, <3>1, BlindDecision
    <3>3. QED BY <3>2 DEF Decision, p, s
  <2>2. QED BY <2>1 DEF BlindActionIsSafe
<1>2. QED BY <1>1, PoliciesAlways, PTL

(* timeMatches: a window is the minutes from its start to its end, over
   midnight too, for a day of any length. *)
THEOREM WindowsAreExact == Spec => []WindowsExact
<1>1. ASSUME PolicyInv PROVE WindowsExact
  <2>1. ASSUME NEW t \in Tunnels, NEW i \in DOMAIN policy[t].rules,
               NEW j \in DOMAIN policy[t].rules[i].when,
               policy[t].rules[i].when[j].type = "time",
               ValidCondition(policy[t].rules[i].when[j])
        PROVE  LET w == policy[t].rules[i].when[j].val
               IN /\ ValidWindow(w)
                  /\ w.start \in {Unset} \cup 0..(DayLen - 1)
                  /\ w.end \in {Unset} \cup 0..(DayLen - 1)
    <3>1. policy[t].rules[i] \in Rules
      BY <1>1, StoredPolicy
    <3>2. policy[t].rules[i].when[j].val # Bad
          /\ ValidWindow(policy[t].rules[i].when[j].val)
      BY <2>1 DEF ValidCondition
    <3>3. QED BY <2>1, <3>1, <3>2, PolicyAssumption
  <2>2. ASSUME NEW t \in Tunnels, NEW i \in DOMAIN policy[t].rules,
               NEW j \in DOMAIN policy[t].rules[i].when,
               policy[t].rules[i].when[j].type = "time",
               ValidCondition(policy[t].rules[i].when[j]),
               NEW day \in 0..6, NEW m \in 0..(DayLen - 1)
        PROVE  LET w == policy[t].rules[i].when[j].val
               IN InWindow(w, [day |-> day, mins |-> m]) <=>
                     /\ w.days = {} \/ day \in w.days
                     /\ m \in WindowMinutes(w)
    BY <2>1, <2>2, WindowIs
  <2>3. QED BY <2>2 DEF WindowsExact
<1>2. QED BY <1>1, PoliciesAlways, PTL

=============================================================================
