---------------------------- MODULE GatewayProofs ----------------------------
(***************************************************************************)
(* Gateway, for every set of requests, prompts and models, every price and *)
(* every budget.                                                           *)
(*                                                                         *)
(* The inductive invariant IInv has a part for each request by itself      *)
(* (ReqOK), for the caches, for the rows of the log, for the books and for *)
(* the gauge.  Every step of a request keeps its own part; the parts that  *)
(* span requests follow from what the step does to the one it moves.  The  *)
(* safety properties of Gateway, and that it implements Ledger, are        *)
(* consequences of IInv; the bounds of Ledger then hold of the whole path. *)
(***************************************************************************)
EXTENDS Gateway, FiniteSetTheorems, SequenceTheorems, TLAPS

------------------------------------------------------------------------------
(* Complexity: what the bands amount to, for prompts of every length.       *)
Rank(level) == IF level = "simple" THEN 0 ELSE IF level = "moderate" THEN 1 ELSE 2

(* What the parts of a score can be.                                        *)
LEMMA Parts ==
  ASSUME NEW f \in Features
  PROVE  /\ LengthScore(f.tokens) \in Int /\ LengthScore(f.tokens) <= 6000
         /\ CodeScore(f) \in Int /\ (f.code => CodeScore(f) = 3000)
         /\ (~f.code => CodeScore(f) = 0)
         /\ QuestionScore(f) \in Int /\ (f.question => QuestionScore(f) = 1000)
         /\ (~f.question => QuestionScore(f) = 0)
<1>1. f.tokens \in Int
  BY MaxTokensAssumption DEF Features
<1>2. LengthScore(f.tokens) \in Int /\ LengthScore(f.tokens) <= 6000
  BY <1>1 DEF LengthScore
<1>. QED
  BY <1>2 DEF CodeScore, QuestionScore

(* A higher score is never a lower level.                                   *)
LEMMA HigherIsNoCheaper ==
  ASSUME NEW f, NEW g, Score(f) \in Int, Score(g) \in Int, Score(f) <= Score(g)
  PROVE  Rank(LevelOf(f)) <= Rank(LevelOf(g))
BY DEF Rank, LevelOf, IsSimple, IsComplex

(* A prompt with no more of anything is no higher level.                    *)
LEMMA MoreIsNoCheaper ==
  ASSUME NEW f \in Features, NEW g \in Features,
         LengthScore(f.tokens) <= LengthScore(g.tokens),
         CodeScore(f) <= CodeScore(g), QuestionScore(f) <= QuestionScore(g)
  PROVE  Rank(LevelOf(f)) <= Rank(LevelOf(g))
<1>1. /\ LengthScore(f.tokens) \in Int /\ CodeScore(f) \in Int /\ QuestionScore(f) \in Int
      /\ LengthScore(g.tokens) \in Int /\ CodeScore(g) \in Int /\ QuestionScore(g) \in Int
  BY Parts
<1>2. Score(f) \in Int /\ Score(g) \in Int /\ Score(f) <= Score(g)
  BY <1>1 DEF Score
<1>. QED
  BY <1>2, HigherIsNoCheaper

(* What the bands amount to.  The premium provider is for long prompts with *)
(* code, whatever their length a prompt without code never reaches it (a    *)
(* long question falls exactly on the bound), a short plain prompt goes to  *)
(* the cheapest model; and no prompt is taken for less than another for     *)
(* being longer, or for showing code or a question.                         *)
SoundBands ==
    \A f, g \in Features :
        /\ LevelOf(f) = "complex" => f.code /\ f.tokens > 250
        /\ f.tokens < 84 /\ ~(f.code /\ f.question) => LevelOf(f) = "simple"
        /\ NoMore(f, g) => Rank(LevelOf(f)) <= Rank(LevelOf(g))

(* So it is for prompts of every length (estimate_complexity and the bands  *)
(* of decide_route).                                                        *)
THEOREM BandsAreSound == SoundBands
<1> SUFFICES ASSUME NEW f \in Features, NEW g \in Features
             PROVE  /\ LevelOf(f) = "complex" => f.code /\ f.tokens > 250
                    /\ f.tokens < 84 /\ ~(f.code /\ f.question) => LevelOf(f) = "simple"
                    /\ NoMore(f, g) => Rank(LevelOf(f)) <= Rank(LevelOf(g))
  BY DEF SoundBands
<1>0. f.tokens \in Int /\ g.tokens \in Int
  BY MaxTokensAssumption DEF Features
<1>1. LevelOf(f) = "complex" => f.code /\ f.tokens > 250
  <2> SUFFICES ASSUME LevelOf(f) = "complex" PROVE f.code /\ f.tokens > 250
    OBVIOUS
  <2>1. LengthScore(f.tokens) + CodeScore(f) + QuestionScore(f) > 7000
    BY DEF LevelOf, IsSimple, IsComplex, Score
  <2>2. f.code
    BY <2>1, Parts
  <2>3. LengthScore(f.tokens) > 3000
    BY <2>1, <2>2, Parts
  <2>. QED
    BY <2>2, <2>3, <1>0 DEF LengthScore
<1>2. f.tokens < 84 /\ ~(f.code /\ f.question) => LevelOf(f) = "simple"
  <2> SUFFICES ASSUME f.tokens < 84, ~(f.code /\ f.question) PROVE LevelOf(f) = "simple"
    OBVIOUS
  <2>1. LengthScore(f.tokens) < 1000
    BY <1>0 DEF LengthScore
  <2>2. LengthScore(f.tokens) + CodeScore(f) + QuestionScore(f) < 4000
    BY <2>1, Parts
  <2>. QED
    BY <2>2 DEF LevelOf, IsSimple, Score
<1>3. ASSUME NoMore(f, g) PROVE Rank(LevelOf(f)) <= Rank(LevelOf(g))
  <2>1. LengthScore(f.tokens) <= LengthScore(g.tokens)
    BY <1>0, <1>3 DEF NoMore, LengthScore
  <2>2. CodeScore(f) <= CodeScore(g) /\ QuestionScore(f) <= QuestionScore(g)
    BY <1>3 DEF NoMore, CodeScore, QuestionScore
  <2>. QED
    BY <2>1, <2>2, MoreIsNoCheaper
<1>. QED
  BY <1>1, <1>2, <1>3

------------------------------------------------------------------------------
(* What can be said of one request by itself.                               *)
Fields == {"pc", "prompt", "asked", "stream", "hit", "answer", "under", "route",
           "told", "spend"}

Typed(q) ==
    /\ DOMAIN q = Fields
    /\ q.pc \in {"idle"} \cup AtWork \cup Over
    /\ q.prompt \in Prompt /\ q.hit \in {"miss", "exact_hit", "semantic_hit"}
    /\ q.answer \in Answer /\ q.route.model \in Model
    /\ q.told \in Told /\ q.spend \in Nat

Placed(q) ==
    /\ q.pc \in AtWork => q.asked \in Asked
    /\ q.pc \in {"calling", "opening"} => q.hit = "miss"
    /\ q.pc = "closing" <=> q.told = "final" /\ q.pc \in AtWork
    /\ q.told = "answer" => q.pc = "ended"

(* The prompts for which an answer that was generated for p may be served.  *)
Alike(p, mine) == mine = p \/ Similarity[<<p, mine>>] >= Enough

(* A stream that broke off has an answer that is no whole one only on its   *)
(* way to the log.                                                          *)
AfterStream == {"logging", "logged", "reading spend", "spend read"}

Answers(q) ==
    /\ q.answer.text = "part" => q.told = "error" /\ q.pc \in AfterStream
    /\ q.hit # "miss" => Alike(q.answer.prompt, Redacted[q.prompt])
    /\ q.hit = "miss" /\ q.pc = "streaming" => q.answer.prompt = Redacted[q.prompt]

Reason(level) ==
    IF level = "simple" THEN "simple_prompt"
    ELSE IF level = "complex" THEN "complex_prompt" ELSE "moderate_prompt"

Routed(q) ==
    q.pc \notin Over /\ q.route.reason \in DOMAIN Band =>
        q.route.reason = Reason(LevelOf(Looks[Redacted[q.prompt]]))

ReqOK(q) == Typed(q) /\ Placed(q) /\ Answers(q) /\ Routed(q)

(* The caches hold what may pass for an answer, at the prompt it is for.    *)
CachedFor(a, p) == a \in Answer /\ a.prompt = p /\ a.text # "part"
Entry == {e \in [prompt : Prompt, answer : Answer] : CachedFor(e.answer, e.prompt)}

CachesOK ==
    /\ \A k \in DOMAIN exact : k \in Key /\ CachedFor(exact[k], k[1])
    /\ semantic \in Seq(Entry)

------------------------------------------------------------------------------
(* Records after an EXCEPT, field by field.                                 *)
LEMMA FinishFields ==
  ASSUME NEW q, DOMAIN q = Fields, NEW pc, NEW e
  PROVE  LET x == Finish(q, pc, e) IN
           /\ DOMAIN x = Fields /\ x.pc = pc /\ x.told = e /\ x.route = q.route
           /\ x.prompt = AnyPrompt /\ x.hit = "miss" /\ x.answer = NoAnswer /\ x.spend \in Nat
BY DEF Fields, Finish, NewRequest

LEMMA NewFields ==
  ASSUME NEW p, NEW m, NEW s
  PROVE  LET x == NewRequest(p, m, s) IN
           /\ DOMAIN x = Fields /\ x.pc = "idle" /\ x.told = "nothing"
           /\ x.route.model = "mock-small" /\ x.route.reason = "none"
           /\ x.prompt = p /\ x.asked = m /\ x.stream = s
           /\ x.hit = "miss" /\ x.answer = NoAnswer /\ x.spend \in Nat
BY DEF Fields, NewRequest, Decision

(* Everything a request is, but for how far it is and what was said of it.  *)
Keeps(q, x) ==
    /\ DOMAIN x = Fields
    /\ x.prompt = q.prompt /\ x.asked = q.asked /\ x.stream = q.stream /\ x.hit = q.hit

LEMMA FoundFields ==
  ASSUME NEW p, NEW m, NEW s, NEW status, NEW a
  PROVE  LET x == Found(NewRequest(p, m, s), status, a) IN
           /\ DOMAIN x = Fields /\ x.pc = "reading day" /\ x.told = "nothing"
           /\ x.route.model = "mock-small" /\ x.route.reason = "none"
           /\ x.prompt = p /\ x.asked = m /\ x.hit = status /\ x.answer = a /\ x.spend \in Nat
BY DEF Fields, NewRequest, Found, Decision

(* A shorter text is still an answer.                                       *)
LEMMA TextReplaced ==
  ASSUME NEW a \in Answer, NEW t \in Text
  PROVE  /\ [a EXCEPT !.text = t] \in Answer
         /\ [a EXCEPT !.text = t].text = t /\ [a EXCEPT !.text = t].prompt = a.prompt
BY DEF Answer

(* No answer is an answer too: what a miss starts from.                     *)
LEMMA Nothing == AnyPrompt \in Prompt /\ NoAnswer \in Answer /\ NoAnswer.text = "empty"
<1>1. AnyPrompt \in Prompt
  BY PromptAssumption DEF AnyPrompt
<1>2. NoAnswer \in Answer /\ NoAnswer.text = "empty"
  BY <1>1, ModelAssumption DEF NoAnswer, Answer, Text
<1>. QED
  BY <1>1, <1>2

(* Somebody else's request.                                                 *)
LEMMA SetOne ==
  ASSUME DOMAIN req = Request, NEW r \in Request, NEW x, Set(r, x)
  PROVE  /\ DOMAIN req' = Request /\ req'[r] = x
         /\ \A s \in Request : s # r => req'[s] = req[s]
BY DEF Set

------------------------------------------------------------------------------
(* What every step of a request keeps.                                      *)

(* Not in the log for sure, and in the log for sure.                        *)
Unlogged == {"idle", "reading day", "reading month", "calling", "opening", "streaming",
             "closing", "logging"}
Booked == {"logged", "reading spend", "spend read", "ended"}

(* A step that has nothing to do with the books: the log, the counters, the *)
(* gauge.                                                                   *)
Plain(q, x) ==
    /\ q.told # "answer" /\ x.told # "answer"
    /\ x.pc \in Unlogged => q.pc \in Unlogged
    /\ x.pc \notin Booked
    /\ q.pc \in Unlogged \/ x.route = q.route

(* A request that only gets further is still one.                           *)
LEMMA MovedOK ==
  ASSUME NEW q, ReqOK(q), q.pc \in AtWork, NEW x, Keeps(q, x),
         x.answer = q.answer, x.route = q.route, x.spend \in Nat,
         x.pc \in AtWork, x.told \in Told \ {"answer"},
         x.pc \in {"calling", "opening"} => q.hit = "miss",
         x.pc = "closing" <=> x.told = "final",
         x.pc = "streaming" => q.pc = "streaming" \/ q.hit # "miss",
         q.answer.text = "part" => x.told = "error" /\ x.pc \in AfterStream
  PROVE  ReqOK(x)
<1>1. Typed(x)
  BY DEF ReqOK, Typed, Keeps
<1>2. Placed(x)
  BY DEF ReqOK, Placed, Keeps
<1>3. Answers(x)
  BY DEF ReqOK, Answers, Keeps
<1>4. Routed(x)
  <2>1. q.pc \notin Over
    BY DEF AtWork, Over
  <2>. QED
    BY <2>1 DEF ReqOK, Routed, Keeps
<1>. QED
  BY <1>1, <1>2, <1>3, <1>4 DEF ReqOK

(* So is one that is over.                                                  *)
LEMMA FinishOK ==
  ASSUME NEW q, ReqOK(q), NEW pc \in Over, NEW e \in Told, e = "answer" => pc = "ended"
  PROVE  ReqOK(Finish(q, pc, e))
<1> DEFINE x == Finish(q, pc, e)
<1>1. /\ DOMAIN x = Fields /\ x.pc = pc /\ x.route = q.route /\ x.told = e
      /\ x.prompt = AnyPrompt /\ x.hit = "miss" /\ x.answer = NoAnswer /\ x.spend \in Nat
  BY FinishFields DEF ReqOK, Typed
<1> HIDE DEF x
<1>2. Typed(x)
  BY <1>1, Nothing DEF ReqOK, Typed
<1>3. Placed(x)
  BY <1>1 DEF Placed, Over, AtWork
<1>4. Answers(x)
  BY <1>1, Nothing DEF Answers, Over
<1>5. Routed(x)
  BY <1>1 DEF Routed
<1>. QED
  BY <1>2, <1>3, <1>4, <1>5 DEF ReqOK, x

(* A handler that is cut off before its end.                                *)
LEMMA CutOffStep ==
  ASSUME NEW q, ReqOK(q), q.pc # "ended", NEW pc \in Over \ {"ended"}, NEW e \in {q.told, "error"}
  PROVE  LET x == Finish(q, pc, e) IN ReqOK(x) /\ Plain(q, x) /\ LedgerPhase(x) = "out"
<1>1. q.told \in Told /\ q.told # "answer" /\ DOMAIN q = Fields
  BY DEF ReqOK, Typed, Placed
<1> DEFINE x == Finish(q, pc, e)
<1>2. x.pc = pc /\ x.told = e /\ x.route = q.route
  BY <1>1, FinishFields
<1>3. e \in Told /\ e # "answer"
  BY <1>1 DEF Told
<1>4. ReqOK(x)
  BY <1>3, FinishOK
<1> HIDE DEF x
<1>5. Plain(q, x)
  BY <1>1, <1>2, <1>3 DEF Plain, Over, Unlogged, Booked
<1>6. LedgerPhase(x) = "out"
  BY <1>2 DEF LedgerPhase, Over
<1>. QED
  BY <1>4, <1>5, <1>6 DEF x

(* The steps that end a handler before its end.                             *)
CutsOff(r) ==
    RateLimited(r) \/ CallFails(r) \/ OpenFails(r) \/ DatabaseFails(r) \/ Disconnect(r)

LEMMA CutOffs ==
  ASSUME NEW r \in Request, DOMAIN req = Request, ReqOK(req[r]), CutsOff(r)
  PROVE  ReqOK(req'[r]) /\ Plain(req[r], req'[r]) /\ LedgerPhase(req'[r]) = "out"
<1>1. req[r].pc # "ended"
  BY DEF CutsOff, RateLimited, CallFails, OpenFails, DatabaseFails, Disconnect
<1>2. \E pc \in Over \ {"ended"}, e \in {req[r].told, "error"} : Set(r, Finish(req[r], pc, e))
  BY DEF CutsOff, RateLimited, CallFails, OpenFails, DatabaseFails, Disconnect, CutOff, Over
<1>3. PICK pc \in Over \ {"ended"}, e \in {req[r].told, "error"} :
           req'[r] = Finish(req[r], pc, e)
  BY <1>2, SetOne
<1>. QED
  BY <1>1, <1>3, CutOffStep

(* A set of numbers that is not empty has a least one.                      *)
LEMMA LeastNumber ==
  ASSUME NEW T \in SUBSET Nat, T # {}
  PROVE  \E m \in T : \A n \in T : m <= n
<1> DEFINE Upto == {0 .. m : m \in T}
<1>1. IsWellFoundedOn(StrictSubsetOrdering(Nat), FiniteSubsetsOf(Nat))
  BY FS_StrictSubsetOrderingWellFounded
<1>2. Upto \subseteq FiniteSubsetsOf(Nat)
  <2>1. \A m \in T : 0 .. m \in SUBSET Nat /\ IsFiniteSet(0 .. m)
    BY FS_Interval
  <2>. QED
    BY <2>1 DEF FiniteSubsetsOf
<1>3. Upto # {}
  OBVIOUS
<1>4. PICK s \in Upto : \A t \in Upto : ~(<<t, s>> \in StrictSubsetOrdering(Nat))
  <2> HIDE DEF Upto
  <2>. QED
    BY <1>1, <1>2, <1>3, WFMin
<1>5. PICK m \in T : s = 0 .. m
  BY <1>4
<1>6. ASSUME NEW n \in T, n < m PROVE FALSE
  <2>1. 0 .. n \subseteq 0 .. m /\ 0 .. n # 0 .. m
    BY <1>6
  <2>2. 0 .. n \in SUBSET Nat /\ 0 .. m \in SUBSET Nat
    OBVIOUS
  <2>3. <<0 .. n, 0 .. m>> \in StrictSubsetOrdering(Nat)
    BY <2>1, <2>2, Zenon DEF StrictSubsetOrdering
  <2>4. 0 .. n \in Upto
    OBVIOUS
  <2>. QED
    BY <1>4, <1>5, <2>3, <2>4, Zenon
<1>. QED
  BY <1>6

(* best_match finds nothing, or an entry that is similar enough.            *)
LEMMA BestMatchIsSimilar ==
  ASSUME CachesOK, NEW p \in Prompt
  PROVE  LET i == BestMatch(p) IN
           i # 0 => /\ i \in DOMAIN semantic
                    /\ Similarity[<<semantic[i].prompt, p>>] >= Enough
<1> DEFINE best == {i \in DOMAIN semantic :
                      /\ Similarity[<<semantic[i].prompt, p>>] >= Enough
                      /\ \A j \in DOMAIN semantic :
                           Similarity[<<semantic[j].prompt, p>>]
                             <= Similarity[<<semantic[i].prompt, p>>]}
<1>1. best \in SUBSET Nat
  <2>1. DOMAIN semantic = 1 .. Len(semantic) /\ Len(semantic) \in Nat
    BY LenProperties DEF CachesOK
  <2>. QED
    BY <2>1
<1>2. BestMatch(p) = IF best = {} THEN 0 ELSE Min(best)
  BY DEF BestMatch
<1>3. ASSUME best # {} PROVE Min(best) \in best
  <2> HIDE DEF best
  <2>1. \E m \in best : \A n \in best : m <= n
    BY <1>1, <1>3, LeastNumber
  <2>. QED
    BY <2>1 DEF Min
<1>. QED
  BY <1>2, <1>3

(* A request with what the caches have for it, or with nothing.             *)
LEMMA FoundOK ==
  ASSUME NEW p \in Prompt, NEW m \in Asked, NEW s,
         NEW status \in {"miss", "exact_hit", "semantic_hit"},
         NEW a \in Answer, a.text # "part", status # "miss" => Alike(a.prompt, Redacted[p])
  PROVE  LET x == Found(NewRequest(p, m, s), status, a)
         IN  ReqOK(x) /\ x.pc = "reading day" /\ x.told = "nothing"
<1> DEFINE x == Found(NewRequest(p, m, s), status, a)
<1>1. /\ DOMAIN x = Fields /\ x.pc = "reading day" /\ x.told = "nothing"
      /\ x.route.model = "mock-small" /\ x.route.reason = "none"
      /\ x.prompt = p /\ x.asked = m /\ x.hit = status /\ x.answer = a /\ x.spend \in Nat
  BY FoundFields
<1> HIDE DEF x
<1>2. Typed(x)
  BY <1>1, ModelAssumption DEF Typed, AtWork, Told
<1>3. Placed(x)
  BY <1>1 DEF Placed
<1>4. Answers(x)
  BY <1>1 DEF Answers
<1>5. Routed(x)
  BY <1>1 DEF Routed, Band
<1>. QED
  BY <1>1, <1>2, <1>3, <1>4, <1>5 DEF ReqOK, x

(* Whatever the lookup finds is alike, and is no broken stream.             *)
LEMMA LookupOK ==
  ASSUME CachesOK, NEW p \in Prompt, NEW m \in Asked, NEW s
  PROVE  LET x == Lookup(NewRequest(p, m, s))
         IN  ReqOK(x) /\ x.pc = "reading day" /\ x.told = "nothing"
<1> DEFINE q == NewRequest(p, m, s)
           key == <<Redacted[p], m>>
           i == SemanticLookup(Redacted[p])
<1>1. q.prompt = p /\ q.asked = m
  BY NewFields
<1>2. ExactKey(q) = key /\ Redacted[p] \in Prompt
  BY <1>1, PromptAssumption DEF ExactKey
<1>3. Lookup(q) = IF key \in DOMAIN exact THEN Found(q, "exact_hit", exact[key])
                  ELSE IF i # 0 THEN Found(q, "semantic_hit", semantic[i].answer)
                  ELSE Found(q, "miss", NoAnswer)
  BY <1>1, <1>2 DEF Lookup
<1>4. ASSUME NEW status \in {"miss", "exact_hit", "semantic_hit"}, NEW a \in Answer,
             a.text # "part", status # "miss" => Alike(a.prompt, Redacted[p])
      PROVE  LET x == Found(q, status, a)
             IN  ReqOK(x) /\ x.pc = "reading day" /\ x.told = "nothing"
  BY <1>4, FoundOK, Zenon
<1> HIDE DEF q
<1>5. CASE key \in DOMAIN exact
  <2>1. CachedFor(exact[key], Redacted[p])
    BY <1>5 DEF CachesOK
  <2>2. exact[key] \in Answer /\ exact[key].text # "part" /\ Alike(exact[key].prompt, Redacted[p])
    BY <2>1 DEF CachedFor, Alike
  <2>3. Lookup(q) = Found(q, "exact_hit", exact[key])
    BY <1>3, <1>5
  <2>. QED
    <3>1. LET x == Found(q, "exact_hit", exact[key])
          IN  ReqOK(x) /\ x.pc = "reading day" /\ x.told = "nothing"
      BY <2>2, <1>4, Zenon
    <3>. QED
      BY <2>3, <3>1 DEF q
<1>6. CASE key \notin DOMAIN exact /\ i # 0
  <2>1. i = BestMatch(Redacted[p])
    BY <1>6 DEF SemanticLookup
  <2>2. i \in DOMAIN semantic /\ Similarity[<<semantic[i].prompt, Redacted[p]>>] >= Enough
    BY <1>2, <1>6, <2>1, BestMatchIsSimilar
  <2>3. semantic[i] \in Entry
    BY <2>2, ElementOfSeq, LenProperties DEF CachesOK
  <2>4. /\ semantic[i].answer \in Answer /\ semantic[i].answer.text # "part"
        /\ semantic[i].answer.prompt = semantic[i].prompt
    BY <2>3 DEF Entry, CachedFor
  <2>5. Alike(semantic[i].answer.prompt, Redacted[p])
    BY <2>2, <2>4 DEF Alike
  <2>6. Lookup(q) = Found(q, "semantic_hit", semantic[i].answer)
    BY <1>3, <1>6
  <2>. QED
    <3>1. LET x == Found(q, "semantic_hit", semantic[i].answer)
          IN  ReqOK(x) /\ x.pc = "reading day" /\ x.told = "nothing"
      BY <2>4, <2>5, <1>4, Zenon
    <3>. QED
      BY <2>6, <3>1 DEF q
<1>7. CASE key \notin DOMAIN exact /\ i = 0
  <2>1. Lookup(q) = Found(q, "miss", NoAnswer)
    BY <1>3, <1>7
  <2>2. NoAnswer.text # "part"
    BY Nothing
  <2>. QED
    <3>1. LET x == Found(q, "miss", NoAnswer)
          IN  ReqOK(x) /\ x.pc = "reading day" /\ x.told = "nothing"
      BY <2>2, Nothing, <1>4, Zenon
    <3>. QED
      BY <2>1, <3>1 DEF q
<1>. QED
  BY <1>5, <1>6, <1>7 DEF q

(* A request comes in.                                                      *)
LEMMA Arrival ==
  ASSUME NEW r \in Request, DOMAIN req = Request, ReqOK(req[r]), CachesOK,
         NEW p \in Prompt, NEW m \in Asked, NEW s, Arrive(r, p, m, s)
  PROVE  ReqOK(req'[r]) /\ Plain(req[r], req'[r]) /\ LedgerPhase(req'[r]) = "out"
<1>1. req'[r] = Lookup(NewRequest(p, m, s)) /\ req[r].pc = "idle"
  BY SetOne DEF Arrive
<1>2. ReqOK(req'[r]) /\ req'[r].pc = "reading day" /\ req'[r].told = "nothing"
  BY <1>1, LookupOK
<1>3. req[r].told # "answer"
  BY <1>1 DEF ReqOK, Placed
<1>4. Plain(req[r], req'[r])
  BY <1>1, <1>2, <1>3 DEF Plain, Unlogged, Booked
<1>. QED
  BY <1>2, <1>4 DEF LedgerPhase

(* The steps of a request between its route decision and its row.           *)
Carried == {"calling", "opening", "streaming", "closing", "logging"}

(* They leave the budget alone.                                             *)
LEMMA CarriedOn ==
  ASSUME NEW q, ReqOK(q), NEW x, ReqOK(x), q.pc \in Carried, x.pc \in Carried,
         x.route = q.route
  PROVE  Plain(q, x) /\ LedgerPhase(x) = LedgerPhase(q)
<1>1. q.told # "answer" /\ x.told # "answer"
  BY DEF ReqOK, Placed, Carried
<1>. QED
  BY <1>1 DEF Plain, LedgerPhase, Carried, Unlogged, Booked

(* The first query of check_budget.                                         *)
LEMMA DayRead ==
  ASSUME NEW r \in Request, DOMAIN req = Request, ReqOK(req[r]), ReadDaily(r)
  PROVE  /\ ReqOK(req'[r]) /\ Plain(req[r], req'[r])
         /\ LedgerPhase(req[r]) = "out"
         /\ LedgerPhase(req'[r]) = IF WithinDay THEN "under" ELSE "over"
<1> DEFINE q == req[r]  x == [req[r] EXCEPT !.pc = "reading month", !.under = WithinDay]
<1>1. req'[r] = x /\ q.pc = "reading day" /\ DOMAIN q = Fields
  BY SetOne DEF ReadDaily, ReqOK, Typed
<1>2. /\ Keeps(q, x) /\ x.pc = "reading month" /\ x.told = q.told /\ x.answer = q.answer
      /\ x.under = WithinDay /\ x.route = q.route /\ x.spend = q.spend
  BY <1>1 DEF Keeps, Fields
<1> HIDE DEF x
<1>3. q.told \in Told \ {"answer"} /\ q.told # "final" /\ q.spend \in Nat
  BY <1>1 DEF ReqOK, Typed, Placed, AtWork
<1>4. q.answer.text # "part"
  BY <1>1 DEF ReqOK, Answers, AfterStream
<1>5. ReqOK(x)
  BY <1>1, <1>2, <1>3, <1>4, MovedOK DEF AtWork
<1>6. Plain(q, x)
  BY <1>1, <1>2, <1>3 DEF Plain, Unlogged, Booked
<1>7. LedgerPhase(q) = "out"
  BY <1>1 DEF LedgerPhase
<1>8. LedgerPhase(x) = IF x.under THEN "under" ELSE "over"
  BY <1>2 DEF LedgerPhase
<1>9. LedgerPhase(x) = IF WithinDay THEN "under" ELSE "over"
  BY <1>2, <1>8, Zenon
<1>. QED
  BY <1>1, <1>5, <1>6, <1>7, <1>9

(* What a provider generates for a request.                                 *)
LEMMA GeneratedIsAnswer ==
  ASSUME NEW q, ReqOK(q), NEW by \in Model, NEW text \in Text
  PROVE  LET a == Generated(q, by, text)
         IN  a \in Answer /\ a.text = text /\ a.prompt = Redacted[q.prompt]
<1>1. Redacted[q.prompt] \in Prompt /\ q.route.model \in Model
  BY PromptAssumption DEF ReqOK, Typed
<1>. QED
  BY <1>1 DEF Generated, Answer

(* execute_with_fallback returns.                                           *)
LEMMA Called ==
  ASSUME NEW r \in Request, DOMAIN req = Request, ReqOK(req[r]),
         NEW by \in Model, NEW text \in {"whole", "empty"}, Answered(r, by, text)
  PROVE  ReqOK(req'[r]) /\ Plain(req[r], req'[r]) /\ LedgerPhase(req'[r]) = LedgerPhase(req[r])
<1> DEFINE q == req[r]
           a == Generated(req[r], by, text)
           x == [req[r] EXCEPT !.pc = "logging", !.answer = a]
<1>1. req'[r] = x /\ q.pc = "calling" /\ DOMAIN q = Fields
  BY SetOne DEF Answered, ReqOK, Typed
<1>2. /\ Keeps(q, x) /\ x.pc = "logging" /\ x.told = q.told /\ x.answer = a
      /\ x.route = q.route /\ x.spend = q.spend
  BY <1>1 DEF Keeps, Fields
<1>3. a \in Answer /\ a.text # "part"
  BY GeneratedIsAnswer DEF Text
<1> HIDE DEF x, a
<1>4. Typed(x)
  BY <1>2, <1>3 DEF ReqOK, Typed, Keeps, AtWork
<1>5. Placed(x)
  BY <1>1, <1>2 DEF ReqOK, Placed, Keeps, AtWork
<1>6. Answers(x)
  BY <1>1, <1>2, <1>3 DEF ReqOK, Placed, Answers, Keeps
<1>7. Routed(x)
  BY <1>1, <1>2 DEF ReqOK, Routed, Keeps, Over
<1>8. ReqOK(x)
  BY <1>4, <1>5, <1>6, <1>7 DEF ReqOK
<1>. QED
  BY <1>1, <1>2, <1>8, CarriedOn DEF Carried

(* stream_with_fallback returns.                                            *)
LEMMA StreamOpened ==
  ASSUME NEW r \in Request, DOMAIN req = Request, ReqOK(req[r]),
         NEW by \in Model, NEW text \in {"whole", "empty"}, Opened(r, by, text)
  PROVE  ReqOK(req'[r]) /\ Plain(req[r], req'[r]) /\ LedgerPhase(req'[r]) = LedgerPhase(req[r])
<1> DEFINE q == req[r]
           a == Generated(req[r], by, text)
           x == [[req[r] EXCEPT !.pc = "streaming", !.told = "role"] EXCEPT !.answer = a]
<1>1. req'[r] = x /\ q.pc = "opening" /\ DOMAIN q = Fields
  BY SetOne DEF Opened, ReqOK, Typed
<1>2. /\ Keeps(q, x) /\ x.pc = "streaming" /\ x.told = "role" /\ x.answer = a
      /\ x.route = q.route /\ x.spend = q.spend
  BY <1>1 DEF Keeps, Fields
<1>3. a \in Answer /\ a.text # "part" /\ a.prompt = Redacted[q.prompt]
  BY GeneratedIsAnswer DEF Text
<1> HIDE DEF x, a
<1>4. Typed(x)
  BY <1>2, <1>3 DEF ReqOK, Typed, Keeps, AtWork, Told
<1>5. Placed(x)
  BY <1>1, <1>2 DEF ReqOK, Placed, Keeps, AtWork
<1>6. Answers(x)
  BY <1>1, <1>2, <1>3 DEF ReqOK, Placed, Answers, Keeps
<1>7. Routed(x)
  BY <1>1, <1>2 DEF ReqOK, Routed, Keeps, Over
<1>8. ReqOK(x)
  BY <1>4, <1>5, <1>6, <1>7 DEF ReqOK
<1>. QED
  BY <1>1, <1>2, <1>8, CarriedOn DEF Carried

(* Content, the last chunk, [DONE]: the request itself stays as it is.      *)
LEMMA ToldMore ==
  ASSUME NEW r \in Request, DOMAIN req = Request, ReqOK(req[r]),
         Content(r) \/ StreamEnds(r) \/ Done(r)
  PROVE  ReqOK(req'[r]) /\ Plain(req[r], req'[r]) /\ LedgerPhase(req'[r]) = LedgerPhase(req[r])
<1> SUFFICES ASSUME NEW pc, NEW e, Tell(r, pc, e),
                    \/ /\ req[r].pc = "streaming" /\ req[r].told = "role"
                       /\ pc = "streaming" /\ e = "content"
                    \/ req[r].pc = "streaming" /\ pc = "closing" /\ e = "final"
                    \/ req[r].pc = "closing" /\ pc = "logging" /\ e = "done"
             PROVE  /\ ReqOK(req'[r]) /\ Plain(req[r], req'[r])
                    /\ LedgerPhase(req'[r]) = LedgerPhase(req[r])
  BY DEF Content, StreamEnds, Done
<1> DEFINE q == req[r]  x == [req[r] EXCEPT !.pc = pc, !.told = e]
<1>1. req'[r] = x /\ DOMAIN q = Fields
  BY SetOne DEF Tell, ReqOK, Typed
<1>2. /\ Keeps(q, x) /\ x.pc = pc /\ x.told = e /\ x.answer = q.answer
      /\ x.route = q.route /\ x.spend = q.spend
  BY <1>1 DEF Keeps, Fields
<1> HIDE DEF x
<1>3. q.answer.text # "part" /\ q.spend \in Nat /\ q.pc \in Carried /\ pc \in Carried
  BY DEF ReqOK, Typed, Answers, AfterStream, Carried
<1>4. e \in Told \ {"answer"} /\ (pc = "closing" <=> e = "final")
  BY DEF Told
<1>5. ReqOK(x)
  BY <1>2, <1>3, <1>4, MovedOK DEF Carried, AtWork
<1>. QED
  BY <1>1, <1>2, <1>3, <1>5, CarriedOn

(* A stream that breaks off.                                                *)
LEMMA Broken ==
  ASSUME NEW r \in Request, DOMAIN req = Request, ReqOK(req[r]),
         StreamBreaks(r) \/ BreaksWithoutMessage(r)
  PROVE  ReqOK(req'[r]) /\ Plain(req[r], req'[r]) /\ LedgerPhase(req'[r]) = LedgerPhase(req[r])
<1> DEFINE q == req[r]
<1>1. /\ DOMAIN q = Fields /\ q.answer \in Answer
      /\ q.pc = "streaming" /\ q.hit = "miss" /\ q.told = "content"
  BY DEF StreamBreaks, BreaksWithoutMessage, ReqOK, Typed
<1>2. \E pc \in {"streaming", "logging"}, t \in Text :
          LET x == req'[r] IN
          /\ t = "part" => pc = "logging"
          /\ Keeps(q, x) /\ x.pc = pc /\ x.told = "error"
          /\ x.answer \in Answer /\ x.answer.text = t /\ x.answer.prompt = q.answer.prompt
          /\ x.route = q.route /\ x.spend = q.spend
  <2>1. CASE StreamBreaks(r)
    <3> DEFINE cut == [req[r] EXCEPT !.told = "error", !.answer.text = "part"]
               x == [cut EXCEPT !.pc = "logging"]
    <3>1. req'[r] = x
      BY <2>1, SetOne DEF StreamBreaks, AfterBreak
    <3>2. /\ Keeps(q, x) /\ x.pc = "logging" /\ x.told = "error"
          /\ x.answer = [q.answer EXCEPT !.text = "part"]
          /\ x.route = q.route /\ x.spend = q.spend
      BY <1>1 DEF Keeps, Fields
    <3> HIDE DEF x
    <3>3. LET a == [q.answer EXCEPT !.text = "part"]
          IN  a \in Answer /\ a.text = "part" /\ a.prompt = q.answer.prompt
      BY <1>1, TextReplaced, Zenon DEF Text
    <3>4. x.answer \in Answer /\ x.answer.text = "part" /\ x.answer.prompt = q.answer.prompt
      BY <3>2, <3>3
    <3>. QED
      BY <3>1, <3>2, <3>4 DEF Text
  <2>2. CASE BreaksWithoutMessage(r)
    <3> DEFINE x == [req[r] EXCEPT !.told = "error", !.answer.text = "cut"]
    <3>1. req'[r] = x
      BY <2>2, SetOne DEF BreaksWithoutMessage
    <3>2. /\ Keeps(q, x) /\ x.pc = q.pc /\ x.told = "error"
          /\ x.answer = [q.answer EXCEPT !.text = "cut"]
          /\ x.route = q.route /\ x.spend = q.spend
      BY <1>1 DEF Keeps, Fields
    <3> HIDE DEF x
    <3>3. LET a == [q.answer EXCEPT !.text = "cut"]
          IN  a \in Answer /\ a.text = "cut" /\ a.prompt = q.answer.prompt
      BY <1>1, TextReplaced, Zenon DEF Text
    <3>4. x.answer \in Answer /\ x.answer.text = "cut" /\ x.answer.prompt = q.answer.prompt
      BY <3>2, <3>3
    <3>. QED
      BY <1>1, <3>1, <3>2, <3>4 DEF Text
  <2>. QED
    BY <2>1, <2>2
<1>3. PICK pc \in {"streaming", "logging"}, t \in Text :
          LET x == req'[r] IN
          /\ t = "part" => pc = "logging"
          /\ Keeps(q, x) /\ x.pc = pc /\ x.told = "error"
          /\ x.answer \in Answer /\ x.answer.text = t /\ x.answer.prompt = q.answer.prompt
          /\ x.route = q.route /\ x.spend = q.spend
  BY <1>2
<1> DEFINE x == req'[r]
<1> HIDE DEF x
<1>4. Typed(x)
  BY <1>3 DEF ReqOK, Typed, Keeps, AtWork, Told, x
<1>5. Placed(x)
  BY <1>1, <1>3 DEF ReqOK, Placed, Keeps, AtWork, x
<1>6. Answers(x)
  BY <1>1, <1>3 DEF ReqOK, Answers, Keeps, AfterStream, x
<1>7. Routed(x)
  BY <1>1, <1>3 DEF ReqOK, Routed, Keeps, Over, x
<1>8. ReqOK(x)
  BY <1>4, <1>5, <1>6, <1>7 DEF ReqOK
<1>. QED
  BY <1>1, <1>3, <1>8, CarriedOn DEF Carried, x

(* The decision.                                                            *)
LEMMA RouteFacts ==
  ASSUME NEW asked, NEW level, NEW within \in BOOLEAN
  PROVE  LET route == DecideRoute(asked, level, within) IN
         /\ route.model \in Model
         /\ route.reason = "budget_downgrade" <=> ~within
         /\ route.reason \in DOMAIN Band => route.reason = Reason(level)
<1>1. SelectPremium \in Model
  BY ModelAssumption DEF SelectPremium
<1>2. DOMAIN Band = {"simple_prompt", "moderate_prompt", "complex_prompt"}
  BY DEF Band
<1>. QED
  BY <1>1, <1>2, ModelAssumption DEF DecideRoute, Decision, Reason

(* The second query of check_budget, and decide_route on what both found.   *)
LEMMA Decided ==
  ASSUME NEW r \in Request, DOMAIN req = Request, ReqOK(req[r]), Decide(r)
  PROVE  /\ ReqOK(req'[r]) /\ Plain(req[r], req'[r])
         /\ LedgerPhase(req[r]) = IF req[r].under THEN "under" ELSE "over"
         /\ LedgerPhase(req'[r]) = IF req[r].under /\ WithinMonth THEN "admitted"
                                   ELSE IF onExceeded = "reject" THEN "out" ELSE "downgraded"
<1> DEFINE q == req[r]
           within == req[r].under /\ WithinMonth
           route == DecideRoute(q.asked, LevelOf(Looks[Redacted[q.prompt]]), within)
           y == [req[r] EXCEPT !.route = route, !.under = FALSE]
           x == Dispatch(y)
<1>1. q.pc = "reading month" /\ DOMAIN q = Fields
  BY DEF Decide, ReqOK, Typed
<1>2. LedgerPhase(q) = IF q.under THEN "under" ELSE "over"
  BY <1>1 DEF LedgerPhase
<1>3. CASE ~within /\ onExceeded = "reject"
  <2>1. Set(r, Finish(q, "failed", q.told))
    BY <1>3 DEF Decide, CutOff
  <2>2. req'[r] = Finish(q, "failed", q.told)
    BY <2>1, SetOne
  <2>3. q.pc # "ended" /\ "failed" \in Over \ {"ended"} /\ q.told \in {q.told, "error"}
    BY <1>1 DEF Over
  <2>4. LET z == Finish(q, "failed", q.told)
        IN  ReqOK(z) /\ Plain(q, z) /\ LedgerPhase(z) = "out"
    BY <2>3, CutOffStep, Zenon
  <2>. QED
    BY <1>2, <1>3, <2>2, <2>4
<1>4. CASE ~(~within /\ onExceeded = "reject")
  <2>1. req'[r] = x
    BY <1>4, SetOne DEF Decide
  <2>2. /\ route.model \in Model /\ (route.reason = "budget_downgrade" <=> ~within)
        /\ route.reason \in DOMAIN Band =>
              route.reason = Reason(LevelOf(Looks[Redacted[q.prompt]]))
    <3>1. within \in BOOLEAN
      OBVIOUS
    <3> HIDE DEF within
    <3>. QED
      BY <3>1, RouteFacts
  <2> HIDE DEF route
  <2>3. /\ Keeps(q, y) /\ y.pc = q.pc /\ y.told = q.told /\ y.answer = q.answer
        /\ y.route = route /\ y.spend = q.spend
    BY <1>1 DEF Keeps, Fields
  <2> HIDE DEF y
  <2>4. /\ Keeps(q, x) /\ x.answer = q.answer /\ x.route = route /\ x.spend = q.spend
        /\ \/ x.pc \in {"opening", "calling"} /\ q.hit = "miss" /\ x.told = q.told
           \/ x.pc = "streaming" /\ q.hit # "miss" /\ x.told = "role"
           \/ x.pc = "logging" /\ x.told = q.told
    BY <2>3 DEF Dispatch, Keeps, Fields
  <2> HIDE DEF x
  <2>5. /\ q.told \in Told \ {"answer", "final"} /\ q.answer.text # "part"
        /\ q.pc \in AtWork
    BY <1>1 DEF ReqOK, Typed, Placed, Answers, AtWork, AfterStream
  <2>6. x.told \in Told \ {"answer", "final"} /\ x.pc \in Carried \ {"closing"}
    BY <2>4, <2>5 DEF Told, Carried
  <2>7. Typed(x)
    BY <2>2, <2>4, <2>6 DEF ReqOK, Typed, Keeps, Carried, AtWork
  <2>8. Placed(x)
    BY <2>4, <2>5, <2>6 DEF ReqOK, Placed, Keeps, Carried, AtWork
  <2>9. Answers(x)
    BY <2>4, <2>5 DEF ReqOK, Answers, Keeps
  <2>10. Routed(x)
    BY <2>2, <2>4 DEF Routed, Keeps
  <2>11. ReqOK(x)
    BY <2>7, <2>8, <2>9, <2>10 DEF ReqOK
  <2>12. Plain(q, x)
    BY <1>1, <2>5, <2>6 DEF Plain, Carried, Unlogged, Booked
  <2>13. LedgerPhase(x) = IF within THEN "admitted" ELSE "downgraded"
    BY <2>2, <2>4, <2>6 DEF LedgerPhase, Carried
  <2>. QED
    BY <1>2, <1>4, <2>1, <2>11, <2>12, <2>13
<1>. QED
  BY <1>3, <1>4

------------------------------------------------------------------------------
(* The totals of costs: what get_spend adds up.                             *)
LEMMA TotalsOf ==
  ASSUME NEW c \in Seq(Nat)
  PROVE  LET t == Totals(c) IN
         /\ t \in [0 .. Len(c) -> Nat] /\ t[0] = 0
         /\ \A n \in 1 .. Len(c) : t[n] = t[n - 1] + c[n]
<1> DEFINE Sums(f, n) == f = [k \in 0 .. n |-> IF k = 0 THEN 0 ELSE f[k - 1] + c[k]]
           missing == {n \in 0 .. Len(c) : \A f : ~Sums(f, n)}
           t == Totals(c)
           odd == {n \in 0 .. Len(c) : t[n] \notin Nat}
<1>1. Len(c) \in Nat /\ \A n \in 1 .. Len(c) : c[n] \in Nat
  BY LenProperties, ElementOfSeq
<1>2. missing = {}
  <2>1. ASSUME missing # {} PROVE FALSE
    <3>1. PICK m \in missing : \A n \in missing : m <= n
      <4>1. missing \in SUBSET Nat
        OBVIOUS
      <4> HIDE DEF missing
      <4>. QED
        BY <2>1, <4>1, LeastNumber
    <3>2. CASE m = 0
      <4> DEFINE f == [k \in 0 .. m |-> 0]
      <4>1. Sums(f, m)
        BY <3>2
      <4>. QED
        BY <4>1
    <3>3. CASE m # 0
      <4>0. m \in 0 .. Len(c)
        OBVIOUS
      <4>1. m \in 1 .. Len(c) /\ m - 1 \in 0 .. Len(c) /\ m - 1 \notin missing
        <5> HIDE DEF missing
        <5>. QED
          BY <1>1, <3>1, <3>3, <4>0
      <4>2. PICK f : Sums(f, m - 1)
        BY <4>1
      <4> DEFINE g == [k \in 0 .. m |-> IF k = m THEN f[m - 1] + c[m] ELSE f[k]]
      <4>3. \A k \in 0 .. m - 1 : f[k] = IF k = 0 THEN 0 ELSE f[k - 1] + c[k]
        BY <4>2
      <4>4. ASSUME NEW k \in 0 .. m PROVE g[k] = IF k = 0 THEN 0 ELSE g[k - 1] + c[k]
        <5>1. CASE k = m
          BY <4>1, <5>1
        <5>2. CASE k # m
          <6>1. k \in 0 .. m - 1 /\ g[k] = f[k]
            BY <4>1, <5>2
          <6>2. k # 0 => k - 1 \in 0 .. m /\ k - 1 # m /\ g[k - 1] = f[k - 1]
            BY <4>1, <5>2
          <6>. QED
            BY <4>3, <6>1, <6>2
        <5>. QED
          BY <5>1, <5>2
      <4>6. g = [k \in 0 .. m |-> g[k]]
        OBVIOUS
      <4> HIDE DEF g
      <4>5. Sums(g, m)
        BY <4>4, <4>6
      <4>. QED
        BY <4>5
    <3>. QED
      BY <3>2, <3>3
  <2>. QED
    BY <2>1
<1>3. Sums(t, Len(c))
  <2>1. \E f : Sums(f, Len(c))
    BY <1>1, <1>2
  <2>2. t = CHOOSE f : Sums(f, Len(c))
    BY DEF Totals
  <2> HIDE DEF Sums, t
  <2>. QED
    BY <2>1, <2>2
<1> HIDE DEF t
<1>4. t[0] = 0 /\ \A n \in 1 .. Len(c) : t[n] = t[n - 1] + c[n]
  BY <1>1, <1>3
<1>5. odd = {}
  <2>1. ASSUME odd # {} PROVE FALSE
    <3>1. PICK m \in odd : \A n \in odd : m <= n
      <4>1. odd \in SUBSET Nat
        OBVIOUS
      <4> HIDE DEF odd
      <4>. QED
        BY <2>1, <4>1, LeastNumber
    <3>2. m # 0
      BY <1>4, <3>1
    <3>3. m \in 1 .. Len(c) /\ m - 1 \in 0 .. Len(c) /\ m - 1 \notin odd
      BY <1>1, <3>1, <3>2
    <3>. QED
      BY <1>1, <1>4, <3>1, <3>3
  <2>. QED
    BY <2>1
<1>6. t = [n \in 0 .. Len(c) |-> t[n]]
  BY <1>3
<1>. QED
  BY <1>4, <1>5, <1>6 DEF t

(* Totals only depend on the rows so far.                                   *)
LEMMA TotalsOfPrefix ==
  ASSUME NEW c \in Seq(Nat), NEW d \in Seq(Nat), Len(c) <= Len(d),
         \A i \in 1 .. Len(c) : c[i] = d[i]
  PROVE  \A n \in 0 .. Len(c) : Totals(c)[n] = Totals(d)[n]
<1> DEFINE differ == {n \in 0 .. Len(c) : Totals(c)[n] # Totals(d)[n]}
<1>1. Len(c) \in Nat /\ Len(d) \in Nat
  BY LenProperties
<1>2. /\ Totals(c)[0] = 0 /\ \A n \in 1 .. Len(c) : Totals(c)[n] = Totals(c)[n - 1] + c[n]
      /\ Totals(d)[0] = 0 /\ \A n \in 1 .. Len(d) : Totals(d)[n] = Totals(d)[n - 1] + d[n]
  BY TotalsOf
<1>3. ASSUME differ # {} PROVE FALSE
  <2>1. PICK m \in differ : \A n \in differ : m <= n
    <3>1. differ \in SUBSET Nat
      OBVIOUS
    <3> HIDE DEF differ
    <3>. QED
      BY <1>3, <3>1, LeastNumber
  <2>2. m # 0
    BY <1>2, <2>1
  <2>3. m \in 1 .. Len(c) /\ m \in 1 .. Len(d) /\ m - 1 \in 0 .. Len(c) /\ m - 1 \notin differ
    BY <1>1, <2>1, <2>2
  <2>. QED
    BY <1>2, <2>1, <2>3
<1>. QED
  BY <1>3

(* They never go down.                                                      *)
LEMMA TotalsGrow ==
  ASSUME NEW c \in Seq(Nat), NEW m \in 0 .. Len(c)
  PROVE  \A n \in m .. Len(c) : Totals(c)[m] <= Totals(c)[n]
<1> DEFINE lower == {n \in m .. Len(c) : ~(Totals(c)[m] <= Totals(c)[n])}
<1>1. Len(c) \in Nat /\ \A n \in 1 .. Len(c) : c[n] \in Nat
  BY LenProperties, ElementOfSeq
<1>2. /\ \A n \in 0 .. Len(c) : Totals(c)[n] \in Nat
      /\ \A n \in 1 .. Len(c) : Totals(c)[n] = Totals(c)[n - 1] + c[n]
  BY TotalsOf
<1>3. ASSUME lower # {} PROVE FALSE
  <2>1. PICK k \in lower : \A n \in lower : k <= n
    <3>1. lower \in SUBSET Nat
      BY <1>1
    <3> HIDE DEF lower
    <3>. QED
      BY <1>3, <3>1, LeastNumber
  <2>2. k # m
    BY <1>2, <2>1
  <2>3. k \in 1 .. Len(c) /\ k - 1 \in m .. Len(c) /\ k - 1 \notin lower
    BY <1>1, <2>1, <2>2
  <2>4. Totals(c)[m] <= Totals(c)[k - 1]
    BY <2>3
  <2>5. /\ Totals(c)[k] = Totals(c)[k - 1] + c[k] /\ c[k] \in Nat
        /\ Totals(c)[k - 1] \in Nat /\ Totals(c)[m] \in Nat
    BY <1>1, <1>2, <2>3
  <2>6. ~(Totals(c)[m] <= Totals(c)[k])
    BY <2>1
  <2>. QED
    BY <2>4, <2>5, <2>6
<1>. QED
  BY <1>3

(* What is split row by row is split in total.                              *)
LEMMA TotalsSplit ==
  ASSUME NEW c \in Seq(Nat), NEW a \in Seq(Nat), NEW b \in Seq(Nat),
         Len(a) = Len(c), Len(b) = Len(c), \A i \in 1 .. Len(c) : c[i] = a[i] + b[i]
  PROVE  \A n \in 0 .. Len(c) : Totals(c)[n] = Totals(a)[n] + Totals(b)[n]
<1> DEFINE differ == {n \in 0 .. Len(c) : Totals(c)[n] # Totals(a)[n] + Totals(b)[n]}
<1>1. Len(c) \in Nat /\ \A n \in 1 .. Len(c) : a[n] \in Nat /\ b[n] \in Nat
  BY LenProperties, ElementOfSeq
<1>2. /\ Totals(c)[0] = 0 /\ Totals(a)[0] = 0 /\ Totals(b)[0] = 0
      /\ \A n \in 0 .. Len(c) : Totals(a)[n] \in Nat /\ Totals(b)[n] \in Nat
      /\ \A n \in 1 .. Len(c) : /\ Totals(c)[n] = Totals(c)[n - 1] + c[n]
                                /\ Totals(a)[n] = Totals(a)[n - 1] + a[n]
                                /\ Totals(b)[n] = Totals(b)[n - 1] + b[n]
  BY TotalsOf
<1>3. ASSUME differ # {} PROVE FALSE
  <2>1. PICK m \in differ : \A n \in differ : m <= n
    <3>1. differ \in SUBSET Nat
      OBVIOUS
    <3> HIDE DEF differ
    <3>. QED
      BY <1>3, <3>1, LeastNumber
  <2>2. m # 0
    BY <1>2, <2>1
  <2>3. m \in 1 .. Len(c) /\ m - 1 \in 0 .. Len(c) /\ m - 1 \notin differ
    BY <1>1, <2>1, <2>2
  <2>4. Totals(c)[m - 1] = Totals(a)[m - 1] + Totals(b)[m - 1]
    BY <2>3
  <2>5. /\ Totals(c)[m] = Totals(c)[m - 1] + c[m] /\ c[m] = a[m] + b[m]
        /\ Totals(a)[m] = Totals(a)[m - 1] + a[m] /\ Totals(b)[m] = Totals(b)[m - 1] + b[m]
        /\ Totals(a)[m - 1] \in Nat /\ Totals(b)[m - 1] \in Nat /\ a[m] \in Nat /\ b[m] \in Nat
    BY <1>1, <1>2, <2>3
  <2>6. Totals(c)[m] = Totals(a)[m] + Totals(b)[m]
    BY <2>4, <2>5
  <2>. QED
    BY <2>1, <2>6
<1>. QED
  BY <1>3

------------------------------------------------------------------------------
(* The inductive invariant.                                                 *)
Row == [req : Request, cost : Nat]

RowsOK ==
    /\ log \in Seq(Row)
    /\ month \in Nat /\ day \in Nat /\ month <= day /\ day <= Len(log)

RequestsOK == DOMAIN req = Request /\ \A r \in Request : ReqOK(req[r])

BooksOK ==
    /\ \A i, j \in DOMAIN log : log[i].req = log[j].req => i = j
    /\ counted \subseteq Request /\ \A r \in counted : Logged(r)
    /\ \A r \in Request :
          /\ req[r].pc \in Unlogged => ~Logged(r)
          /\ req[r].pc \in Booked => Logged(r)
          /\ req[r].pc \in {"reading spend", "spend read"} => r \in counted

(* What a request read for the gauge is a total that includes its own row.  *)
ReadAPast(r) ==
    \E n \in DOMAIN log :
        req[r].spend = Totals(RowCosts)[n] /\ \E i \in 1 .. n : log[i].req = r

GaugeOK ==
    /\ gauge \in Nat /\ GaugeShowsAPast
    /\ day = 0 => \A r \in Request : req[r].pc = "spend read" => ReadAPast(r)

IInv ==
    /\ onExceeded \in Modes
    /\ RequestsOK /\ CachesOK /\ RowsOK /\ BooksOK /\ GaugeOK

(* The costs of the rows as sequences.                                      *)
LEMMA CostSequences ==
  ASSUME RowsOK
  PROVE  /\ RowCosts \in Seq(Nat) /\ Len(RowCosts) = Len(log)
         /\ \A i \in 1 .. Len(log) : RowCosts[i] = log[i].cost
         /\ \A cheap : /\ CostsIf(cheap) \in Seq(Nat) /\ Len(CostsIf(cheap)) = Len(log)
                       /\ \A i \in 1 .. Len(log) :
                            CostsIf(cheap)[i] = IF Downgraded(log[i].req) = cheap
                                                THEN log[i].cost ELSE 0
         /\ DOMAIN log = 1 .. Len(log) /\ Len(log) \in Nat
         /\ \A i \in 1 .. Len(log) : log[i].req \in Request /\ log[i].cost \in Nat
<1>1. DOMAIN log = 1 .. Len(log) /\ Len(log) \in Nat
  BY LenProperties DEF RowsOK
<1>2. \A i \in 1 .. Len(log) : log[i].req \in Request /\ log[i].cost \in Nat
  <2>1. \A i \in 1 .. Len(log) : log[i] \in Row
    BY ElementOfSeq DEF RowsOK
  <2>. QED
    BY <2>1 DEF Row
<1>3. RowCosts \in [1 .. Len(log) -> Nat]
  BY <1>1, <1>2 DEF RowCosts
<1>4. ASSUME NEW cheap PROVE CostsIf(cheap) \in [1 .. Len(log) -> Nat]
  <2>1. \A i \in 1 .. Len(log) :
            (IF Downgraded(log[i].req) = cheap THEN log[i].cost ELSE 0) \in Nat
    BY <1>2
  <2>. QED
    BY <1>1, <2>1 DEF CostsIf
<1>5. ASSUME NEW c \in [1 .. Len(log) -> Nat] PROVE c \in Seq(Nat) /\ Len(c) = Len(log)
  <2>1. c \in Seq(Nat)
    BY <1>1, SeqDef
  <2>2. Len(c) \in Nat /\ DOMAIN c = 1 .. Len(c) /\ DOMAIN c = 1 .. Len(log)
    BY <2>1, LenProperties
  <2>. QED
    BY <1>1, <2>1, <2>2
<1>6. \A i \in 1 .. Len(log) : RowCosts[i] = log[i].cost
  BY <1>1 DEF RowCosts
<1>7. \A cheap : \A i \in 1 .. Len(log) :
          CostsIf(cheap)[i] = IF Downgraded(log[i].req) = cheap THEN log[i].cost ELSE 0
  BY <1>1 DEF CostsIf
<1>. QED
  BY <1>1, <1>2, <1>3, <1>4, <1>5, <1>6, <1>7

(* The spend of the rows from one on is a number, and a part of it too.     *)
LEMMA SpendIsNat ==
  ASSUME RowsOK, NEW c \in Seq(Nat), Len(c) = Len(log),
         NEW i \in 0 .. Len(log), NEW j \in i .. Len(log)
  PROVE  Between(i, j, c) \in Nat
<1>1. Len(log) \in Nat
  BY CostSequences
<1>2. Totals(c)[i] \in Nat /\ Totals(c)[j] \in Nat
  <2>1. Totals(c) \in [0 .. Len(c) -> Nat]
    BY TotalsOf
  <2>2. i \in 0 .. Len(c) /\ j \in 0 .. Len(c)
    BY <1>1
  <2>. QED
    BY <2>1, <2>2
<1>3. Totals(c)[i] <= Totals(c)[j]
  BY TotalsGrow
<1>. QED
  BY <1>2, <1>3 DEF Between

(* So is the spend of the day.                                              *)
LEMMA DaySpendIsNat ==
  ASSUME RowsOK
  PROVE  SpentSince(day) \in Nat
<1>1. day \in 0 .. Len(log) /\ Len(log) \in day .. Len(log)
  BY CostSequences DEF RowsOK
<1>. QED
  BY <1>1, CostSequences, SpendIsNat DEF SpentSince

------------------------------------------------------------------------------
(* The steps that keep the books.                                           *)
(* The row is written.                                                      *)
LEMMA Committed ==
  ASSUME NEW r \in Request, DOMAIN req = Request, ReqOK(req[r]), Commit(r)
  PROVE  /\ ReqOK(req'[r]) /\ req[r].pc = "logging" /\ req'[r].pc = "logged"
         /\ req'[r].told = req[r].told /\ req'[r].route = req[r].route
         /\ \E c \in 0 .. MaxPrice : log' = Append(log, [req |-> r, cost |-> c])
<1> DEFINE q == req[r]  x == [req[r] EXCEPT !.pc = "logged"]
<1>1. req'[r] = x /\ q.pc = "logging" /\ DOMAIN q = Fields
  BY SetOne DEF Commit, Goto, ReqOK, Typed
<1>2. /\ Keeps(q, x) /\ x.pc = "logged" /\ x.told = q.told /\ x.answer = q.answer
      /\ x.route = q.route /\ x.spend = q.spend
  BY <1>1 DEF Keeps, Fields
<1> HIDE DEF x
<1>3. q.told \in Told \ {"answer", "final"} /\ q.spend \in Nat /\ q.answer \in Answer
  BY <1>1 DEF ReqOK, Typed, Placed, AtWork
<1>4. q.answer.text = "part" => q.told = "error"
  BY DEF ReqOK, Answers
<1>5. ReqOK(x)
  BY <1>1, <1>2, <1>3, <1>4, MovedOK DEF AtWork, AfterStream
<1>6. Costs(q.answer) \subseteq 0 .. MaxPrice
  <2>1. q.answer.by \in Model
    BY <1>3 DEF Answer
  <2>2. Price[q.answer.by] \in 0 .. MaxPrice /\ MaxPrice \in Nat
    BY <2>1, PriceAssumption
  <2>3. 0 .. Price[q.answer.by] \subseteq 0 .. MaxPrice
    BY <2>2
  <2>. QED
    BY <2>2, <2>3 DEF Costs
<1>7. \E c \in Costs(q.answer) : log' = Append(log, [req |-> r, cost |-> c])
  BY DEF Commit
<1>. QED
  BY <1>1, <1>2, <1>5, <1>6, <1>7

(* The request is counted.                                                  *)
LEMMA Recorded ==
  ASSUME NEW r \in Request, DOMAIN req = Request, ReqOK(req[r]), Record(r)
  PROVE  /\ ReqOK(req'[r]) /\ req[r].pc = "logged"
         /\ req'[r].pc \in {"ended", "reading spend"}
         /\ req[r].told # "answer" /\ req'[r].told = req[r].told
         /\ req'[r].route = req[r].route /\ counted' = counted \cup {r}
<1>1. req[r].pc = "logged" /\ counted' = counted \cup {r} /\ DOMAIN req[r] = Fields
  BY DEF Record, RecordsAt, ReqOK, Typed
<1>2. req[r].told \in Told \ {"answer", "final"} /\ req[r].spend \in Nat
  BY <1>1 DEF ReqOK, Typed, Placed, AtWork
<1>3. CASE req[r].stream
  <2>1. req'[r] = Finish(req[r], "ended", req[r].told)
    BY <1>3, SetOne DEF Record, CutOff
  <2> DEFINE x == Finish(req[r], "ended", req[r].told)
  <2>2. x.pc = "ended" /\ x.told = req[r].told /\ x.route = req[r].route
    BY <1>1, FinishFields
  <2>3. ReqOK(x)
    BY <1>2, FinishOK DEF Over
  <2>. QED
    BY <1>1, <1>2, <2>1, <2>2, <2>3
<1>4. CASE ~req[r].stream
  <2> DEFINE q == req[r]  x == [req[r] EXCEPT !.pc = "reading spend"]
  <2>1. req'[r] = x
    BY <1>4, SetOne DEF Record, Goto
  <2>2. /\ Keeps(q, x) /\ x.pc = "reading spend" /\ x.told = q.told /\ x.answer = q.answer
        /\ x.route = q.route /\ x.spend = q.spend
    BY <1>1 DEF Keeps, Fields
  <2> HIDE DEF x
  <2>3. q.answer.text = "part" => q.told = "error"
    BY DEF ReqOK, Answers
  <2>4. ReqOK(x)
    BY <1>1, <1>2, <2>2, <2>3, MovedOK DEF AtWork, AfterStream
  <2>. QED
    BY <1>1, <1>2, <2>1, <2>2, <2>4
<1>. QED
  BY <1>3, <1>4

(* The spend is read for the gauge.                                         *)
LEMMA SpendRead ==
  ASSUME NEW r \in Request, DOMAIN req = Request, ReqOK(req[r]), RowsOK, ReadSpend(r)
  PROVE  /\ ReqOK(req'[r]) /\ req[r].pc = "reading spend" /\ req'[r].pc = "spend read"
         /\ req[r].told # "answer" /\ req'[r].told = req[r].told
         /\ req'[r].route = req[r].route /\ req'[r].spend = SpentSince(day)
<1> DEFINE q == req[r]  x == [req[r] EXCEPT !.pc = "spend read", !.spend = SpentSince(day)]
<1>1. req'[r] = x /\ q.pc = "reading spend" /\ DOMAIN q = Fields
  BY SetOne DEF ReadSpend, ReqOK, Typed
<1>2. /\ Keeps(q, x) /\ x.pc = "spend read" /\ x.told = q.told /\ x.answer = q.answer
      /\ x.route = q.route /\ x.spend = SpentSince(day)
  BY <1>1 DEF Keeps, Fields
<1> HIDE DEF x
<1>3. q.told \in Told \ {"answer", "final"}
  BY <1>1 DEF ReqOK, Typed, Placed, AtWork
<1>4. q.answer.text = "part" => q.told = "error"
  BY DEF ReqOK, Answers
<1>5. x.spend \in Nat
  BY <1>2, DaySpendIsNat, Zenon
<1>6. ReqOK(x)
  BY <1>1, <1>2, <1>3, <1>4, <1>5, MovedOK DEF AtWork, AfterStream
<1>. QED
  BY <1>1, <1>2, <1>3, <1>6

(* The gauge is set and the client has its answer.                          *)
LEMMA Replied ==
  ASSUME NEW r \in Request, DOMAIN req = Request, ReqOK(req[r]), Reply(r)
  PROVE  /\ ReqOK(req'[r]) /\ req[r].pc = "spend read" /\ req'[r].pc = "ended"
         /\ req'[r].told = "answer" /\ req'[r].route = req[r].route
         /\ gauge' = Remaining(req[r].spend)
<1>1. req'[r] = Finish(req[r], "ended", "answer") /\ DOMAIN req[r] = Fields
  BY SetOne DEF Reply, ReqOK, Typed
<1> DEFINE x == Finish(req[r], "ended", "answer")
<1>2. x.pc = "ended" /\ x.told = "answer" /\ x.route = req[r].route
  BY <1>1, FinishFields
<1>3. ReqOK(x)
  BY FinishOK DEF Over, Told
<1>. QED
  BY <1>1, <1>2, <1>3 DEF Reply

------------------------------------------------------------------------------
(* Whatever is stored is an answer for the prompt it is stored under.       *)
LEMMA StoreOK ==
  ASSUME CachesOK, NEW q, q.prompt \in Prompt, q.asked \in Asked, NEW a,
         CachedFor(a, Redacted[q.prompt]), Store(q, a)
  PROVE  CachesOK'
<1> DEFINE p == Redacted[q.prompt]
<1>1. p \in Prompt
  BY PromptAssumption
<1> HIDE DEF p
<1>2. exact' = [k \in DOMAIN exact \cup {<<p, q.asked>>} |->
                   IF k = <<p, q.asked>> THEN a ELSE exact[k]]
  BY DEF Store, ExactSet, ExactKey, p
<1>3. <<p, q.asked>> \in Key /\ CachedFor(a, p)
  BY <1>1 DEF Key, p
<1>4. \A k \in DOMAIN exact' : k \in Key /\ CachedFor(exact'[k], k[1])
  BY <1>2, <1>3 DEF CachesOK
<1>5. semantic' \in Seq(Entry)
  <2>1. [prompt |-> p, answer |-> a] \in Entry
    BY <1>1, <1>3 DEF Entry, CachedFor
  <2>2. semantic' = semantic \/ semantic' = Append(semantic, [prompt |-> p, answer |-> a])
    BY DEF Store, SemanticStore, p
  <2>. QED
    BY <2>1, <2>2, AppendProperties DEF CachesOK
<1>. QED
  BY <1>4, <1>5 DEF CachesOK

(* At the end of a stream as well: it is stored only if it was a miss, and  *)
(* not if it broke off with a message.                                      *)
LEMMA StoreStreamOK ==
  ASSUME CachesOK, NEW q, ReqOK(q), q.pc = "streaming", StoreStream(q)
  PROVE  CachesOK'
<1>1. CASE Stores(q)
  <2>1. q.prompt \in Prompt /\ q.asked \in Asked
    BY DEF ReqOK, Typed, Placed, AtWork
  <2>2. CachedFor(q.answer, Redacted[q.prompt])
    BY <1>1 DEF ReqOK, Typed, Answers, Stores, CachedFor
  <2>. QED
    BY <1>1, <2>1, <2>2, StoreOK DEF StoreStream
<1>2. CASE ~Stores(q)
  BY <1>2 DEF StoreStream, CachesOK
<1>. QED
  BY <1>1, <1>2

(* The steps of a request up to its row, and those that cut it off.         *)
RequestStep(r) ==
    \/ CutsOff(r)
    \/ \E p \in Prompt, m \in Asked, s \in Streaming : Arrive(r, p, m, s)
    \/ ReadDaily(r) \/ Decide(r)
    \/ \E by \in Model, text \in {"whole", "empty"} : Answered(r, by, text) \/ Opened(r, by, text)
    \/ Content(r) \/ StreamBreaks(r) \/ BreaksWithoutMessage(r) \/ StreamEnds(r) \/ Done(r)

(* The caches after a step of a request.                                    *)
LEMMA CachesFollow ==
  ASSUME NEW r \in Request, ReqOK(req[r]), CachesOK, RequestStep(r)
  PROVE  CachesOK'
<1>1. CASE \E by \in Model, text \in {"whole", "empty"} : Answered(r, by, text)
  <2>1. PICK by \in Model, text \in {"whole", "empty"} : Answered(r, by, text)
    BY <1>1
  <2>2. CachedFor(Generated(req[r], by, text), Redacted[req[r].prompt])
    BY GeneratedIsAnswer DEF Text, CachedFor
  <2>3. req[r].prompt \in Prompt /\ req[r].asked \in Asked
    BY <2>1 DEF Answered, ReqOK, Typed, Placed, AtWork
  <2>4. Store(req[r], Generated(req[r], by, text))
    BY <2>1 DEF Answered
  <2>. QED
    BY <2>2, <2>3, <2>4, StoreOK
<1>2. CASE StreamEnds(r)
  BY <1>2, StoreStreamOK DEF StreamEnds
<1>3. CASE StreamBreaks(r)
  <2> DEFINE cut == [req[r] EXCEPT !.told = "error", !.answer.text = "part"]
  <2>1. DOMAIN req[r] = Fields /\ req[r].answer \in Answer
    BY DEF ReqOK, Typed
  <2>2. cut.answer = [req[r].answer EXCEPT !.text = "part"]
    BY <2>1 DEF Fields
  <2>3. [req[r].answer EXCEPT !.text = "part"].text = "part"
    BY <2>1, TextReplaced, Zenon DEF Text
  <2>4. StoreStream(cut)
    BY <1>3 DEF StreamBreaks
  <2> HIDE DEF cut
  <2>5. ~Stores(cut)
    BY <2>2, <2>3 DEF Stores
  <2>. QED
    BY <2>4, <2>5 DEF StoreStream, CachesOK
<1>4. CASE UNCHANGED caches
  BY <1>4 DEF caches, CachesOK
<1>. QED
  BY <1>1, <1>2, <1>3, <1>4
     DEF RequestStep, CutsOff, RateLimited, CallFails, OpenFails, DatabaseFails, Disconnect,
         Arrive, ReadDaily, Decide, Opened, Content, BreaksWithoutMessage, Done

(* A step of a request leaves the others where they are.                    *)
LEMMA OneMoves ==
  ASSUME NEW r \in Request, DOMAIN req = Request,
         RequestStep(r) \/ Commit(r) \/ Record(r) \/ ReadSpend(r) \/ Reply(r)
  PROVE  DOMAIN req' = Request /\ \A s \in Request : s # r => req'[s] = req[s]
<1>1. \E x : Set(r, x)
  BY DEF RequestStep, CutsOff, RateLimited, CallFails, OpenFails, DatabaseFails, Disconnect,
         Arrive, ReadDaily, Decide, Answered, Opened, Content, StreamBreaks,
         BreaksWithoutMessage, StreamEnds, Done, Commit, Record, ReadSpend, Reply, Goto, Tell
<1>. QED
  BY <1>1, SetOne

(* Before its row is written and when it is cut off, it leaves the ledger   *)
(* and the metrics alone.                                                   *)
LEMMA PlainStep ==
  ASSUME NEW r \in Request, RequestsOK, CachesOK, RequestStep(r)
  PROVE  /\ ReqOK(req'[r]) /\ Plain(req[r], req'[r])
         /\ UNCHANGED <<onExceeded, log, day, month, counted, gauge>>
<1>1. DOMAIN req = Request /\ ReqOK(req[r])
  BY DEF RequestsOK
<1>2. ReqOK(req'[r]) /\ Plain(req[r], req'[r])
  BY <1>1, CutOffs, Arrival, DayRead, Decided, Called, StreamOpened, ToldMore, Broken
     DEF RequestStep
<1>3. UNCHANGED <<onExceeded, log, day, month, counted, gauge>>
  BY DEF RequestStep, CutsOff, RateLimited, CallFails, OpenFails, DatabaseFails, Disconnect,
         Arrive, ReadDaily, Decide, Answered, Opened, Content, StreamBreaks,
         BreaksWithoutMessage, StreamEnds, Done, ledger, metrics
<1>. QED
  BY <1>2, <1>3

(* The whole next-state relation.                                           *)
LEMMA NextCases ==
  ASSUME RequestsOK, Next
  PROVE  \/ \E r \in Request : RequestStep(r)
         \/ \E r \in Request : Commit(r)
         \/ \E r \in Request : Record(r)
         \/ \E r \in Request : ReadSpend(r)
         \/ \E r \in Request : Reply(r)
         \/ \E k \in DOMAIN exact : Expire(k)
         \/ AgeDay \/ AgeMonth \/ Restart
<1>1. ASSUME NEW r \in Request PROVE Chain(r) \subseteq Model
  <2>1. req[r].route.model \in Model
    BY DEF RequestsOK, ReqOK, Typed
  <2> DEFINE m == req[r].route.model
             chain == FallbackChain(m)
  <2>2. \A i \in DOMAIN chain : chain[i] \in Model
    <3> HIDE DEF m
    <3>. QED
      BY <2>1, ModelAssumption DEF FallbackChain, m
  <2> HIDE DEF chain
  <2>3. Chain(r) = Range(chain)
    BY DEF Chain, chain
  <2>. QED
    BY <2>2, <2>3 DEF Range
<1>2. CASE \E r \in Request :
               \E by \in Chain(r), text \in {"whole", "empty"} :
                   Answered(r, by, text) \/ Opened(r, by, text)
  BY <1>1, <1>2 DEF RequestStep
<1>. QED
  BY <1>2 DEF Next, RequestStep, CutsOff

(* A restart loses the requests at work and keeps what is known of others.  *)
LEMMA Restarted ==
  ASSUME RequestsOK, Restart
  PROVE  /\ DOMAIN req' = Request
         /\ \A r \in Request :
               /\ ReqOK(req'[r]) /\ req'[r].pc \notin AtWork
               /\ req'[r].pc \in {"lost", req[r].pc}
               /\ req'[r].told = req[r].told /\ req'[r].route = req[r].route
<1>1. /\ DOMAIN req' = Request
      /\ \A r \in Request : req'[r] = IF req[r].pc \in AtWork
                                      THEN Finish(req[r], "lost", req[r].told) ELSE req[r]
  BY DEF Restart, CutOff
<1>2. ASSUME NEW r \in Request
      PROVE  /\ ReqOK(req'[r]) /\ req'[r].pc \notin AtWork
             /\ req'[r].pc \in {"lost", req[r].pc}
             /\ req'[r].told = req[r].told /\ req'[r].route = req[r].route
  <2>1. ReqOK(req[r]) /\ DOMAIN req[r] = Fields /\ req[r].told \in Told
    BY DEF RequestsOK, ReqOK, Typed
  <2>2. CASE req[r].pc \in AtWork
    <3> DEFINE x == Finish(req[r], "lost", req[r].told)
    <3>1. req[r].told # "answer"
      BY <2>1, <2>2 DEF ReqOK, Placed, AtWork
    <3>2. x.pc = "lost" /\ x.told = req[r].told /\ x.route = req[r].route
      BY <2>1, FinishFields
    <3>3. ReqOK(x)
      BY <2>1, <3>1, FinishOK DEF Over
    <3> HIDE DEF x
    <3>4. req'[r] = x
      BY <1>1, <2>2 DEF x
    <3>. QED
      BY <3>2, <3>3, <3>4 DEF AtWork
  <2>3. CASE req[r].pc \notin AtWork
    BY <1>1, <2>1, <2>3
  <2>. QED
    BY <2>2, <2>3
<1>. QED
  BY <1>1, <1>2

------------------------------------------------------------------------------
(* The parts of the invariant are kept, one by one.                         *)
(* Each request by itself.                                                  *)
LEMMA RequestsFollow ==
  ASSUME RequestsOK, CachesOK, RowsOK, Next
  PROVE  RequestsOK'
<1>1. DOMAIN req = Request /\ \A r \in Request : ReqOK(req[r])
  BY DEF RequestsOK
<1>2. ASSUME NEW r \in Request,
             RequestStep(r) \/ Commit(r) \/ Record(r) \/ ReadSpend(r) \/ Reply(r)
      PROVE  RequestsOK'
  <2>1. DOMAIN req' = Request /\ \A s \in Request : s # r => req'[s] = req[s]
    BY <1>1, <1>2, OneMoves
  <2>2. ReqOK(req'[r])
    BY <1>1, <1>2, PlainStep, Committed, Recorded, SpendRead, Replied
  <2>3. ASSUME NEW s \in Request PROVE ReqOK(req'[s])
    <3>1. CASE s = r
      BY <2>2, <3>1
    <3>2. CASE s # r
      BY <1>1, <2>1, <3>2
    <3>. QED
      BY <3>1, <3>2
  <2>. QED
    BY <2>1, <2>3 DEF RequestsOK
<1>3. CASE Restart
  BY <1>3, Restarted DEF RequestsOK
<1>4. CASE UNCHANGED req
  BY <1>4 DEF RequestsOK
<1>. QED
  BY <1>2, <1>3, <1>4, NextCases DEF Expire, AgeDay, AgeMonth

(* The caches.                                                              *)
LEMMA CachesKept ==
  ASSUME RequestsOK, CachesOK, Next
  PROVE  CachesOK'
<1>1. ASSUME NEW r \in Request, RequestStep(r) PROVE CachesOK'
  BY <1>1, CachesFollow DEF RequestsOK
<1>2. ASSUME NEW k \in DOMAIN exact, Expire(k) PROVE CachesOK'
  BY <1>2 DEF Expire, Restrict, CachesOK
<1>3. CASE Restart
  <2>1. exact' = <<>> /\ semantic' = <<>>
    BY <1>3 DEF Restart
  <2>2. DOMAIN exact' = {} /\ semantic' \in Seq(Entry)
    BY <2>1
  <2>. QED
    BY <2>2 DEF CachesOK
<1>4. CASE UNCHANGED caches
  BY <1>4 DEF caches, CachesOK
<1>. QED
  BY <1>1, <1>2, <1>3, <1>4, NextCases
     DEF Commit, Record, ReadSpend, Reply, AgeDay, AgeMonth

(* The log with one row more.                                               *)
LEMMA Appended ==
  ASSUME RowsOK, NEW r \in Request, NEW c \in 0 .. MaxPrice,
         log' = Append(log, [req |-> r, cost |-> c])
  PROVE  /\ log' \in Seq(Row) /\ Len(log') = Len(log) + 1 /\ DOMAIN log' = 1 .. Len(log) + 1
         /\ \A i \in 1 .. Len(log) : log'[i] = log[i]
         /\ log'[Len(log) + 1].req = r /\ log'[Len(log) + 1].cost = c
<1>1. [req |-> r, cost |-> c] \in Row
  BY PriceAssumption DEF Row
<1>2. log \in Seq(Row)
  BY DEF RowsOK
<1>3. /\ log' \in Seq(Row) /\ Len(log') = Len(log) + 1
      /\ \A i \in 1 .. Len(log) : log'[i] = log[i]
      /\ log'[Len(log) + 1] = [req |-> r, cost |-> c]
  BY <1>1, <1>2, AppendProperties
<1>4. DOMAIN log' = 1 .. Len(log')
  BY <1>3, LenProperties
<1>. QED
  BY <1>3, <1>4

(* The rows of the log.                                                     *)
LEMMA RowsKept ==
  ASSUME RequestsOK, CachesOK, RowsOK, Next
  PROVE  RowsOK'
<1>0. Len(log) \in Nat
  BY CostSequences
<1>1. ASSUME NEW r \in Request, Commit(r) PROVE RowsOK'
  <2>1. PICK c \in 0 .. MaxPrice : log' = Append(log, [req |-> r, cost |-> c])
    BY <1>1, Committed DEF RequestsOK
  <2>2. log' \in Seq(Row) /\ Len(log') = Len(log) + 1
    BY <2>1, Appended
  <2>3. day' = day /\ month' = month
    BY <1>1 DEF Commit
  <2>. QED
    BY <1>0, <2>2, <2>3 DEF RowsOK
<1>2. CASE AgeDay
  BY <1>0, <1>2 DEF AgeDay, RowsOK
<1>3. CASE AgeMonth
  BY <1>0, <1>3 DEF AgeMonth, RowsOK
<1>4. CASE UNCHANGED <<log, day, month>>
  BY <1>4 DEF RowsOK
<1>5. ASSUME NEW r \in Request, RequestStep(r) PROVE RowsOK'
  BY <1>4, <1>5, PlainStep
<1>. QED
  BY <1>1, <1>2, <1>3, <1>4, <1>5, NextCases
     DEF Record, ReadSpend, Reply, Expire, Restart, ledger

(* The books: a request that is in the log stays there, and is not logged   *)
(* again.                                                                   *)
LEMMA BooksKept ==
  ASSUME RequestsOK, CachesOK, RowsOK, BooksOK, Next
  PROVE  BooksOK'
<1>0. DOMAIN req = Request /\ DOMAIN log = 1 .. Len(log) /\ Len(log) \in Nat
  BY CostSequences DEF RequestsOK
<1>1. ASSUME NEW r \in Request, RequestStep(r) PROVE BooksOK'
  <2>1. \A s \in Request : s # r => req'[s] = req[s]
    BY <1>0, <1>1, OneMoves
  <2>2. Plain(req[r], req'[r]) /\ log' = log /\ counted' = counted
    BY <1>1, PlainStep
  <2>3. ASSUME NEW s \in Request
        PROVE  /\ req'[s].pc \in Unlogged => ~Logged(s)
               /\ req'[s].pc \in Booked => Logged(s)
               /\ req'[s].pc \in {"reading spend", "spend read"} => s \in counted
    <3>1. CASE s = r
      BY <2>2, <3>1 DEF BooksOK, Plain, Booked
    <3>2. CASE s # r
      BY <2>1, <3>2 DEF BooksOK
    <3>. QED
      BY <3>1, <3>2
  <2>4. \A s : Logged(s)' <=> Logged(s)
    BY <2>2 DEF Logged
  <2>. QED
    BY <2>2, <2>3, <2>4 DEF BooksOK
<1>2. ASSUME NEW r \in Request, Commit(r) PROVE BooksOK'
  <2>1. \A s \in Request : s # r => req'[s] = req[s]
    BY <1>0, <1>2, OneMoves
  <2>2. /\ req[r].pc = "logging" /\ req'[r].pc = "logged"
        /\ \E c \in 0 .. MaxPrice : log' = Append(log, [req |-> r, cost |-> c])
    BY <1>2, Committed DEF RequestsOK
  <2>3. /\ DOMAIN log' = 1 .. Len(log) + 1 /\ log'[Len(log) + 1].req = r
        /\ \A i \in 1 .. Len(log) : log'[i] = log[i]
    BY <2>2, Appended
  <2>4. \A s : Logged(s)' <=> Logged(s) \/ s = r
    BY <1>0, <2>3 DEF Logged
  <2>5. ~Logged(r)
    BY <2>2 DEF BooksOK, Unlogged
  <2>6. \A i \in 1 .. Len(log) : log[i].req # r
    BY <1>0, <2>5 DEF Logged
  <2>7. \A i, j \in DOMAIN log' : log'[i].req = log'[j].req => i = j
    <3> SUFFICES ASSUME NEW i \in DOMAIN log', NEW j \in DOMAIN log',
                        log'[i].req = log'[j].req
                 PROVE  i = j
      OBVIOUS
    <3>1. CASE i = Len(log) + 1
      BY <1>0, <2>3, <2>6, <3>1
    <3>2. CASE j = Len(log) + 1
      BY <1>0, <2>3, <2>6, <3>2
    <3>3. CASE i # Len(log) + 1 /\ j # Len(log) + 1
      <4>1. i \in 1 .. Len(log) /\ j \in 1 .. Len(log)
        BY <1>0, <2>3, <3>3
      <4>. QED
        BY <1>0, <2>3, <4>1 DEF BooksOK
    <3>. QED
      BY <3>1, <3>2, <3>3
  <2>8. counted' = counted
    BY <1>2 DEF Commit, metrics
  <2>9. ASSUME NEW s \in Request
        PROVE  /\ req'[s].pc \in Unlogged => ~Logged(s) /\ s # r
               /\ req'[s].pc \in Booked => Logged(s) \/ s = r
               /\ req'[s].pc \in {"reading spend", "spend read"} => s \in counted
    <3>1. CASE s = r
      BY <2>2, <3>1 DEF Unlogged
    <3>2. CASE s # r
      BY <2>1, <3>2 DEF BooksOK
    <3>. QED
      BY <3>1, <3>2
  <2>. QED
    BY <2>4, <2>7, <2>8, <2>9 DEF BooksOK
<1>3. ASSUME NEW r \in Request, Record(r) \/ ReadSpend(r) \/ Reply(r) PROVE BooksOK'
  <2>1. \A s \in Request : s # r => req'[s] = req[s]
    BY <1>0, <1>3, OneMoves
  <2>2. /\ log' = log /\ counted \subseteq counted' /\ counted' \subseteq counted \cup {r}
        /\ req[r].pc \in Booked /\ req'[r].pc \in Booked
        /\ req'[r].pc \in {"reading spend", "spend read"} => r \in counted'
    <3>1. CASE Record(r)
      BY <3>1, Recorded DEF RequestsOK, Record, ledger, Booked
    <3>2. CASE ReadSpend(r)
      <4>1. counted' = counted /\ log' = log
        BY <3>2 DEF ReadSpend, ledger, metrics
      <4>2. req[r].pc = "reading spend" /\ req'[r].pc = "spend read"
        BY <3>2, SpendRead DEF RequestsOK
      <4>. QED
        BY <4>1, <4>2 DEF BooksOK, Booked
    <3>3. CASE Reply(r)
      BY <3>3, Replied DEF RequestsOK, Reply, ledger, Booked
    <3>. QED
      BY <1>3, <3>1, <3>2, <3>3
  <2>3. Logged(r)
    BY <2>2 DEF BooksOK
  <2>4. \A s : Logged(s)' <=> Logged(s)
    BY <2>2 DEF Logged
  <2>5. ASSUME NEW s \in Request
        PROVE  /\ req'[s].pc \in Unlogged => ~Logged(s)
               /\ req'[s].pc \in Booked => Logged(s)
               /\ req'[s].pc \in {"reading spend", "spend read"} => s \in counted'
    <3>1. CASE s = r
      BY <2>2, <2>3, <3>1 DEF Booked, Unlogged
    <3>2. CASE s # r
      BY <2>1, <2>2, <3>2 DEF BooksOK
    <3>. QED
      BY <3>1, <3>2
  <2>6. counted' \subseteq Request /\ \A s \in counted' : Logged(s)
    BY <2>2, <2>3 DEF BooksOK
  <2>7. \A i, j \in DOMAIN log' : log'[i].req = log'[j].req => i = j
    BY <2>2 DEF BooksOK
  <2>. QED
    BY <2>4, <2>5, <2>6, <2>7 DEF BooksOK
<1>4. CASE Restart
  <2>1. log' = log /\ counted' = {}
    BY <1>4 DEF Restart, ledger
  <2>2. \A s : Logged(s)' <=> Logged(s)
    BY <2>1 DEF Logged
  <2>3. ASSUME NEW s \in Request
        PROVE  /\ req'[s].pc \in Unlogged => ~Logged(s)
               /\ req'[s].pc \in Booked => Logged(s)
               /\ req'[s].pc \notin {"reading spend", "spend read"}
    <3>1. req'[s].pc \notin AtWork /\ req'[s].pc \in {"lost", req[s].pc}
      BY <1>4, Restarted
    <3>. QED
      BY <3>1 DEF BooksOK, Unlogged, Booked, AtWork
  <2>4. \A i, j \in DOMAIN log' : log'[i].req = log'[j].req => i = j
    BY <2>1 DEF BooksOK
  <2>. QED
    BY <2>1, <2>2, <2>3, <2>4 DEF BooksOK
<1>5. CASE UNCHANGED <<req, log, counted>>
  BY <1>5 DEF BooksOK, Logged
<1>. QED
  BY <1>1, <1>2, <1>3, <1>4, <1>5, NextCases DEF Expire, AgeDay, AgeMonth, ledger, metrics

(* What was so of the rows up to one stays so while others are appended.    *)
Grows ==
    \/ log' = log
    \/ \E r \in Request, c \in 0 .. MaxPrice : log' = Append(log, [req |-> r, cost |-> c])

LEMMA RowsGrow ==
  ASSUME RowsOK, RowsOK', Grows
  PROVE  /\ DOMAIN log \subseteq DOMAIN log' /\ \A i \in DOMAIN log : log'[i] = log[i]
         /\ \A n \in DOMAIN log : Totals(RowCosts)'[n] = Totals(RowCosts)[n]
<1>1. /\ DOMAIN log = 1 .. Len(log) /\ Len(log) \in Nat
      /\ RowCosts \in Seq(Nat) /\ Len(RowCosts) = Len(log)
      /\ \A i \in 1 .. Len(log) : RowCosts[i] = log[i].cost
  BY CostSequences
<1>2. /\ DOMAIN log' = 1 .. Len(log') /\ Len(log') \in Nat
      /\ RowCosts' \in Seq(Nat) /\ Len(RowCosts') = Len(log')
      /\ \A i \in 1 .. Len(log') : RowCosts'[i] = log'[i].cost
  <2>1. CASE log' = log
    BY <1>1, <2>1 DEF RowCosts
  <2>2. CASE log' # log
    <3>1. log' \in Seq(Row)
      BY DEF RowsOK
    <3>2. DOMAIN log' = 1 .. Len(log') /\ Len(log') \in Nat
      BY <3>1, LenProperties
    <3>3. \A i \in 1 .. Len(log') : log'[i].cost \in Nat
      <4>1. \A i \in 1 .. Len(log') : log'[i] \in Row
        BY <3>1, ElementOfSeq
      <4>. QED
        BY <4>1 DEF Row
    <3>4. RowCosts' \in [1 .. Len(log') -> Nat]
      BY <3>2, <3>3 DEF RowCosts
    <3>5. RowCosts' \in Seq(Nat)
      BY <3>2, <3>4, SeqDef
    <3>6. Len(RowCosts') \in Nat /\ DOMAIN RowCosts' = 1 .. Len(RowCosts')
      BY <3>5, LenProperties
    <3>7. Len(RowCosts') = Len(log')
      BY <3>2, <3>4, <3>6
    <3>. QED
      BY <3>2, <3>5, <3>7 DEF RowCosts
  <2>. QED
    BY <2>1, <2>2
<1>3. Len(log) <= Len(log') /\ \A i \in 1 .. Len(log) : log'[i] = log[i]
  <2>1. CASE log' = log
    BY <1>1, <2>1
  <2>2. CASE log' # log
    <3>1. PICK r \in Request, c \in 0 .. MaxPrice : log' = Append(log, [req |-> r, cost |-> c])
      BY <2>2 DEF Grows
    <3>2. Len(log') = Len(log) + 1 /\ \A i \in 1 .. Len(log) : log'[i] = log[i]
      BY <3>1, Appended
    <3>. QED
      BY <1>1, <3>2
  <2>. QED
    BY <2>1, <2>2
<1>4. \A n \in 0 .. Len(log) : Totals(RowCosts)[n] = Totals(RowCosts')[n]
  <2>1. ASSUME NEW i \in 1 .. Len(RowCosts) PROVE RowCosts[i] = RowCosts'[i]
    <3>1. i \in 1 .. Len(log) /\ i \in 1 .. Len(log')
      BY <1>1, <1>2, <1>3
    <3>. QED
      BY <1>1, <1>2, <1>3, <3>1
  <2>2. Len(RowCosts) <= Len(RowCosts')
    BY <1>1, <1>2, <1>3
  <2>3. ASSUME NEW c \in Seq(Nat), NEW d \in Seq(Nat), Len(c) <= Len(d),
               \A i \in 1 .. Len(c) : c[i] = d[i]
        PROVE  \A n \in 0 .. Len(c) : Totals(c)[n] = Totals(d)[n]
    BY <2>3, TotalsOfPrefix
  <2>4. \A n \in 0 .. Len(RowCosts) : Totals(RowCosts)[n] = Totals(RowCosts')[n]
    BY <1>1, <1>2, <2>1, <2>2, <2>3
  <2>. QED
    BY <1>1, <2>4
<1>. QED
  BY <1>1, <1>2, <1>3, <1>4

(* What the gauge shows, and what was read for it, stays in the past.       *)
LEMMA PastKept ==
  ASSUME RowsOK, RowsOK', Grows, GaugeOK, day' = 0 => day = 0,
         gauge' = gauge, Answering' = Answering
  PROVE  /\ gauge' \in Nat /\ GaugeShowsAPast'
         /\ day' = 0 => \A s \in Request :
               req[s].pc = "spend read" /\ req'[s] = req[s] => ReadAPast(s)'
<1>1. /\ DOMAIN log \subseteq DOMAIN log' /\ \A i \in DOMAIN log : log'[i] = log[i]
      /\ \A n \in DOMAIN log : Totals(RowCosts)'[n] = Totals(RowCosts)[n]
      /\ \A n \in DOMAIN log : 1 .. n \subseteq DOMAIN log
  BY RowsGrow, CostSequences
<1>2. GaugeShowsAPast'
  <2> SUFFICES ASSUME day' = 0, Answering' # {}
               PROVE  \E n \in DOMAIN log' :
                         /\ \E i \in 1 .. n : log'[i].req \in Answering'
                         /\ LET spent == Totals(RowCosts)'[n]
                            IN  IF spent < DailyBudget THEN gauge' + spent = DailyBudget
                                ELSE gauge' = 0
    BY DEF GaugeShowsAPast
  <2>1. PICK n \in DOMAIN log :
            /\ \E i \in 1 .. n : log[i].req \in Answering
            /\ LET spent == Totals(RowCosts)[n]
               IN  IF spent < DailyBudget THEN gauge + spent = DailyBudget ELSE gauge = 0
    BY DEF GaugeOK, GaugeShowsAPast
  <2>. QED
    BY <1>1, <2>1
<1>3. ASSUME day' = 0, NEW s \in Request, req[s].pc = "spend read", req'[s] = req[s]
      PROVE  ReadAPast(s)'
  <2>1. PICK n \in DOMAIN log :
            req[s].spend = Totals(RowCosts)[n] /\ \E i \in 1 .. n : log[i].req = s
    BY <1>3 DEF GaugeOK, ReadAPast
  <2>. QED
    BY <1>1, <1>3, <2>1 DEF ReadAPast
<1>. QED
  BY <1>2, <1>3 DEF GaugeOK

(* A step that does not touch the gauge or who was answered keeps it right, *)
(* if whoever has read the spend has read a total of the past.              *)
LEMMA GaugeCarried ==
  ASSUME RowsOK, RowsOK', Grows, GaugeOK, day' = 0 => day = 0,
         gauge' = gauge, Answering' = Answering,
         day' = 0 => \A s \in Request : req'[s].pc = "spend read" =>
             (req[s].pc = "spend read" /\ req'[s] = req[s]) \/ ReadAPast(s)'
  PROVE  GaugeOK'
BY PastKept DEF GaugeOK

(* Only a reply changes who was answered.                                   *)
LEMMA AnsweringKept ==
  ASSUME NEW r \in Request, BooksOK, \A s \in Request : s # r => req'[s] = req[s],
         req[r].told # "answer", req'[r].told # "answer",
         counted \subseteq counted', counted' \subseteq counted \cup {r}
  PROVE  Answering' = Answering
<1>1. counted \subseteq Request
  BY DEF BooksOK
<1>2. ASSUME NEW s
      PROVE  s \in counted' /\ req'[s].told = "answer" <=> s \in counted /\ req[s].told = "answer"
  BY <1>1
<1>. QED
  BY <1>2 DEF Answering

(* The gauge.                                                               *)
LEMMA GaugeKept ==
  ASSUME RequestsOK, CachesOK, RowsOK, RowsOK', BooksOK, GaugeOK, Next
  PROVE  GaugeOK'
<1>0. DOMAIN req = Request /\ DOMAIN log = 1 .. Len(log) /\ Len(log) \in Nat
  BY CostSequences DEF RequestsOK
<1>1. ASSUME NEW r \in Request, RequestStep(r) PROVE GaugeOK'
  <2>1. \A s \in Request : s # r => req'[s] = req[s]
    BY <1>0, <1>1, OneMoves
  <2>2. /\ req[r].told # "answer" /\ req'[r].told # "answer" /\ req'[r].pc # "spend read"
        /\ log' = log /\ day' = day /\ counted' = counted /\ gauge' = gauge
    BY <1>1, PlainStep DEF Plain, Booked
  <2>3. Answering' = Answering
    BY <2>1, <2>2, AnsweringKept
  <2>. QED
    BY <2>1, <2>2, <2>3, GaugeCarried DEF Grows
<1>2. ASSUME NEW r \in Request, Commit(r) PROVE GaugeOK'
  <2>1. \A s \in Request : s # r => req'[s] = req[s]
    BY <1>0, <1>2, OneMoves
  <2>2. /\ req[r].pc = "logging" /\ req'[r].pc = "logged" /\ req'[r].told = req[r].told
        /\ \E c \in 0 .. MaxPrice : log' = Append(log, [req |-> r, cost |-> c])
    BY <1>2, Committed DEF RequestsOK
  <2>3. req[r].told # "answer"
    BY <2>2 DEF RequestsOK, ReqOK, Placed
  <2>4. day' = day /\ counted' = counted /\ gauge' = gauge
    BY <1>2 DEF Commit, metrics
  <2>5. Answering' = Answering
    BY <2>1, <2>2, <2>3, <2>4, AnsweringKept
  <2>. QED
    BY <2>1, <2>2, <2>4, <2>5, GaugeCarried DEF Grows
<1>3. ASSUME NEW r \in Request, Record(r) PROVE GaugeOK'
  <2>1. \A s \in Request : s # r => req'[s] = req[s]
    BY <1>0, <1>3, OneMoves
  <2>2. /\ req[r].told # "answer" /\ req'[r].told = req[r].told
        /\ req'[r].pc \in {"ended", "reading spend"} /\ counted' = counted \cup {r}
    BY <1>3, Recorded DEF RequestsOK
  <2>3. log' = log /\ day' = day /\ gauge' = gauge
    BY <1>3 DEF Record, ledger
  <2>4. Answering' = Answering
    BY <2>1, <2>2, AnsweringKept
  <2>. QED
    BY <2>1, <2>2, <2>3, <2>4, GaugeCarried DEF Grows
<1>4. ASSUME NEW r \in Request, ReadSpend(r) PROVE GaugeOK'
  <2>1. \A s \in Request : s # r => req'[s] = req[s]
    BY <1>0, <1>4, OneMoves
  <2>2. /\ req[r].pc = "reading spend" /\ req[r].told # "answer"
        /\ req'[r].told = req[r].told /\ req'[r].spend = SpentSince(day)
    BY <1>4, SpendRead DEF RequestsOK
  <2>3. log' = log /\ day' = day /\ counted' = counted /\ gauge' = gauge
    BY <1>4 DEF ReadSpend, ledger, metrics
  <2>4. Answering' = Answering
    BY <2>1, <2>2, <2>3, AnsweringKept
  <2>5. ASSUME day = 0 PROVE ReadAPast(r)'
    <3>1. PICK i \in 1 .. Len(log) : log[i].req = r
      BY <1>0, <2>2 DEF BooksOK, Booked, Logged
    <3>2. Len(log) \in DOMAIN log /\ i \in 1 .. Len(log)
      BY <1>0
    <3>3. SpentSince(0) = Totals(RowCosts)[Len(log)]
      <4>1. Totals(RowCosts)[0] = 0 /\ Totals(RowCosts)[Len(log)] \in Nat
        BY <1>0, CostSequences, TotalsOf
      <4>. QED
        BY <4>1 DEF SpentSince, Between
    <3>4. req'[r].spend = Totals(RowCosts)[Len(log)]
      BY <2>2, <2>5, <3>3
    <3>5. RowCosts' = RowCosts
      BY <2>3 DEF RowCosts
    <3>. QED
      BY <2>3, <3>1, <3>2, <3>4, <3>5 DEF ReadAPast
  <2>. QED
    BY <2>1, <2>3, <2>4, <2>5, GaugeCarried DEF Grows
<1>5. ASSUME NEW r \in Request, Reply(r) PROVE GaugeOK'
  <2>1. \A s \in Request : s # r => req'[s] = req[s]
    BY <1>0, <1>5, OneMoves
  <2>2. /\ req[r].pc = "spend read" /\ req'[r].pc = "ended" /\ req'[r].told = "answer"
        /\ gauge' = Remaining(req[r].spend) /\ req[r].spend \in Nat
    BY <1>5, Replied DEF RequestsOK, ReqOK, Typed
  <2>3. log' = log /\ day' = day /\ counted' = counted /\ RowCosts' = RowCosts
    BY <1>5 DEF Reply, ledger, RowCosts
  <2>4. r \in Answering'
    BY <2>2, <2>3 DEF BooksOK, Answering
  <2>5. /\ gauge' \in Nat
        /\ \A spent \in Nat : req[r].spend = spent =>
              IF spent < DailyBudget THEN gauge' + spent = DailyBudget ELSE gauge' = 0
    <3>1. \A spent \in Nat : /\ Remaining(spent) \in Nat
                            /\ IF spent < DailyBudget
                               THEN Remaining(spent) + spent = DailyBudget
                               ELSE Remaining(spent) = 0
      BY DailyBudgetAssumption DEF Remaining
    <3>. QED
      BY <2>2, <3>1
  <2>6. ASSUME day = 0 PROVE GaugeShowsAPast'
    <3>1. PICK n \in DOMAIN log :
              req[r].spend = Totals(RowCosts)[n] /\ \E i \in 1 .. n : log[i].req = r
      BY <2>2, <2>6 DEF GaugeOK, ReadAPast
    <3>2. IF Totals(RowCosts)[n] < DailyBudget
          THEN gauge' + Totals(RowCosts)[n] = DailyBudget ELSE gauge' = 0
      BY <2>2, <2>5, <3>1
    <3>. QED
      BY <2>3, <2>4, <3>1, <3>2 DEF GaugeShowsAPast
  <2>7. GaugeShowsAPast'
    BY <2>3, <2>6 DEF GaugeShowsAPast
  <2>8. ASSUME day = 0, NEW s \in Request, req'[s].pc = "spend read" PROVE ReadAPast(s)'
    <3>1. s # r
      BY <2>2, <2>8
    <3>2. req'[s] = req[s] /\ ReadAPast(s)
      BY <2>1, <2>8, <3>1 DEF GaugeOK
    <3>. QED
      BY <2>3, <3>2 DEF ReadAPast
  <2>. QED
    BY <2>3, <2>5, <2>7, <2>8 DEF GaugeOK
<1>6. CASE AgeDay
  <2>1. day' # 0 /\ gauge' = gauge
    BY <1>6 DEF AgeDay, RowsOK, metrics
  <2>. QED
    BY <2>1 DEF GaugeOK, GaugeShowsAPast
<1>7. CASE Restart
  <2>1. Answering' = {} /\ gauge' = 0
    BY <1>7 DEF Restart, Answering
  <2>2. \A s \in Request : req'[s].pc # "spend read"
    BY <1>7, Restarted DEF AtWork
  <2>. QED
    BY <2>1, <2>2 DEF GaugeOK, GaugeShowsAPast
<1>8. CASE UNCHANGED <<req, log, day, counted, gauge>>
  <2>1. Answering' = Answering
    BY <1>8 DEF Answering
  <2>. QED
    BY <1>8, <2>1, GaugeCarried DEF Grows
<1>. QED
  BY <1>1, <1>2, <1>3, <1>4, <1>5, <1>6, <1>7, <1>8, NextCases
     DEF Expire, AgeMonth, ledger, metrics

------------------------------------------------------------------------------
(* The invariant holds at the start, and every step keeps it.               *)
(* At the start there is nothing.                                           *)
LEMMA Initially ==
  ASSUME Init
  PROVE  IInv
<1>1. DOMAIN req = Request /\ \A r \in Request : req[r] = NewRequest(AnyPrompt, "auto", FALSE)
  BY DEF Init
<1> DEFINE x == NewRequest(AnyPrompt, "auto", FALSE)
<1>2. /\ DOMAIN x = Fields /\ x.pc = "idle" /\ x.told = "nothing"
      /\ x.route.model = "mock-small" /\ x.route.reason = "none"
      /\ x.prompt = AnyPrompt /\ x.hit = "miss" /\ x.answer = NoAnswer /\ x.spend \in Nat
  BY DEF NewRequest, Fields, Decision
<1> HIDE DEF x
<1>3. ReqOK(x)
  <2>1. Typed(x)
    BY <1>2, Nothing, ModelAssumption DEF Typed, Told
  <2>2. Placed(x)
    BY <1>2 DEF Placed, AtWork
  <2>3. Answers(x)
    BY <1>2, Nothing DEF Answers
  <2>4. Routed(x)
    BY <1>2 DEF Routed, Band
  <2>. QED
    BY <2>1, <2>2, <2>3, <2>4 DEF ReqOK
<1>4. \A r \in Request : req[r] = x
  BY <1>1 DEF x
<1>5. RequestsOK
  BY <1>1, <1>3, <1>4 DEF RequestsOK
<1>6. CachesOK
  <2>1. DOMAIN exact = {} /\ semantic \in Seq(Entry)
    BY DEF Init
  <2>. QED
    BY <2>1 DEF CachesOK
<1>7. log \in Seq(Row) /\ Len(log) = 0 /\ DOMAIN log = {} /\ day = 0 /\ month = 0
  BY DEF Init
<1>8. RowsOK
  BY <1>7 DEF RowsOK
<1>9. counted = {} /\ gauge = 0
  BY DEF Init
<1>10. BooksOK
  BY <1>2, <1>4, <1>7, <1>9 DEF BooksOK, Logged, Booked
<1>11. GaugeOK
  <2>1. Answering = {}
    BY <1>9 DEF Answering
  <2>2. \A r \in Request : req[r].pc # "spend read"
    BY <1>2, <1>4
  <2>. QED
    BY <1>9, <2>1, <2>2 DEF GaugeOK, GaugeShowsAPast
<1>12. onExceeded \in Modes
  BY DEF Init
<1>. QED
  BY <1>5, <1>6, <1>8, <1>10, <1>11, <1>12 DEF IInv

(* The setting never changes.                                               *)
LEMMA ModeKept ==
  ASSUME RequestsOK, CachesOK, Next
  PROVE  onExceeded' = onExceeded
<1>1. ASSUME NEW r \in Request, RequestStep(r) PROVE onExceeded' = onExceeded
  BY <1>1, PlainStep
<1>. QED
  BY <1>1, NextCases
     DEF Commit, Record, ReadSpend, Reply, Expire, AgeDay, AgeMonth, Restart, ledger

(* IInv is inductive.                                                       *)
LEMMA Inductive ==
  ASSUME IInv, [Next]_vars
  PROVE  IInv'
<1>1. CASE Next
  <2>1. onExceeded \in Modes /\ RequestsOK /\ CachesOK /\ RowsOK /\ BooksOK /\ GaugeOK
    BY DEF IInv
  <2>2. RequestsOK' /\ CachesOK' /\ RowsOK' /\ BooksOK' /\ onExceeded' = onExceeded
    BY <1>1, <2>1, RequestsFollow, CachesKept, RowsKept, BooksKept, ModeKept
  <2>3. GaugeOK'
    BY <1>1, <2>1, <2>2, GaugeKept
  <2>. QED
    BY <2>1, <2>2, <2>3 DEF IInv
<1>2. CASE UNCHANGED vars
  <2>1. RequestsOK'
    BY <1>2 DEF IInv, RequestsOK, vars
  <2>2. CachesOK'
    BY <1>2 DEF IInv, CachesOK, vars
  <2>3. RowsOK'
    BY <1>2 DEF IInv, RowsOK, vars
  <2>4. BooksOK'
    BY <1>2 DEF IInv, BooksOK, Logged, vars
  <2>5. GaugeOK'
    <3>1. Answering' = Answering
      BY <1>2 DEF Answering, vars
    <3>. QED
      BY <1>2, <2>3, <3>1, GaugeCarried DEF Grows, IInv, vars
  <2>. QED
    BY <1>2, <2>1, <2>2, <2>3, <2>4, <2>5 DEF IInv, vars
<1>. QED
  BY <1>1, <1>2

(* IInv, for every behaviour of the request path: the invariant from which  *)
(* all that follows is drawn.                                               *)
THEOREM InvariantHolds == Spec => []IInv
<1>1. Init => IInv
  BY Initially
<1>2. IInv /\ [Next]_vars => IInv'
  BY Inductive
<1>. QED
  BY <1>1, <1>2, PTL DEF Spec

------------------------------------------------------------------------------
(* The state of the request path is well-typed, whatever the handlers do.   *)
THEOREM TypeCorrect == Spec => []TypeOK
<1>1. ASSUME IInv PROVE TypeOK
  <2>0. onExceeded \in Modes /\ RequestsOK /\ CachesOK /\ RowsOK /\ BooksOK /\ GaugeOK
    BY <1>1 DEF IInv
  <2>1. DOMAIN req = Request
    BY <2>0 DEF RequestsOK
  <2>2. ASSUME NEW r \in Request
        PROVE  /\ req[r].pc \in {"idle"} \cup AtWork \cup Over
               /\ req[r].answer \in Answer /\ req[r].route.model \in Model
               /\ req[r].told \in Told
               /\ req[r].pc \in {"calling", "opening"} => req[r].hit = "miss"
               /\ req[r].pc = "closing" <=> req[r].told = "final" /\ req[r].pc \in AtWork
    BY <2>0 DEF RequestsOK, ReqOK, Typed, Placed
  <2>3. DOMAIN exact \subseteq Key /\ Range(exact) \subseteq Answer
    BY <2>0 DEF CachesOK, CachedFor, Range
  <2>4. \A i \in DOMAIN semantic : semantic[i].answer \in Answer
    <3>1. \A i \in DOMAIN semantic : semantic[i] \in Entry
      BY <2>0, LenProperties, ElementOfSeq DEF CachesOK
    <3>. QED
      BY <3>1 DEF Entry, CachedFor
  <2>5. \A i \in DOMAIN log : log[i].req \in Request /\ log[i].cost \in Nat
    BY <2>0, CostSequences
  <2>6. 0 <= month /\ month <= day /\ day <= Len(log)
    BY <2>0 DEF RowsOK
  <2>7. counted \subseteq Request /\ gauge \in Nat
    BY <2>0 DEF BooksOK, GaugeOK
  <2>. QED
    BY <2>0, <2>1, <2>2, <2>3, <2>4, <2>5, <2>6, <2>7 DEF TypeOK
<1>. QED
  BY <1>1, InvariantHolds, PTL

(* A stream that broke off with a message is never closed nor cached.       *)
THEOREM PartsNeverPass == Spec => []PartsAreNotAnswers
<1>1. ASSUME IInv PROVE PartsAreNotAnswers
  <2>1. ASSUME NEW r \in Request, req[r].told \in {"final", "done"}
        PROVE  req[r].answer.text # "part"
    BY <1>1, <2>1 DEF IInv, RequestsOK, ReqOK, Answers
  <2>2. \A a \in Range(exact) : a.text # "part"
    BY <1>1 DEF IInv, CachesOK, CachedFor, Range
  <2>3. \A i \in DOMAIN semantic : semantic[i].answer.text # "part"
    <3>1. \A i \in DOMAIN semantic : semantic[i] \in Entry
      BY <1>1, LenProperties, ElementOfSeq DEF IInv, CachesOK
    <3>. QED
      BY <3>1 DEF Entry, CachedFor
  <2>. QED
    BY <2>1, <2>2, <2>3 DEF PartsAreNotAnswers, IsNoAnswer
<1>. QED
  BY <1>1, InvariantHolds, PTL

(* The log, the metrics and what clients were told agree.                   *)
THEOREM BooksDoAgree == Spec => []BooksAgree
<1>1. ASSUME IInv PROVE BooksAgree
  <2>1. ASSUME NEW r \in Request, req[r].pc = "ended" \/ req[r].told = "answer"
        PROVE  Logged(r)
    <3>1. req[r].pc = "ended"
      BY <1>1, <2>1 DEF IInv, RequestsOK, ReqOK, Placed
    <3>. QED
      BY <1>1, <3>1 DEF IInv, BooksOK, Booked
  <2>. QED
    BY <1>1, <2>1 DEF IInv, BooksOK, BooksAgree
<1>. QED
  BY <1>1, InvariantHolds, PTL

(* Answers do not drift from prompt to prompt through the caches.           *)
THEOREM HitsStayAlike == Spec => []HitsDoNotDrift
<1>1. ASSUME IInv PROVE HitsDoNotDrift
  <2>1. \A k \in DOMAIN exact : exact[k].prompt = k[1]
    BY <1>1 DEF IInv, CachesOK, CachedFor
  <2>2. \A i \in DOMAIN semantic : semantic[i].answer.prompt = semantic[i].prompt
    <3>1. \A i \in DOMAIN semantic : semantic[i] \in Entry
      BY <1>1, LenProperties, ElementOfSeq DEF IInv, CachesOK
    <3>. QED
      BY <3>1 DEF Entry, CachedFor
  <2>3. \A r \in Request : req[r].hit # "miss" =>
            Alike(req[r].answer.prompt, Redacted[req[r].prompt])
    BY <1>1 DEF IInv, RequestsOK, ReqOK, Answers
  <2>. QED
    BY <2>1, <2>2, <2>3 DEF HitsDoNotDrift, Alike
<1>. QED
  BY <1>1, InvariantHolds, PTL

(* The gauge shows what remained at some moment of the past.                *)
THEOREM GaugeTellsAPast == Spec => []GaugeShowsAPast
<1>1. IInv => GaugeShowsAPast
  BY DEF IInv, GaugeOK
<1>. QED
  BY <1>1, InvariantHolds, PTL

(* The bands, seen from the requests they route.                            *)
THEOREM PolicyHolds == Spec => []RoutingPolicy
<1>1. DOMAIN Band = {"simple_prompt", "moderate_prompt", "complex_prompt"}
      /\ Band["simple_prompt"] = 1 /\ Band["moderate_prompt"] = 2 /\ Band["complex_prompt"] = 3
  BY DEF Band
<1>2. ASSUME NEW f
      PROVE  /\ Reason(LevelOf(f)) = "complex_prompt" <=> LevelOf(f) = "complex"
             /\ Reason(LevelOf(f)) = "simple_prompt" <=> LevelOf(f) = "simple"
             /\ Band[Reason(LevelOf(f))] = Rank(LevelOf(f)) + 1
             /\ Rank(LevelOf(f)) \in Nat
  BY <1>1 DEF LevelOf, Reason, Rank
<1>3. ASSUME IInv PROVE RoutingPolicy
  <2>1. ASSUME NEW r \in ByComplexity
        PROVE  /\ req[r].route.reason = Reason(LevelOf(Look(r)))
               /\ Look(r) \in Features /\ Look(r).tokens \in Int
    <3>1. /\ r \in Request /\ req[r].pc \notin Over /\ req[r].route.reason \in DOMAIN Band
          /\ ReqOK(req[r])
      BY <1>3 DEF ByComplexity, IInv, RequestsOK
    <3>2. req[r].route.reason = Reason(LevelOf(Look(r)))
      BY <3>1 DEF ReqOK, Routed, Look
    <3>3. req[r].prompt \in Prompt
      BY <3>1 DEF ReqOK, Typed
    <3>4. Look(r) \in Features
      BY <3>3, PromptAssumption DEF Look
    <3>. QED
      BY <3>2, <3>4, MaxTokensAssumption DEF Features
  <2>2. ASSUME NEW r \in ByComplexity
        PROVE  LET reason == req[r].route.reason
                   f == Look(r)
               IN  /\ ~f.code \/ f.tokens <= 250 => reason # "complex_prompt"
                   /\ f.tokens < 84 /\ ~(f.code /\ f.question) => reason = "simple_prompt"
    <3>1. /\ LevelOf(Look(r)) = "complex" => Look(r).code /\ Look(r).tokens > 250
          /\ Look(r).tokens < 84 /\ ~(Look(r).code /\ Look(r).question) =>
                LevelOf(Look(r)) = "simple"
      BY <2>1, BandsAreSound DEF SoundBands
    <3>2. Look(r).tokens <= 250 => ~(Look(r).tokens > 250)
      BY <2>1
    <3>. QED
      BY <1>2, <2>1, <3>1, <3>2
  <2>3. ASSUME NEW r \in ByComplexity, NEW s \in ByComplexity, NoMore(Look(r), Look(s))
        PROVE  Band[req[r].route.reason] <= Band[req[s].route.reason]
    <3>1. Rank(LevelOf(Look(r))) <= Rank(LevelOf(Look(s)))
      BY <2>1, <2>3, BandsAreSound DEF SoundBands
    <3>2. /\ Band[req[r].route.reason] = Rank(LevelOf(Look(r))) + 1
          /\ Band[req[s].route.reason] = Rank(LevelOf(Look(s))) + 1
      BY <1>2, <2>1
    <3>. QED
      BY <1>2, <3>1, <3>2
  <2>. QED
    BY <2>2, <2>3 DEF RoutingPolicy
<1>. QED
  BY <1>3, InvariantHolds, PTL

------------------------------------------------------------------------------
(* The refinement: the request path keeps the contract of Ledger.tla.       *)
(* The state of the ledger, as Gateway's instance of it sees it.            *)
Full == Between(day, Len(log), CostsIf(FALSE))
Cheap == Between(day, Len(log), CostsIf(TRUE))
Older == Between(month, day, RowCosts)
Phases == [r \in Request |-> LedgerPhase(req[r])]

(* Its three sums add up to the two that check_budget reads.                *)
LEMMA SpendSplits ==
  ASSUME RowsOK
  PROVE  /\ Full \in Nat /\ Cheap \in Nat /\ Older \in Nat
         /\ Full + Cheap = SpentSince(day) /\ Full + Cheap + Older = SpentSince(month)
<1> DEFINE a == CostsIf(FALSE)  b == CostsIf(TRUE)  c == RowCosts  n == Len(log)
<1>1. /\ a \in Seq(Nat) /\ b \in Seq(Nat) /\ c \in Seq(Nat)
      /\ Len(a) = n /\ Len(b) = n /\ Len(c) = n /\ n \in Nat
      /\ \A i \in 1 .. n : c[i] = a[i] + b[i]
  <2>1. \A i \in 1 .. n : log[i].cost \in Nat /\ Downgraded(log[i].req) \in BOOLEAN
    BY CostSequences DEF Downgraded
  <2>2. \A i \in 1 .. n : /\ a[i] = IF Downgraded(log[i].req) = FALSE THEN log[i].cost ELSE 0
                          /\ b[i] = IF Downgraded(log[i].req) = TRUE THEN log[i].cost ELSE 0
                          /\ c[i] = log[i].cost
    BY CostSequences
  <2>3. \A i \in 1 .. n : c[i] = a[i] + b[i]
    <3> HIDE DEF a, b, c, n
    <3>. QED
      BY <2>1, <2>2
  <2>. QED
    BY <2>3, CostSequences
<1>2. day \in 0 .. n /\ month \in 0 .. n /\ n \in day .. n /\ day \in month .. n
  BY <1>1 DEF RowsOK
<1>3. Full \in Nat /\ Cheap \in Nat /\ Older \in Nat
  <2>1. Between(day, n, a) \in Nat /\ Between(day, n, b) \in Nat
    <3> HIDE DEF a, b
    <3>. QED
      BY <1>1, <1>2, SpendIsNat
  <2>2. Between(month, day, c) \in Nat
    BY <1>1, <1>2, SpendIsNat
  <2>. QED
    BY <2>1, <2>2 DEF Full, Cheap, Older
<1>4. \A k \in 0 .. n : Totals(c)[k] = Totals(a)[k] + Totals(b)[k]
  <2> HIDE DEF a, b, c, n
  <2>1. /\ a \in Seq(Nat) /\ b \in Seq(Nat) /\ c \in Seq(Nat)
        /\ Len(a) = Len(c) /\ Len(b) = Len(c) /\ \A i \in 1 .. Len(c) : c[i] = a[i] + b[i]
    BY <1>1
  <2>2. \A k \in 0 .. Len(c) : Totals(c)[k] = Totals(a)[k] + Totals(b)[k]
    BY <2>1, TotalsSplit, Zenon
  <2>. QED
    BY <1>1, <2>2
<1>5. \A k \in 0 .. n : Totals(a)[k] \in Nat /\ Totals(b)[k] \in Nat /\ Totals(c)[k] \in Nat
  <2> HIDE DEF a, b, c, n
  <2>. QED
    BY <1>1, TotalsOf
<1>6. /\ Full = Totals(a)[n] - Totals(a)[day] /\ Cheap = Totals(b)[n] - Totals(b)[day]
      /\ Older = Totals(c)[day] - Totals(c)[month]
      /\ SpentSince(day) = Totals(c)[n] - Totals(c)[day]
      /\ SpentSince(month) = Totals(c)[n] - Totals(c)[month]
  <2>1. ASSUME NEW t \in {a, b, c}, NEW i \in 0 .. n, NEW j \in 0 .. n
        PROVE  Between(i, j, t) = Totals(t)[j] - Totals(t)[i]
    <3> HIDE DEF a, b, c, n
    <3>. QED
      BY <1>5, <2>1 DEF Between
  <2>2. n \in 0 .. n
    BY <1>1
  <2>3. QED
    BY <1>2, <2>1, <2>2 DEF Full, Cheap, Older, SpentSince
<1> HIDE DEF a, b, c, n
<1>7. n \in 0 .. n
  BY <1>1
<1>. QED
  BY <1>2, <1>3, <1>4, <1>5, <1>6, <1>7

(* No step but those of the log touches them: once a request is in the log, *)
(* its route stays.                                                         *)
LEMMA SpendKept ==
  ASSUME RowsOK, UNCHANGED <<log, day, month>>,
         \A r \in Request : Logged(r) => req'[r].route = req[r].route
  PROVE  UNCHANGED <<Full, Cheap, Older>>
<1>1. \A i \in DOMAIN log : req'[log[i].req].route = req[log[i].req].route
  BY CostSequences DEF Logged
<1>2. \A i \in DOMAIN log : Downgraded(log[i].req)' <=> Downgraded(log[i].req)
  BY <1>1 DEF Downgraded
<1>3. CostsIf(FALSE)' = CostsIf(FALSE) /\ CostsIf(TRUE)' = CostsIf(TRUE)
  BY <1>2 DEF CostsIf
<1>4. RowCosts' = RowCosts
  BY DEF RowCosts
<1>. QED
  BY <1>3, <1>4 DEF Full, Cheap, Older

(* A step of a request moves its own phase only.                            *)
LEMMA OnePhase ==
  ASSUME NEW r \in Request, \A s \in Request : s # r => req'[s] = req[s]
  PROVE  Phases' = [Phases EXCEPT ![r] = LedgerPhase(req'[r])]
<1>1. ASSUME NEW s \in Request
      PROVE  LedgerPhase(req'[s]) = IF s = r THEN LedgerPhase(req'[r]) ELSE LedgerPhase(req[s])
  OBVIOUS
<1>. QED
  BY <1>1 DEF Phases

(* What one more row does to a spend.                                       *)
LEMMA OneMore ==
  ASSUME NEW a \in Seq(Nat), NEW x \in Nat, NEW d \in [1 .. Len(a) + 1 -> Nat],
         \A i \in 1 .. Len(a) : d[i] = a[i], d[Len(a) + 1] = x
  PROVE  /\ \A i \in 0 .. Len(a) : Between(i, Len(a) + 1, d) = Between(i, Len(a), a) + x
         /\ \A i, j \in 0 .. Len(a) : Between(i, j, d) = Between(i, j, a)
<1>1. Len(a) \in Nat
  BY LenProperties
<1>2. d \in Seq(Nat) /\ Len(d) = Len(a) + 1
  <2>1. d \in Seq(Nat)
    BY <1>1, SeqDef
  <2>2. Len(d) \in Nat /\ DOMAIN d = 1 .. Len(d) /\ DOMAIN d = 1 .. Len(a) + 1
    BY <2>1, LenProperties
  <2>. QED
    BY <1>1, <2>1, <2>2
<1>3. \A n \in 0 .. Len(a) : Totals(a)[n] = Totals(d)[n]
  <2>1. Len(a) <= Len(d) /\ \A i \in 1 .. Len(a) : a[i] = d[i]
    BY <1>1, <1>2
  <2>. QED
    BY <1>2, <2>1, TotalsOfPrefix, Zenon
<1>4. Totals(d)[Len(a) + 1] = Totals(d)[Len(a)] + x
  <2>1. \A n \in 1 .. Len(d) : Totals(d)[n] = Totals(d)[n - 1] + d[n]
    BY <1>2, TotalsOf
  <2>2. Len(a) + 1 \in 1 .. Len(d) /\ (Len(a) + 1) - 1 = Len(a)
    BY <1>1, <1>2
  <2>. QED
    BY <2>1, <2>2
<1>5. \A n \in 0 .. Len(a) : Totals(a)[n] \in Nat
  BY TotalsOf
<1>6. Len(a) \in 0 .. Len(a)
  BY <1>1
<1>7. ASSUME NEW i \in 0 .. Len(a)
      PROVE  Between(i, Len(a) + 1, d) = Between(i, Len(a), a) + x
  <2>1. /\ Totals(d)[Len(a) + 1] = Totals(a)[Len(a)] + x /\ Totals(d)[i] = Totals(a)[i]
        /\ Totals(a)[Len(a)] \in Nat /\ Totals(a)[i] \in Nat
    BY <1>3, <1>4, <1>5, <1>6, <1>7
  <2>. QED
    BY <2>1 DEF Between
<1>8. \A i, j \in 0 .. Len(a) : Between(i, j, d) = Between(i, j, a)
  BY <1>3 DEF Between
<1>. QED
  BY <1>7, <1>8

(* A commit is Ledger's Charge.                                             *)
LEMMA Charged ==
  ASSUME NEW r \in Request, RequestsOK, RowsOK, Commit(r)
  PROVE  \E c \in 0 .. MaxPrice :
            /\ Older' = Older /\ LedgerPhase(req'[r]) = "out"
            /\ \/ /\ LedgerPhase(req[r]) = "admitted"
                  /\ Full' = Full + c /\ Cheap' = Cheap
               \/ /\ LedgerPhase(req[r]) = "downgraded"
                  /\ Cheap' = Cheap + c /\ Full' = Full
<1>1. DOMAIN req = Request /\ ReqOK(req[r])
  BY DEF RequestsOK
<1>2. /\ req[r].pc = "logging" /\ req'[r].pc = "logged" /\ req'[r].route = req[r].route
      /\ \E c \in 0 .. MaxPrice : log' = Append(log, [req |-> r, cost |-> c])
  BY <1>1, Committed
<1>3. PICK c \in 0 .. MaxPrice : log' = Append(log, [req |-> r, cost |-> c])
  BY <1>2
<1> DEFINE n == Len(log)
<1>4. /\ DOMAIN log' = 1 .. n + 1 /\ Len(log') = n + 1
      /\ \A i \in 1 .. n : log'[i] = log[i]
      /\ log'[n + 1].req = r /\ log'[n + 1].cost = c
  BY <1>3, Appended
<1>5. n \in Nat /\ \A i \in 1 .. n : log[i].req \in Request /\ log[i].cost \in Nat
  BY CostSequences
<1>6. c \in Nat
  BY PriceAssumption
<1>7. day' = day /\ month' = month
  BY DEF Commit
<1>8. day \in 0 .. n /\ month \in 0 .. n
  BY <1>5 DEF RowsOK
<1>9. \A s \in Request : req'[s].route = req[s].route
  <2>1. \A s \in Request : s # r => req'[s] = req[s]
    BY <1>1, OneMoves
  <2>. QED
    BY <1>2, <2>1
<1>10. ASSUME NEW cheap \in BOOLEAN
       PROVE  Between(day, Len(log), CostsIf(cheap))'
                = Between(day, Len(log), CostsIf(cheap)) + IF Downgraded(r) = cheap THEN c ELSE 0
  <2> DEFINE a == CostsIf(cheap)
             x == IF Downgraded(r) = cheap THEN c ELSE 0
             d == CostsIf(cheap)'
             Cheaper(s) == req'[s].route.reason = "budget_downgrade"
  <2>1. /\ a \in Seq(Nat) /\ Len(a) = n
        /\ \A i \in 1 .. n : a[i] = IF Downgraded(log[i].req) = cheap THEN log[i].cost ELSE 0
    BY CostSequences
  <2>2. d = [i \in 1 .. n + 1 |-> IF Cheaper(log'[i].req) = cheap THEN log'[i].cost ELSE 0]
    BY <1>4 DEF CostsIf, Downgraded
  <2>3. ASSUME NEW i \in 1 .. n PROVE d[i] = a[i] /\ d[i] \in Nat
    <3>1. i \in 1 .. n + 1 /\ log'[i] = log[i] /\ log[i].req \in Request /\ log[i].cost \in Nat
      BY <1>4, <1>5
    <3>2. Cheaper(log'[i].req) <=> Downgraded(log[i].req)
      BY <1>4, <1>9, <3>1 DEF Downgraded
    <3>3. Cheaper(log'[i].req) \in BOOLEAN /\ Downgraded(log[i].req) \in BOOLEAN
      BY DEF Downgraded
    <3> HIDE DEF a, d, n, Cheaper
    <3>. QED
      BY <2>1, <2>2, <3>1, <3>2, <3>3
  <2>4. d[n + 1] = x /\ x \in Nat
    <3>1. n + 1 \in 1 .. n + 1 /\ log'[n + 1].req = r /\ log'[n + 1].cost = c
      BY <1>4, <1>5
    <3>2. Cheaper(log'[n + 1].req) <=> Downgraded(r)
      BY <1>4, <1>9, <3>1 DEF Downgraded
    <3>3. Cheaper(log'[n + 1].req) \in BOOLEAN /\ Downgraded(r) \in BOOLEAN
      BY DEF Downgraded
    <3> HIDE DEF d, n, Cheaper
    <3>. QED
      BY <1>6, <2>2, <3>1, <3>2, <3>3
  <2>5. d \in [1 .. Len(a) + 1 -> Nat]
    <3>1. \A i \in 1 .. n + 1 : d[i] \in Nat
      <4> HIDE DEF d, x, n
      <4>1. \A i \in 1 .. n + 1 : i \in 1 .. n \/ i = n + 1
        BY <1>5
      <4>. QED
        BY <2>3, <2>4, <4>1
    <3>2. d = [i \in 1 .. n + 1 |-> d[i]]
      <4>1. d = [i \in 1 .. n + 1 |-> IF Cheaper(log'[i].req) = cheap THEN log'[i].cost ELSE 0]
        BY <2>2
      <4> HIDE DEF d, n
      <4>. QED
        BY <4>1
    <3> HIDE DEF d, a, n
    <3>. QED
      BY <2>1, <3>1, <3>2
  <2>6. Between(day, n + 1, d) = Between(day, n, a) + x
    <3> HIDE DEF a, d, x, n
    <3>. QED
      BY <1>8, <2>1, <2>3, <2>4, <2>5, OneMore
  <2>. QED
    BY <1>4, <1>7, <2>6
<1>11. Older' = Older
  <2> DEFINE a == RowCosts  d == RowCosts'
  <2>1. a \in Seq(Nat) /\ Len(a) = n /\ \A i \in 1 .. n : a[i] = log[i].cost
    BY CostSequences
  <2>2. d = [i \in 1 .. n + 1 |-> log'[i].cost]
    BY <1>4 DEF RowCosts
  <2>3. d[n + 1] = c /\ \A i \in 1 .. n : d[i] = a[i] /\ d[i] \in Nat
    <3> HIDE DEF a, d, n
    <3>. QED
      BY <1>4, <1>5, <2>1, <2>2
  <2>4. d \in [1 .. Len(a) + 1 -> Nat]
    <3>1. \A i \in 1 .. n + 1 : i \in 1 .. n \/ i = n + 1
      BY <1>5
    <3>2. d = [i \in 1 .. n + 1 |-> d[i]]
      <4> HIDE DEF d, n
      <4>. QED
        BY <2>2
    <3> HIDE DEF a, d, n
    <3>. QED
      BY <1>6, <2>1, <2>3, <3>1, <3>2
  <2>5. Between(month, day, d) = Between(month, day, a)
    <3> HIDE DEF a, d, n
    <3>. QED
      BY <1>6, <1>8, <2>1, <2>3, <2>4, OneMore
  <2>. QED
    BY <1>7, <2>5 DEF Older
<1>12. LedgerPhase(req[r]) = IF Downgraded(r) THEN "downgraded" ELSE "admitted"
  BY <1>2 DEF LedgerPhase, Downgraded
<1>13. LedgerPhase(req'[r]) = "out"
  BY <1>2 DEF LedgerPhase
<1>14. Full \in Nat /\ Cheap \in Nat
  BY SpendSplits
<1>15. /\ Full' = Full + IF Downgraded(r) = FALSE THEN c ELSE 0
       /\ Cheap' = Cheap + IF Downgraded(r) = TRUE THEN c ELSE 0
  BY <1>10 DEF Full, Cheap
<1>16. Downgraded(r) \in BOOLEAN
  BY DEF Downgraded
<1>17. CASE Downgraded(r)
  <2>1. Full' = Full /\ Cheap' = Cheap + c
    BY <1>14, <1>15, <1>17
  <2>. QED
    BY <1>11, <1>12, <1>13, <1>17, <2>1
<1>18. CASE ~Downgraded(r)
  <2>1. Full' = Full + c /\ Cheap' = Cheap
    BY <1>14, <1>15, <1>16, <1>18
  <2>. QED
    BY <1>11, <1>12, <1>13, <1>18, <2>1
<1>. QED
  BY <1>17, <1>18

(* What a row takes along when it becomes a day, or thirty days old.        *)
LEMMA OneLess ==
  ASSUME NEW a \in Seq(Nat), NEW k \in Nat, k < Len(a)
  PROVE  /\ a[k + 1] \in Nat
         /\ \A j \in k + 1 .. Len(a) :
               /\ Between(k + 1, j, a) = Between(k, j, a) - a[k + 1]
               /\ a[k + 1] <= Between(k, j, a)
         /\ \A i \in 0 .. k : Between(i, k + 1, a) = Between(i, k, a) + a[k + 1]
<1>1. Len(a) \in Nat /\ k + 1 \in 1 .. Len(a) /\ (k + 1) - 1 = k /\ k \in 0 .. Len(a)
  BY LenProperties
<1>2. a[k + 1] \in Nat
  BY <1>1, ElementOfSeq
<1>3. Totals(a)[k + 1] = Totals(a)[k] + a[k + 1]
  BY <1>1, TotalsOf
<1>4. \A n \in 0 .. Len(a) : Totals(a)[n] \in Nat
  BY TotalsOf
<1>5. ASSUME NEW j \in k + 1 .. Len(a)
      PROVE  /\ Between(k + 1, j, a) = Between(k, j, a) - a[k + 1]
             /\ a[k + 1] <= Between(k, j, a)
  <2>1. Totals(a)[k + 1] <= Totals(a)[j]
    <3>1. k + 1 \in 0 .. Len(a)
      BY <1>1
    <3>. QED
      BY <3>1, <1>5, TotalsGrow
  <2>2. Totals(a)[k] \in Nat /\ Totals(a)[j] \in Nat
    BY <1>1, <1>4, <1>5
  <2>. QED
    BY <1>2, <1>3, <2>1, <2>2 DEF Between
<1>6. ASSUME NEW i \in 0 .. k PROVE Between(i, k + 1, a) = Between(i, k, a) + a[k + 1]
  <2>1. Totals(a)[i] \in Nat /\ Totals(a)[k] \in Nat
    BY <1>1, <1>4, <1>6
  <2>. QED
    BY <1>2, <1>3, <2>1 DEF Between
<1>. QED
  BY <1>2, <1>5, <1>6

(* A row that becomes a day old is Ledger's AgeDay.                         *)
LEMMA DayAges ==
  ASSUME RowsOK, AgeDay
  PROVE  \E f \in 0 .. Full, c \in 0 .. Cheap :
            Full' = Full - f /\ Cheap' = Cheap - c /\ Older' = Older + f + c
<1> DEFINE a == CostsIf(FALSE)  b == CostsIf(TRUE)  c == RowCosts  n == Len(log)
<1>1. /\ a \in Seq(Nat) /\ b \in Seq(Nat) /\ c \in Seq(Nat) /\ n \in Nat
      /\ Len(a) = n /\ Len(b) = n /\ Len(c) = n
  BY CostSequences
<1>2. day \in Nat /\ day < n /\ month \in 0 .. day /\ n \in day + 1 .. n
  BY <1>1 DEF RowsOK, AgeDay
<1>3. a' = a /\ b' = b /\ c' = c /\ log' = log /\ month' = month /\ day' = day + 1
  BY DEF AgeDay, CostsIf, RowCosts, Downgraded
<1>4. Full' = Between(day + 1, n, a) /\ Cheap' = Between(day + 1, n, b)
      /\ Older' = Between(month, day + 1, c)
  BY <1>3 DEF Full, Cheap, Older
<1>5. Full = Between(day, n, a) /\ Cheap = Between(day, n, b) /\ Older = Between(month, day, c)
  BY DEF Full, Cheap, Older
<1>6. Full \in Nat /\ Cheap \in Nat /\ Older \in Nat
  BY SpendSplits
<1>7. c[day + 1] = a[day + 1] + b[day + 1]
  <2>1. day + 1 \in 1 .. Len(log)
    BY <1>2
  <2>2. /\ a[day + 1] = IF Downgraded(log[day + 1].req) = FALSE THEN log[day + 1].cost ELSE 0
        /\ b[day + 1] = IF Downgraded(log[day + 1].req) = TRUE THEN log[day + 1].cost ELSE 0
        /\ c[day + 1] = log[day + 1].cost /\ log[day + 1].cost \in Nat
    BY <2>1, CostSequences
  <2>3. Downgraded(log[day + 1].req) \in BOOLEAN
    BY DEF Downgraded
  <2> HIDE DEF a, b, c
  <2>. QED
    BY <2>2, <2>3
<1> HIDE DEF a, b, c, n
<1>8. /\ a[day + 1] \in Nat /\ Full' = Full - a[day + 1] /\ a[day + 1] <= Full
  BY <1>1, <1>2, <1>4, <1>5, OneLess
<1>9. b[day + 1] \in Nat /\ Cheap' = Cheap - b[day + 1] /\ b[day + 1] <= Cheap
  BY <1>1, <1>2, <1>4, <1>5, OneLess
<1>10. Older' = Older + c[day + 1]
  BY <1>1, <1>2, <1>4, <1>5, OneLess
<1>11. a[day + 1] \in 0 .. Full /\ b[day + 1] \in 0 .. Cheap
  BY <1>6, <1>8, <1>9
<1>12. Older' = Older + a[day + 1] + b[day + 1]
  BY <1>6, <1>7, <1>8, <1>9, <1>10
<1>. QED
  BY <1>8, <1>9, <1>11, <1>12

(* One that becomes thirty days old is Ledger's AgeMonth.                   *)
LEMMA MonthAges ==
  ASSUME RowsOK, AgeMonth
  PROVE  \E c \in 0 .. Older : Older' = Older - c /\ Full' = Full /\ Cheap' = Cheap
<1> DEFINE c == RowCosts
<1>1. c \in Seq(Nat) /\ Len(c) = Len(log) /\ Len(log) \in Nat
  BY CostSequences
<1>2. month \in Nat /\ month < Len(c) /\ day \in month + 1 .. Len(c)
  BY <1>1 DEF RowsOK, AgeMonth
<1>3. /\ c' = c /\ log' = log /\ day' = day /\ month' = month + 1
      /\ CostsIf(FALSE)' = CostsIf(FALSE) /\ CostsIf(TRUE)' = CostsIf(TRUE)
  BY DEF AgeMonth, CostsIf, RowCosts, Downgraded
<1>4. /\ Full' = Full /\ Cheap' = Cheap
      /\ Older' = Between(month + 1, day, c) /\ Older = Between(month, day, c)
  BY <1>3 DEF Full, Cheap, Older
<1>5. Older \in Nat
  BY SpendSplits
<1> HIDE DEF c
<1>6. c[month + 1] \in Nat /\ Older' = Older - c[month + 1] /\ c[month + 1] <= Older
  BY <1>1, <1>2, <1>4, OneLess
<1>7. c[month + 1] \in 0 .. Older
  BY <1>5, <1>6
<1>. QED
  BY <1>4, <1>6, <1>7

(* What a request does before its row is written, seen from the ledger.     *)
LEMMA PhaseFollows ==
  ASSUME NEW r \in Request, RequestsOK, CachesOK, RequestStep(r)
  PROVE  LET old == LedgerPhase(req[r])
             new == LedgerPhase(req'[r])
         IN  \/ old = "out" /\ new = IF WithinDay THEN "under" ELSE "over"
             \/ /\ old \in {"under", "over"}
                /\ new = IF old = "under" /\ WithinMonth THEN "admitted"
                         ELSE IF onExceeded = "reject" THEN "out" ELSE "downgraded"
             \/ new = "out"
             \/ new = old
<1>1. DOMAIN req = Request /\ ReqOK(req[r])
  BY DEF RequestsOK
<1>2. CASE ReadDaily(r)
  BY <1>1, <1>2, DayRead
<1>3. CASE Decide(r)
  BY <1>1, <1>3, Decided
<1>4. CASE CutsOff(r) \/ \E p \in Prompt, m \in Asked, s \in Streaming : Arrive(r, p, m, s)
  BY <1>1, <1>4, CutOffs, Arrival
<1>. QED
  BY <1>1, <1>2, <1>3, <1>4, Called, StreamOpened, ToldMore, Broken DEF RequestStep

(* Nothing of it changes what was spent.                                    *)
LEMMA SpendCarried ==
  ASSUME NEW r \in Request, RequestsOK, CachesOK, RowsOK, BooksOK, RequestStep(r)
  PROVE  UNCHANGED <<onExceeded, Full, Cheap, Older>>
<1>1. DOMAIN req = Request /\ \A s \in Request : s # r => req'[s] = req[s]
  BY OneMoves DEF RequestsOK
<1>2. Plain(req[r], req'[r]) /\ UNCHANGED <<onExceeded, log, day, month>>
  BY PlainStep
<1>3. Logged(r) => req'[r].route = req[r].route
  BY <1>2 DEF Plain, BooksOK
<1>. QED
  BY <1>1, <1>2, <1>3, SpendKept

(* Every step of the request path is one of Ledger's, or a stutter.         *)
LEMMA LedgerStep ==
  ASSUME IInv, Next
  PROVE  [L!Next]_(L!vars)
<1>0. RequestsOK /\ CachesOK /\ RowsOK /\ BooksOK /\ DOMAIN req = Request
  BY DEF IInv, RequestsOK
<1>1. ASSUME NEW r \in Request, RequestStep(r) PROVE [L!Next]_(L!vars)
  <2> DEFINE old == LedgerPhase(req[r])  new == LedgerPhase(req'[r])
  <2>1. UNCHANGED <<onExceeded, Full, Cheap, Older>>
    BY <1>0, <1>1, SpendCarried
  <2>2. Phases' = [Phases EXCEPT ![r] = new] /\ Phases[r] = old
    <3>1. \A s \in Request : s # r => req'[s] = req[s]
      BY <1>0, <1>1, OneMoves
    <3>. QED
      BY <3>1, OnePhase DEF Phases
  <2>3. CASE old = "out" /\ new = IF WithinDay THEN "under" ELSE "over"
    <3>1. WithinDay <=> L!WithinDay
      BY <1>0, SpendSplits DEF WithinDay, L!WithinDay, Full, Cheap
    <3>2. L!ReadDaily(r)
      BY <2>1, <2>2, <2>3, <3>1 DEF L!ReadDaily, Full, Cheap, Older, Phases
    <3>. QED
      BY <3>2 DEF L!Next
  <2>4. CASE /\ old \in {"under", "over"}
             /\ new = IF old = "under" /\ WithinMonth THEN "admitted"
                      ELSE IF onExceeded = "reject" THEN "out" ELSE "downgraded"
    <3>1. WithinMonth <=> L!WithinMonth
      BY <1>0, SpendSplits DEF WithinMonth, L!WithinMonth, Full, Cheap, Older
    <3>2. L!ReadMonthly(r)
      BY <2>1, <2>2, <2>4, <3>1 DEF L!ReadMonthly, L!Exceeded, Full, Cheap, Older, Phases
    <3>. QED
      BY <3>2 DEF L!Next
  <2>5. CASE new = "out" /\ old # "out"
    <3>1. L!Abandon(r)
      BY <2>1, <2>2, <2>5 DEF L!Abandon, Full, Cheap, Older, Phases
    <3>. QED
      BY <3>1 DEF L!Next
  <2>6. CASE new = old
    <3>1. Phases' = Phases
      BY <2>2, <2>6 DEF Phases
    <3>. QED
      BY <2>1, <3>1 DEF L!vars, Full, Cheap, Older, Phases
  <2>. QED
    BY <1>0, <1>1, <2>3, <2>4, <2>5, <2>6, PhaseFollows
<1>2. ASSUME NEW r \in Request, Commit(r) PROVE [L!Next]_(L!vars)
  <2>1. Phases' = [Phases EXCEPT ![r] = LedgerPhase(req'[r])] /\ Phases[r] = LedgerPhase(req[r])
    <3>1. \A s \in Request : s # r => req'[s] = req[s]
      BY <1>0, <1>2, OneMoves
    <3>. QED
      BY <3>1, OnePhase DEF Phases
  <2>2. onExceeded' = onExceeded
    BY <1>2 DEF Commit
  <2>3. PICK c \in 0 .. MaxPrice :
            /\ Older' = Older /\ LedgerPhase(req'[r]) = "out"
            /\ \/ /\ LedgerPhase(req[r]) = "admitted"
                  /\ Full' = Full + c /\ Cheap' = Cheap
               \/ /\ LedgerPhase(req[r]) = "downgraded"
                  /\ Cheap' = Cheap + c /\ Full' = Full
    BY <1>0, <1>2, Charged
  <2>4. L!Charge(r, c)
    BY <2>1, <2>2, <2>3 DEF L!Charge, Full, Cheap, Older, Phases
  <2>. QED
    BY <2>3, <2>4 DEF L!Next
<1>3. ASSUME NEW r \in Request, Record(r) \/ ReadSpend(r) \/ Reply(r)
      PROVE  [L!Next]_(L!vars)
  <2>1. \A s \in Request : s # r => req'[s] = req[s]
    BY <1>0, <1>3, OneMoves
  <2>2. /\ req[r].pc \in {"logged", "reading spend", "spend read"}
        /\ req'[r].pc \in {"ended", "reading spend", "spend read"}
        /\ req'[r].route = req[r].route
    BY <1>0, <1>3, Recorded, SpendRead, Replied DEF RequestsOK
  <2>3. UNCHANGED <<onExceeded, log, day, month>>
    BY <1>3 DEF Record, ReadSpend, Reply, ledger
  <2>4. UNCHANGED <<Full, Cheap, Older>>
    BY <1>0, <2>1, <2>2, <2>3, SpendKept
  <2>5. LedgerPhase(req'[r]) = "out" /\ LedgerPhase(req[r]) = "out"
    BY <2>2 DEF LedgerPhase
  <2>6. Phases' = Phases
    BY <2>1, <2>5, OnePhase DEF Phases
  <2>. QED
    BY <2>3, <2>4, <2>6 DEF L!vars, Full, Cheap, Older, Phases
<1>4. CASE AgeDay
  <2>1. onExceeded' = onExceeded /\ Phases' = Phases
    BY <1>4 DEF AgeDay, Phases
  <2>2. PICK f \in 0 .. Full, c \in 0 .. Cheap :
            Full' = Full - f /\ Cheap' = Cheap - c /\ Older' = Older + f + c
    BY <1>0, <1>4, DayAges
  <2>3. f <= Full /\ c <= Cheap
    BY <1>0, SpendSplits
  <2>4. L!AgeDay(f, c)
    BY <2>1, <2>2, <2>3 DEF L!AgeDay, Full, Cheap, Older, Phases
  <2>. QED
    BY <2>2, <2>4 DEF L!Next, Full, Cheap
<1>5. CASE AgeMonth
  <2>1. onExceeded' = onExceeded /\ Phases' = Phases
    BY <1>5 DEF AgeMonth, Phases
  <2>2. PICK c \in 0 .. Older : Older' = Older - c /\ Full' = Full /\ Cheap' = Cheap
    BY <1>0, <1>5, MonthAges
  <2>3. c <= Older
    BY <1>0, SpendSplits
  <2>4. L!AgeMonth(c)
    BY <2>1, <2>2, <2>3 DEF L!AgeMonth, Full, Cheap, Older, Phases
  <2>. QED
    BY <2>2, <2>4 DEF L!Next, Older
<1>6. CASE Restart
  <2>1. \A r \in Request : req'[r].pc \notin AtWork /\ req'[r].route = req[r].route
    BY <1>0, <1>6, Restarted
  <2>2. UNCHANGED <<onExceeded, log, day, month>>
    BY <1>6 DEF Restart, ledger
  <2>3. UNCHANGED <<Full, Cheap, Older>>
    BY <1>0, <2>1, <2>2, SpendKept
  <2>4. Phases' = [r \in Request |-> "out"]
    BY <2>1 DEF Phases, LedgerPhase, AtWork
  <2>5. L!Restart
    BY <2>2, <2>3, <2>4 DEF L!Restart, Full, Cheap, Older, Phases
  <2>. QED
    BY <2>5 DEF L!Next
<1>7. CASE UNCHANGED <<onExceeded, req, log, day, month>>
  <2>1. UNCHANGED <<Full, Cheap, Older>>
    BY <1>0, <1>7, SpendKept
  <2>2. Phases' = Phases
    BY <1>7 DEF Phases
  <2>. QED
    BY <1>7, <2>1, <2>2 DEF L!vars, Full, Cheap, Older, Phases
<1>. QED
  BY <1>0, <1>1, <1>2, <1>3, <1>4, <1>5, <1>6, <1>7, NextCases DEF Expire, ledger

(* Seen from the budget, every step of every handler is a step of           *)
(* Ledger.tla or changes nothing.                                           *)
THEOREM PathKeepsTheLedger == Spec => LedgerContract
<1>1. ASSUME Init PROVE L!Init
  <2>1. RowsOK /\ Len(log) = 0 /\ day = 0 /\ month = 0 /\ onExceeded \in Modes
    BY <1>1, Initially DEF IInv, Init
  <2>2. Full = 0 /\ Cheap = 0 /\ Older = 0
    <3>1. ASSUME NEW c \in Seq(Nat), Len(c) = 0 PROVE Between(0, 0, c) = 0
      <4>1. Totals(c)[0] = 0
        BY TotalsOf
      <4>. QED
        BY <4>1 DEF Between
    <3>. QED
      BY <2>1, <3>1, CostSequences DEF Full, Cheap, Older
  <2>3. Phases = [r \in Request |-> "out"]
    <3>1. \A r \in Request : req[r].pc = "idle"
      BY <1>1 DEF Init, NewRequest
    <3>. QED
      BY <3>1 DEF Phases, LedgerPhase
  <2>. QED
    BY <2>1, <2>2, <2>3 DEF L!Init, Full, Cheap, Older, Phases
<1>2. ASSUME IInv, [Next]_vars PROVE [L!Next]_(L!vars)
  <2>1. CASE UNCHANGED vars
    <3>1. UNCHANGED <<onExceeded, req, log, day, month>>
      BY <2>1 DEF vars
    <3>2. UNCHANGED <<Full, Cheap, Older>>
      BY <1>2, <3>1, SpendKept DEF IInv
    <3>3. Phases' = Phases
      BY <3>1 DEF Phases
    <3>. QED
      BY <3>1, <3>2, <3>3 DEF L!vars, Full, Cheap, Older, Phases
  <2>. QED
    BY <1>2, <2>1, LedgerStep
<1>. QED
  BY <1>1, <1>2, InvariantHolds, PTL DEF Spec, LedgerContract, L!Spec

(* Ledger as the request path keeps it, with what is proved of it.          *)
Budget == INSTANCE LedgerProofs WITH
              full <- Between(day, Len(log), CostsIf(FALSE)),
              cheap <- Between(day, Len(log), CostsIf(TRUE)),
              older <- Between(month, day, RowCosts),
              phase <- [r \in Request |-> LedgerPhase(req[r])],
              MaxCost <- MaxPrice

(* However many requests ever come: as long as at no moment more than K of  *)
(* them are between reading the spend and the end of their commit, the last *)
(* day's spend that was let through overshoots the daily budget by less     *)
(* than what K requests can cost, and in "reject" mode the thirty days'     *)
(* spend the monthly one (main.py: the handler, router.py: check_budget).   *)
THEOREM PathStaysInBudget ==
  ASSUME NEW K \in Nat, Budget!BudgetAssumption, Budget!ModesAssumption
  PROVE  Spec /\ []Budget!AtMost(K) => []Budget!WithinBudgets(K)
<1>1. Budget!MaxCostAssumption
  BY PriceAssumption DEF Budget!MaxCostAssumption
<1>2. Budget!Spec => []Budget!TypeOK /\ []Budget!CheapInv
  BY <1>1, Budget!TypeInvariant, Budget!NothingCheap, PTL
<1>3. Budget!AtMost(K) /\ Budget!Init => Budget!DailyInv(K) /\ Budget!MonthlyInv(K)
  BY <1>1, Budget!DailyInit, Budget!MonthlyInit
<1>4. /\ Budget!TypeOK /\ Budget!CheapInv /\ Budget!AtMost(K) /\ Budget!AtMost(K)'
      /\ [Budget!Next]_(Budget!vars) /\ Budget!DailyInv(K) /\ Budget!MonthlyInv(K)
      => Budget!DailyInv(K)' /\ Budget!MonthlyInv(K)'
  BY <1>1, Budget!DailyStep, Budget!MonthlyStep
<1>5. /\ Budget!TypeOK /\ Budget!AtMost(K) /\ Budget!DailyInv(K) /\ Budget!MonthlyInv(K)
      => Budget!WithinBudgets(K)
  BY <1>1, Budget!Implied
<1>6. L!Init => Budget!Init
  BY DEF L!Init, Budget!Init
<1>7. [L!Next]_(L!vars) => [Budget!Next]_(Budget!vars)
  BY DEF L!Next, L!vars, L!ReadDaily, L!ReadMonthly, L!Exceeded, L!WithinDay, L!WithinMonth,
         L!Charge, L!Abandon, L!AgeDay, L!AgeMonth, L!Restart,
         Budget!Next, Budget!vars, Budget!ReadDaily, Budget!ReadMonthly, Budget!Exceeded,
         Budget!WithinDay, Budget!WithinMonth, Budget!Charge, Budget!Abandon, Budget!AgeDay,
         Budget!AgeMonth, Budget!Restart
<1>8. L!Spec => Budget!Spec
  BY <1>6, <1>7, PTL DEF L!Spec, Budget!Spec
<1>. QED
  BY <1>2, <1>3, <1>4, <1>5, <1>8, PathKeepsTheLedger, PTL DEF LedgerContract, Budget!Spec
==============================================================================
