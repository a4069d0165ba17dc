-------------------------- MODULE AgentLoopProofs --------------------------
(***************************************************************************)
(* What the triage agent's report may say, for every graph, every exchange *)
(* with the language model and every answer of it.  The invariant says     *)
(* where the two histories come from: the messages are turns of kept calls *)
(* and their results, and the result is the validation of the answer that  *)
(* was given.  Each property is then a fact about the coercion, the tools  *)
(* and the validator.                                                      *)
(***************************************************************************)
EXTENDS AgentLoop, SequenceLemmas

-----------------------------------------------------------------------------
(* Numbered items and selections of them.                                  *)

LEMMA SelectedNumbers ==
    ASSUME NEW s, IsList(s), NEW P
    PROVE  LET t == Selected(s, P)
           IN /\ IsList(t)
              /\ \A k \in DOMAIN t : \E i \in P \cap DOMAIN s : t[k] = s[i]
              /\ Numbers(t) = {s[i].nr : i \in P \cap DOMAIN s}
              /\ Increasing(s) => Increasing(t)
<1> DEFINE t == Selected(s, P)
<1>1. DOMAIN s = 1..Len(s)
  BY ListProperties
<1>2. IsList(t) /\ \E place : Places(s, Len(s), P, t, place)
  BY SelectedOfList
<1>3. PICK place : Places(s, Len(s), P, t, place)
  BY <1>2
<1> HIDE DEF t
<1>5. \A k \in DOMAIN t : place[k] \in P \cap DOMAIN s /\ t[k] = s[place[k]]
  BY <1>1, <1>3 DEF Places
<1>6. \A i \in P \cap DOMAIN s : \E k \in DOMAIN t : place[k] = i
  BY <1>1, <1>3 DEF Places
<1>7. Numbers(t) = {s[i].nr : i \in P \cap DOMAIN s}
  <2>1. ASSUME NEW n \in Numbers(t) PROVE n \in {s[i].nr : i \in P \cap DOMAIN s}
    <3>1. PICK k \in DOMAIN t : n = t[k].nr
      BY <2>1 DEF Numbers
    <3> QED
      BY <1>5, <3>1
  <2>2. ASSUME NEW i \in P \cap DOMAIN s PROVE s[i].nr \in Numbers(t)
    <3>1. PICK k \in DOMAIN t : place[k] = i
      BY <1>6
    <3> QED
      BY <1>5, <3>1 DEF Numbers
  <2> QED
    BY <2>1, <2>2
<1>8. ASSUME Increasing(s) PROVE Increasing(t)
  <2> SUFFICES ASSUME NEW j \in DOMAIN t, NEW k \in DOMAIN t, j < k
               PROVE  t[j].nr < t[k].nr
    BY DEF Increasing
  <2>1. place[j] < place[k]
    BY <1>3 DEF Places
  <2> QED
    BY <1>5, <1>8, <2>1 DEF Increasing
<1> QED
  BY <1>2, <1>5, <1>7, <1>8 DEF t

LEMMA NumberedIsAList ==
    ASSUME NEW raws, IsList(raws)
    PROVE  /\ IsList(Numbered(raws))
           /\ DOMAIN Numbered(raws) = DOMAIN raws
           /\ Increasing(Numbered(raws))
<1>1. Len(raws) \in Nat /\ DOMAIN raws = 1..Len(raws)
  BY ListProperties
<1>2. DOMAIN Numbered(raws) = DOMAIN raws
      /\ \A i \in DOMAIN raws : Numbered(raws)[i] = [nr |-> i, raw |-> raws[i]]
  BY DEF Numbered
<1>3. IsList(Numbered(raws))
  <2>1. Numbered(raws) = [i \in 1..Len(raws) |-> Numbered(raws)[i]]
    BY <1>1 DEF Numbered
  <2> QED
    BY <1>1, <1>2, <2>1, IsASeq DEF IsList
<1>4. Increasing(Numbered(raws))
  BY <1>1, <1>2 DEF Increasing
<1> QED
  BY <1>2, <1>3, <1>4

LEMMA NumberedSelection ==
    ASSUME NEW raws, IsList(raws), NEW P, P \subseteq DOMAIN raws
    PROVE  LET t == Selected(Numbered(raws), P)
           IN /\ IsList(t) /\ Increasing(t) /\ Numbers(t) = P
              /\ \A k \in DOMAIN t : t[k] = [nr |-> t[k].nr, raw |-> raws[t[k].nr]]
<1> DEFINE n == Numbered(raws)
           t == Selected(n, P)
<1>1. IsList(n) /\ DOMAIN n = DOMAIN raws /\ Increasing(n)
  BY NumberedIsAList
<1>2. \A i \in DOMAIN raws : n[i] = [nr |-> i, raw |-> raws[i]]
  BY DEF Numbered
<1> HIDE DEF n
<1>3. /\ IsList(t) /\ Increasing(t)
      /\ Numbers(t) = {n[i].nr : i \in P \cap DOMAIN n}
      /\ \A k \in DOMAIN t : \E i \in P \cap DOMAIN n : t[k] = n[i]
  BY <1>1, SelectedNumbers
<1>4. \A i \in P : n[i].nr = i /\ i \in P \cap DOMAIN n
  BY <1>1, <1>2
<1>5. Numbers(t) = P
  <2>1. {n[i].nr : i \in P \cap DOMAIN n} = P
    BY <1>4
  <2> QED
    BY <1>3, <2>1
<1> HIDE DEF t
<1>6. ASSUME NEW k \in DOMAIN t PROVE t[k] = [nr |-> t[k].nr, raw |-> raws[t[k].nr]]
  <2>1. PICK i \in P : t[k] = n[i]
    BY <1>3
  <2>2. t[k] = [nr |-> i, raw |-> raws[i]]
    BY <1>2, <2>1
  <2>3. t[k].nr = i
    BY <2>2
  <2> QED
    BY <2>2, <2>3
<1> QED
  BY <1>3, <1>5, <1>6 DEF t, n

\* Neither the coercion nor the validation of an item changes its number.
LEMMA SameNumbers ==
    ASSUME NEW t, IsList(t), NEW u, u = [k \in DOMAIN t |-> u[k]],
           \A k \in DOMAIN t : u[k].nr = t[k].nr
    PROVE  /\ IsList(u) /\ DOMAIN u = DOMAIN t
           /\ Numbers(u) = Numbers(t)
           /\ Increasing(t) => Increasing(u)
<1>1. Len(t) \in Nat /\ DOMAIN t = 1..Len(t)
  BY ListProperties
<1>2. DOMAIN u = DOMAIN t
  OBVIOUS
<1>3. IsList(u)
  <2>1. u = [k \in 1..Len(t) |-> u[k]]
    BY <1>1
  <2>2. \A k \in 1..Len(t) : u[k] \in {u[j] : j \in DOMAIN u}
    BY <1>1, <1>2
  <2> QED
    BY <1>1, <2>1, <2>2, IsASeq DEF IsList
<1>4. Numbers(u) = Numbers(t)
  BY <1>2 DEF Numbers
<1>5. Increasing(t) => Increasing(u)
  BY <1>2 DEF Increasing
<1> QED
  BY <1>2, <1>3, <1>4, <1>5

\* The coercion reads off the findings whose claim and rationale are readable, and the
\* actions that are, each once, in order and under its number (llm.py:425-463).
LEMMA FindingsReadOff ==
    ASSUME NEW raws, IsList(raws)
    PROVE  LET F == ParsedFindings(raws)
           IN /\ IsList(F) /\ Increasing(F)
              /\ Numbers(F) = {i \in DOMAIN raws : ParsableFinding(raws[i])}
              /\ \A k \in DOMAIN F : F[k] = CoerceFinding([nr |-> F[k].nr, raw |-> raws[F[k].nr]])
<1> DEFINE P == {i \in DOMAIN raws : ParsableFinding(raws[i])}
           t == Selected(Numbered(raws), P)
           F == ParsedFindings(raws)
<1>1. P \subseteq DOMAIN raws
  OBVIOUS
<1>2. F = [k \in DOMAIN t |-> CoerceFinding(t[k])]
  BY DEF ParsedFindings
<1> HIDE DEF P
<1>3. /\ IsList(t) /\ Increasing(t) /\ Numbers(t) = P
      /\ \A k \in DOMAIN t : t[k] = [nr |-> t[k].nr, raw |-> raws[t[k].nr]]
  BY <1>1, NumberedSelection
<1> HIDE DEF t, F
<1>4. \A k \in DOMAIN t : F[k] = CoerceFinding(t[k]) /\ F[k].nr = t[k].nr
  BY <1>2 DEF CoerceFinding
<1>5. F = [k \in DOMAIN t |-> F[k]]
  BY <1>2
<1>6. IsList(F) /\ DOMAIN F = DOMAIN t /\ Numbers(F) = P /\ Increasing(F)
  BY <1>3, <1>4, <1>5, SameNumbers
<1>7. ASSUME NEW k \in DOMAIN F
      PROVE  F[k] = CoerceFinding([nr |-> F[k].nr, raw |-> raws[F[k].nr]])
  <2>1. F[k] = CoerceFinding(t[k]) /\ F[k].nr = t[k].nr
        /\ t[k] = [nr |-> t[k].nr, raw |-> raws[t[k].nr]]
    BY <1>3, <1>4, <1>6
  <2> QED
    BY <2>1
<1> QED
  BY <1>6, <1>7 DEF P, F

LEMMA ActionsReadOff ==
    ASSUME NEW raws, IsList(raws)
    PROVE  LET A == ParsedActions(raws)
           IN /\ IsList(A) /\ Increasing(A)
              /\ Numbers(A) = {i \in DOMAIN raws : ParsableAction(raws[i])}
              /\ \A k \in DOMAIN A : A[k] = CoerceAction([nr |-> A[k].nr, raw |-> raws[A[k].nr]])
<1> DEFINE P == {i \in DOMAIN raws : ParsableAction(raws[i])}
           t == Selected(Numbered(raws), P)
           A == ParsedActions(raws)
<1>1. P \subseteq DOMAIN raws
  OBVIOUS
<1>2. A = [k \in DOMAIN t |-> CoerceAction(t[k])]
  BY DEF ParsedActions
<1> HIDE DEF P
<1>3. /\ IsList(t) /\ Increasing(t) /\ Numbers(t) = P
      /\ \A k \in DOMAIN t : t[k] = [nr |-> t[k].nr, raw |-> raws[t[k].nr]]
  BY <1>1, NumberedSelection
<1> HIDE DEF t, A
<1>4. \A k \in DOMAIN t : A[k] = CoerceAction(t[k]) /\ A[k].nr = t[k].nr
  BY <1>2 DEF CoerceAction
<1>5. A = [k \in DOMAIN t |-> A[k]]
  BY <1>2
<1>6. IsList(A) /\ DOMAIN A = DOMAIN t /\ Numbers(A) = P /\ Increasing(A)
  BY <1>3, <1>4, <1>5, SameNumbers
<1>7. ASSUME NEW k \in DOMAIN A
      PROVE  A[k] = CoerceAction([nr |-> A[k].nr, raw |-> raws[A[k].nr]])
  <2>1. A[k] = CoerceAction(t[k]) /\ A[k].nr = t[k].nr
        /\ t[k] = [nr |-> t[k].nr, raw |-> raws[t[k].nr]]
    BY <1>3, <1>4, <1>6
  <2> QED
    BY <2>1
<1> QED
  BY <1>6, <1>7 DEF P, A

-----------------------------------------------------------------------------
(* The validated answer.                                                   *)

Validated(text) ==
    ValidateAgentOutput(ParsedFindings(text.findings), ParsedActions(text.actions))

\* Where the findings of a report come from: what the coercion has read off, without the
\* items the validator rejects (validator.py:28-48).
LEMMA FindingsOfReport ==
    ASSUME NEW text, IsList(text.findings)
    PROVE  LET raws == text.findings
               v == Validated(text)
               coerced(i) == CoerceFinding([nr |-> i, raw |-> raws[i]])
               readable == {i \in DOMAIN raws : ParsableFinding(raws[i])}
           IN /\ Increasing(v.findings) /\ Increasing(v.rejected)
              /\ Numbers(v.findings) = {i \in readable : RejectionReasons(coerced(i)) = {}}
              /\ Numbers(v.rejected) = {i \in readable : RejectionReasons(coerced(i)) # {}}
<1> DEFINE raws == text.findings
           F == ParsedFindings(raws)
           coerced(i) == CoerceFinding([nr |-> i, raw |-> raws[i]])
           readable == {i \in DOMAIN raws : ParsableFinding(raws[i])}
           Good == {k \in DOMAIN F : RejectionReasons(F[k]) = {}}
           Bad == {k \in DOMAIN F : RejectionReasons(F[k]) # {}}
           v == Validated(text)
<1>1. v.findings = Selected(F, Good) /\ v.rejected = Selected(F, Bad)
  BY DEF Validated, ValidateAgentOutput, Rejected
<1>2. /\ IsList(F) /\ Increasing(F) /\ Numbers(F) = readable
      /\ \A k \in DOMAIN F : F[k] = coerced(F[k].nr)
  BY FindingsReadOff
<1> HIDE DEF F, coerced, readable
<1>3. \A i \in readable : \E k \in DOMAIN F : F[k].nr = i
  BY <1>2 DEF Numbers
<1>4. \A k \in DOMAIN F : F[k].nr \in readable
  BY <1>2 DEF Numbers
<1>5. {F[k].nr : k \in Good \cap DOMAIN F} = {i \in readable : RejectionReasons(coerced(i)) = {}}
  BY <1>2, <1>3, <1>4
<1>6. {F[k].nr : k \in Bad \cap DOMAIN F} = {i \in readable : RejectionReasons(coerced(i)) # {}}
  BY <1>2, <1>3, <1>4
<1> HIDE DEF Good, Bad
<1>7. Increasing(v.findings) /\ Numbers(v.findings) = {F[k].nr : k \in Good \cap DOMAIN F}
  BY <1>1, <1>2, SelectedNumbers
<1>8. Increasing(v.rejected) /\ Numbers(v.rejected) = {F[k].nr : k \in Bad \cap DOMAIN F}
  BY <1>1, <1>2, SelectedNumbers
<1> QED
  BY <1>5, <1>6, <1>7, <1>8 DEF coerced, readable

\* And where the actions come from: what the coercion has read off, without those that
\* break the username policy, each looked through by the validator.
LEMMA ActionsOfReport ==
    ASSUME NEW text, IsList(text.actions)
    PROVE  LET raws == text.actions
               A == Validated(text).actions
               coerced(i) == CoerceAction([nr |-> i, raw |-> raws[i]])
               readable == {i \in DOMAIN raws : ParsableAction(raws[i])}
           IN /\ Increasing(A)
              /\ Numbers(A) = {i \in readable : ~ViolatesUsernamePolicy(coerced(i))}
              /\ \A k \in DOMAIN A : A[k] = ValidatedAction(coerced(A[k].nr))
<1> DEFINE raws == text.actions
           B == ParsedActions(raws)
           A == Validated(text).actions
           coerced(i) == CoerceAction([nr |-> i, raw |-> raws[i]])
           readable == {i \in DOMAIN raws : ParsableAction(raws[i])}
           Good == {k \in DOMAIN B : ~ViolatesUsernamePolicy(B[k])}
           t == Selected(B, Good)
<1>1. A = [k \in DOMAIN t |-> ValidatedAction(t[k])]
  BY DEF Validated, ValidateAgentOutput
<1>2. /\ IsList(B) /\ Increasing(B) /\ Numbers(B) = readable
      /\ \A k \in DOMAIN B : B[k] = coerced(B[k].nr)
  BY ActionsReadOff
<1> HIDE DEF A, B, coerced, readable
<1>3. \A i \in readable : \E k \in DOMAIN B : B[k].nr = i
  BY <1>2 DEF Numbers
<1>4. \A k \in DOMAIN B : B[k].nr \in readable
  BY <1>2 DEF Numbers
<1>5. {B[k].nr : k \in Good \cap DOMAIN B} = {i \in readable : ~ViolatesUsernamePolicy(coerced(i))}
  BY <1>2, <1>3, <1>4
<1> HIDE DEF Good
<1>6. /\ IsList(t) /\ Increasing(t)
      /\ Numbers(t) = {B[k].nr : k \in Good \cap DOMAIN B}
      /\ \A k \in DOMAIN t : \E i \in Good \cap DOMAIN B : t[k] = B[i]
  BY <1>2, SelectedNumbers
<1> HIDE DEF t
<1>7. \A k \in DOMAIN t : t[k] = coerced(t[k].nr)
  BY <1>2, <1>6
<1>8. A = [k \in DOMAIN t |-> A[k]] /\ \A k \in DOMAIN t : A[k] = ValidatedAction(t[k])
  BY <1>1
<1>9. \A k \in DOMAIN t : A[k].nr = t[k].nr
  BY <1>8 DEF ValidatedAction
<1>10. DOMAIN A = DOMAIN t /\ Numbers(A) = Numbers(t) /\ Increasing(A)
  BY <1>6, <1>8, <1>9, SameNumbers
<1>11. \A k \in DOMAIN A : A[k] = ValidatedAction(coerced(A[k].nr))
  BY <1>7, <1>8, <1>9, <1>10
<1> QED
  BY <1>5, <1>6, <1>10, <1>11 DEF A, coerced, readable

-----------------------------------------------------------------------------
(* The invariant.                                                          *)

Asked(raws) == [role |-> "assistant", calls |-> KeptCalls(raws)]
Answered(raws) == [role |-> "tool", results |-> ToolResults(KeptCalls(raws))]

Message == {Asked(raws) : raws \in CallLists} \cup {Answered(raws) : raws \in CallLists}

\* The exchange is turns of two messages, the calls kept of what the model asked for and
\* what came of them.
Exchange ==
    /\ messages \in Seq(Message)
    /\ \A t \in 1..turn : \E raws \in CallLists :
          messages[2 * t - 1] = Asked(raws) /\ messages[2 * t] = Answered(raws)

\* The result is the validation of the answer given, and of no other.
ResultOfAnswer ==
    IF answer = None THEN result = NoResult
    ELSE answer \in Texts \ {Junk} /\ result = Validated(answer)

AgentInv == TypeOK /\ Exchange /\ ResultOfAnswer

LEMMA InitAgent == Init => AgentInv
<1> SUFFICES ASSUME Init PROVE AgentInv
  OBVIOUS
<1>1. TypeOK
  <2>1. DOMAIN NoResult = {"findings", "rejected", "actions"}
    BY DEF NoResult, ValidateAgentOutput
  <2> QED
    BY <2>1, AgentAssumption DEF Init, TypeOK
<1>2. Exchange
  BY DEF Init, Exchange
<1>3. ResultOfAnswer
  BY DEF Init, ResultOfAnswer
<1> QED
  BY <1>1, <1>2, <1>3 DEF AgentInv

LEMMA UseToolsAgent ==
    ASSUME AgentInv, NEW raws \in CallLists, UseTools(raws)
    PROVE  AgentInv'
<1> USE DEF AgentInv, UseTools
<1> DEFINE a == Asked(raws)
           b == Answered(raws)
           two == <<a, b>>
<1>1. messages \in Seq(Message) /\ Len(messages) = 2 * turn /\ turn \in Nat
  BY AgentAssumption DEF TypeOK, Exchange
<1>2. messages' = messages \o two
  BY DEF Asked, Answered
<1>3. a \in Message /\ b \in Message
  BY DEF Message
<1> HIDE DEF a, b
<1>4. two \in Seq(Message) /\ Len(two) = 2 /\ two[1] = a /\ two[2] = b
  BY <1>3
<1> HIDE DEF two
<1>5. /\ messages' \in Seq(Message)
      /\ Len(messages') = 2 * turn + 2
      /\ \A i \in 1..(2 * turn) : messages'[i] = messages[i]
      /\ messages'[2 * turn + 1] = a
      /\ messages'[2 * turn + 2] = b
  <2>1. /\ messages' \in Seq(Message)
        /\ Len(messages') = Len(messages) + Len(two)
        /\ \A i \in 1..(Len(messages) + Len(two)) :
              messages'[i] = IF i <= Len(messages) THEN messages[i] ELSE two[i - Len(messages)]
    BY <1>1, <1>2, <1>4, ConcatProperties
  <2>2. Len(messages') = 2 * turn + 2
    BY <1>1, <1>4, <2>1
  <2>3. \A i \in 1..(2 * turn + 2) :
           messages'[i] = IF i <= 2 * turn THEN messages[i] ELSE two[i - 2 * turn]
    BY <1>1, <1>4, <2>1
  <2>4. messages'[2 * turn + 1] = two[1] /\ messages'[2 * turn + 2] = two[2]
    BY <1>1, <2>3
  <2> QED
    BY <1>1, <1>4, <2>1, <2>2, <2>3, <2>4
<1>6. turn' = turn + 1
  OBVIOUS
<1>7. TypeOK'
  <2>1. Len(messages') = 2 * turn'
    BY <1>1, <1>5, <1>6
  <2>2. turn' \in 0..(MaxToolIterations + 1) /\ (status' = "asking" => turn' <= MaxToolIterations)
    BY <1>1, <1>6, AgentAssumption DEF TypeOK, OutOfTurns
  <2> QED
    BY <2>1, <2>2 DEF TypeOK
<1>8. Exchange'
  <2>1. ASSUME NEW t \in 1..turn'
        PROVE  \E list \in CallLists :
                  messages'[2 * t - 1] = Asked(list) /\ messages'[2 * t] = Answered(list)
    <3>1. CASE t = turn + 1
      <4>1. 2 * t - 1 = 2 * turn + 1 /\ 2 * t = 2 * turn + 2
        BY <1>1, <3>1
      <4> QED
        BY <1>5, <4>1 DEF a, b
    <3>2. CASE t # turn + 1
      <4>1. t \in 1..turn /\ 2 * t - 1 \in 1..(2 * turn) /\ 2 * t \in 1..(2 * turn)
        BY <1>1, <1>6, <3>2
      <4> QED
        BY <1>5, <4>1 DEF Exchange
    <3> QED
      BY <3>1, <3>2
  <2> QED
    BY <1>5, <2>1 DEF Exchange
<1>9. ResultOfAnswer'
  BY DEF ResultOfAnswer, NoResult
<1> QED
  BY <1>7, <1>8, <1>9

LEMMA ConcludeAgent ==
    ASSUME AgentInv, NEW raws \in CallLists, Conclude(raws)
    PROVE  AgentInv'
<1> USE DEF AgentInv, Conclude
<1>1. PICK text \in Texts :
         IF text = Junk THEN UNCHANGED <<answer, result>>
         ELSE answer' = text /\ result' = Validated(text)
  BY DEF Validated
<1>2. DOMAIN Validated(text) = {"findings", "rejected", "actions"}
  BY DEF Validated, ValidateAgentOutput
<1>3. TypeOK'
  BY <1>1, <1>2 DEF TypeOK
<1>4. Exchange'
  BY DEF Exchange
<1>5. ResultOfAnswer'
  BY <1>1, AgentAssumption DEF ResultOfAnswer, NoResult
<1> QED
  BY <1>3, <1>4, <1>5

LEMMA NextAgent == AgentInv /\ [Next]_vars => AgentInv'
<1> SUFFICES ASSUME AgentInv, [Next]_vars PROVE AgentInv'
  OBVIOUS
<1>1. ASSUME NEW raws \in CallLists, UseTools(raws) PROVE AgentInv'
  BY <1>1, UseToolsAgent
<1>2. ASSUME NEW raws \in CallLists, Conclude(raws) PROVE AgentInv'
  BY <1>2, ConcludeAgent
<1>3. CASE RequestFails
  BY <1>3 DEF RequestFails, AgentInv, TypeOK, Exchange, ResultOfAnswer, NoResult
<1>4. CASE Escape
  BY <1>4 DEF Escape, AgentInv, TypeOK, Exchange, ResultOfAnswer, NoResult
<1>5. CASE UNCHANGED vars
  BY <1>5 DEF vars, AgentInv, TypeOK, Exchange, ResultOfAnswer, NoResult
<1> QED
  BY <1>1, <1>2, <1>3, <1>4, <1>5 DEF Next, Ended

LEMMA AgentInvariant == Spec => []AgentInv
BY InitAgent, NextAgent, PTL DEF Spec

\* With no answer, or one that could not be read, the report is empty.
LEMMA NoResultIsEmpty ==
    /\ DOMAIN NoResult.findings = {}
    /\ DOMAIN NoResult.rejected = {}
    /\ DOMAIN NoResult.actions = {}
<1>1. DOMAIN <<>> = {}
  OBVIOUS
<1> QED
  BY <1>1, SelectedOfNone DEF NoResult, ValidateAgentOutput, Rejected

-----------------------------------------------------------------------------
(* The properties.                                                         *)

LEMMA GroundedFromAgent == AgentInv => ReportIsGrounded
<1> SUFFICES ASSUME AgentInv, NEW k \in DOMAIN result.findings
             PROVE  LET raw == answer.findings[result.findings[k].nr]
                    IN /\ raw.supporting_entity_ids \subseteq Entity \cup {Junk}
                       /\ raw.supporting_relationship_ids \subseteq Relationship \cup {Junk}
                       /\ \/ raw.entity_id \in Entity
                          \/ (raw.supporting_entity_ids \cup raw.supporting_relationship_ids) \ {Junk} # {}
                       /\ \A c \in raw.checks \ {Junk} :
                            c.entity \in Entity /\ Fact(c.entity, c.attribute) = c.expected
  BY DEF ReportIsGrounded
<1>1. answer \in Texts \ {Junk} /\ result = Validated(answer)
  BY NoResultIsEmpty DEF AgentInv, ResultOfAnswer
<1> DEFINE i == result.findings[k].nr
           raw == answer.findings[i]
           f == CoerceFinding([nr |-> i, raw |-> raw])
<1>2. RejectionReasons(f) = {}
  <2>1. i \in Numbers(result.findings)
    BY DEF Numbers
  <2>2. IsList(answer.findings)
    BY <1>1, AgentAssumption
  <2> QED
    BY <1>1, <2>1, <2>2, FindingsOfReport
<1> HIDE DEF i, raw
<1>3. /\ f.entities = SupportingIds(raw)
      /\ f.relationships = Strings(raw.supporting_relationship_ids)
      /\ f.checks = Checks(raw)
  BY DEF CoerceFinding
<1> HIDE DEF f
<1>4. /\ f.entities # {} \/ f.relationships # {}
      /\ f.entities \subseteq Entity
      /\ f.relationships \subseteq Relationship
      /\ \A c \in f.checks : CheckReasons(f, c) = {}
  BY <1>2 DEF RejectionReasons
<1>5. \A c \in f.checks : c.entity \in Entity /\ Fact(c.entity, c.attribute) = c.expected
  BY <1>4 DEF CheckReasons
<1>6. raw.supporting_entity_ids \subseteq Entity \cup {Junk}
  BY <1>3, <1>4 DEF SupportingIds, Strings
<1>7. raw.supporting_relationship_ids \subseteq Relationship \cup {Junk}
  BY <1>3, <1>4 DEF Strings
<1>8. raw.entity_id \in Entity
      \/ (raw.supporting_entity_ids \cup raw.supporting_relationship_ids) \ {Junk} # {}
  BY <1>3, <1>4 DEF SupportingIds, Strings
<1> QED
  BY <1>3, <1>5, <1>6, <1>7, <1>8 DEF Checks, raw, i

LEMMA AccountedFromAgent == AgentInv => AnswerAccountedFor
<1> SUFFICES ASSUME AgentInv, answer # None PROVE AnswerAccountedFor
  BY DEF AnswerAccountedFor
<1>1. answer \in Texts \ {Junk} /\ result = Validated(answer)
  BY DEF AgentInv, ResultOfAnswer
<1>2. IsList(answer.findings) /\ IsList(answer.actions)
  BY <1>1, AgentAssumption
<1> DEFINE readable == {i \in DOMAIN answer.findings : ParsableFinding(answer.findings[i])}
           doable == {i \in DOMAIN answer.actions : ParsableAction(answer.actions[i])}
           finding(i) == CoerceFinding([nr |-> i, raw |-> answer.findings[i]])
           action(i) == CoerceAction([nr |-> i, raw |-> answer.actions[i]])
<1>3. /\ Increasing(result.findings) /\ Increasing(result.rejected)
      /\ Numbers(result.findings) = {i \in readable : RejectionReasons(finding(i)) = {}}
      /\ Numbers(result.rejected) = {i \in readable : RejectionReasons(finding(i)) # {}}
  BY <1>1, <1>2, FindingsOfReport
<1>4. /\ Increasing(result.actions)
      /\ Numbers(result.actions) = {i \in doable : ~ViolatesUsernamePolicy(action(i))}
  BY <1>1, <1>2, ActionsOfReport
<1>5. \A i \in DOMAIN answer.actions :
         ViolatesUsernamePolicy(action(i)) <=> ViolatesUsernamePolicy(answer.actions[i])
  BY DEF ViolatesUsernamePolicy, CoerceAction
<1>6. \A i \in DOMAIN answer.actions :
         i \in Numbers(result.actions)
           <=> ParsableAction(answer.actions[i]) /\ ~ViolatesUsernamePolicy(answer.actions[i])
  BY <1>4, <1>5
<1> HIDE DEF finding
<1>7. /\ Numbers(result.findings) \cup Numbers(result.rejected) = readable
      /\ Numbers(result.findings) \cap Numbers(result.rejected) = {}
  BY <1>3
<1> QED
  BY <1>3, <1>4, <1>6, <1>7 DEF AnswerAccountedFor

LEMMA RequirementFromAgent == AgentInv => RequirementStatedOrInferred
<1> SUFFICES ASSUME AgentInv, NEW k \in DOMAIN result.actions
             PROVE  LET raw == answer.actions[result.actions[k].nr]
                        unstated == raw.authorization \in {"missing", "none", "n/a"}
                        active == raw.words \cap {"active", "lookup"} # {}
                        requirement == result.actions[k].action.authorization
                    IN raw.authorization # "false" =>
                        /\ ~unstated => requirement = raw.authorization
                        /\ unstated /\ active => requirement = "inferred"
                        /\ unstated /\ ~active => requirement = "missing"
  BY DEF RequirementStatedOrInferred
<1>1. answer \in Texts \ {Junk} /\ result = Validated(answer)
  BY NoResultIsEmpty DEF AgentInv, ResultOfAnswer
<1>2. IsList(answer.actions)
  BY <1>1, AgentAssumption
<1> DEFINE i == result.actions[k].nr
           raw == answer.actions[i]
           a == CoerceAction([nr |-> i, raw |-> raw])
           stated == AuthorizationValue(raw)
<1>3. result.actions[k] = ValidatedAction(a)
  BY <1>1, <1>2, ActionsOfReport
<1>4. /\ a = [nr |-> a.nr, words |-> a.words, target |-> a.target, targets |-> a.targets,
              authorization |-> a.authorization]
      /\ a.words = raw.words
      /\ a.authorization = IF stated = "missing" /\ RequiresAuthorization(raw.words)
                           THEN "inferred" ELSE stated
  BY DEF CoerceAction
<1>5. raw.authorization # "false" =>
        stated = IF raw.authorization \in {"missing", "none", "n/a"} THEN "missing" ELSE raw.authorization
  BY DEF AuthorizationValue
<1>6. NeedsAuthorization(raw.words) <=> raw.words \cap {"active", "lookup"} # {}
  BY DEF NeedsAuthorization, RequiresAuthorization
<1>7. RequiresAuthorization(raw.words) => NeedsAuthorization(raw.words)
  BY DEF NeedsAuthorization
<1> HIDE DEF a, i, stated
<1> DEFINE b == ValidatedAction(a).action
<1>8. b = [a EXCEPT !.authorization =
              IF @ = "missing" /\ NeedsAuthorization(a.words) THEN "inferred" ELSE @]
  BY DEF ValidatedAction
<1>9. b.authorization = IF a.authorization = "missing" /\ NeedsAuthorization(a.words)
                        THEN "inferred" ELSE a.authorization
  BY <1>4, <1>8
<1>10. result.actions[k].action.authorization =
         IF stated = "missing" /\ NeedsAuthorization(raw.words) THEN "inferred" ELSE stated
  BY <1>3, <1>4, <1>7, <1>9
<1> QED
  BY <1>5, <1>6, <1>10 DEF i

LEMMA UnwarnedFromAgent == AgentInv => UnwarnedActionsAreReal
<1> SUFFICES ASSUME AgentInv, NEW k \in DOMAIN result.actions, ~result.actions[k].warned
             PROVE  LET raw == answer.actions[result.actions[k].nr]
                        named == Strings(raw.target_entity_ids) \cup raw.mentioned \cup raw.ids_elsewhere
                    IN /\ named \subseteq Entity
                       /\ \/ named # {}
                          \/ raw.target \in {NameOf[e] : e \in Entity} \cup Entity
  BY DEF UnwarnedActionsAreReal
<1>1. answer \in Texts \ {Junk} /\ result = Validated(answer)
  BY NoResultIsEmpty DEF AgentInv, ResultOfAnswer
<1>2. IsList(answer.actions)
  BY <1>1, AgentAssumption
<1> DEFINE i == result.actions[k].nr
           raw == answer.actions[i]
           named == Strings(raw.target_entity_ids) \cup raw.mentioned \cup raw.ids_elsewhere
           a == CoerceAction([nr |-> i, raw |-> raw])
<1>3. result.actions[k] = ValidatedAction(a)
  BY <1>1, <1>2, ActionsOfReport
<1> HIDE DEF i
<1>4. ~Warned(a)
  BY <1>3 DEF ValidatedAction
<1>5. a.targets = named /\ a.target = Target(raw)
  BY DEF CoerceAction, TargetEntityIds
<1> HIDE DEF a
<1>6. CASE named # {}
  <2>1. named \subseteq Entity
    BY <1>4, <1>5, <1>6 DEF Warned
  <2> QED
    BY <1>6, <2>1 DEF i
<1>7. CASE named = {}
  <2>1. a.target = raw.target
    BY <1>5, <1>7 DEF Target
  <2>2. raw.target \in {NameOf[e] : e \in Entity} \cup Entity
    BY <1>4, <1>5, <1>7, <2>1 DEF Warned
  <2> QED
    BY <1>7, <2>2 DEF i
<1> QED
  BY <1>6, <1>7

\* All a tool can show: entities and relationships of the graph, as they are.
Showable == {ShownEntity(e) : e \in Entity} \cup {ShownRelationship(r) : r \in Relationship}

LEMMA ToolsShowTheGraph == \A call : ExecuteTool(call).shown \subseteq Showable
<1>1. \A id : Get(id) \subseteq Showable
  BY DEF Get, Showable
<1>2. \A id, type, direction : Neighbors(id, type, direction) \subseteq Showable
  BY DEF Neighbors, Showable
<1>3. \A type, query : SearchEntities(type, query).shown \subseteq Showable
  BY DEF SearchEntities, Showing, ToolFailed, Showable
<1>4. {ShownEntity(e) : e \in UnenrichedIps} \subseteq Showable
  BY DEF UnenrichedIps, Showable
<1> SUFFICES ASSUME NEW call PROVE ExecuteTool(call).shown \subseteq Showable
  OBVIOUS
<1>5. ExecuteTool(call).shown \in
        {{}, Get(call.arguments.entity_id), {ShownEntity(e) : e \in UnenrichedIps},
         SearchEntities(call.arguments.entity_type, call.arguments.query).shown,
         Neighbors(call.arguments.entity_id, call.arguments.rel_type, call.arguments.direction)}
  <2>1. \A items : Showing(items).shown = items
    BY DEF Showing
  <2>2. ToolFailed.shown = {}
    BY DEF ToolFailed
  <2> QED
    BY <2>1, <2>2 DEF ExecuteTool
<1> QED
  BY <1>1, <1>2, <1>3, <1>4, <1>5

LEMMA ShownIsShowable == AgentInv => Shown \subseteq Showable
<1> SUFFICES ASSUME AgentInv, NEW s \in Shown PROVE s \in Showable
  OBVIOUS
<1>1. PICK i \in DOMAIN messages :
         messages[i].role = "tool"
         /\ \E k \in DOMAIN messages[i].results : s \in messages[i].results[k].result.shown
  BY DEF Shown
<1>2. messages[i] \in Message
  BY DEF AgentInv, Exchange
<1>3. PICK raws \in CallLists : messages[i] = Answered(raws)
  BY <1>1, <1>2 DEF Message, Asked
<1>4. messages[i].results = ToolResults(KeptCalls(raws))
  BY <1>3 DEF Answered
<1>5. PICK k \in DOMAIN ToolResults(KeptCalls(raws)) :
         s \in ToolResults(KeptCalls(raws))[k].result.shown
  BY <1>1, <1>4
<1>6. s \in ExecuteTool(KeptCalls(raws)[k]).shown
  BY <1>5 DEF ToolResults
<1> QED
  BY <1>6, ToolsShowTheGraph

LEMMA HonestFromAgent == AgentInv => HonestFindingsKept
<1> SUFFICES ASSUME AgentInv, answer # None, NEW i \in DOMAIN answer.findings,
                    Honest(answer.findings[i])
             PROVE  i \in Numbers(result.findings)
  BY DEF HonestFindingsKept
<1>1. answer \in Texts \ {Junk} /\ result = Validated(answer)
  BY DEF AgentInv, ResultOfAnswer
<1>2. IsList(answer.findings)
  BY <1>1, AgentAssumption
<1> DEFINE raw == answer.findings[i]
           f == CoerceFinding([nr |-> i, raw |-> raw])
<1> HIDE DEF raw
<1>3. /\ f.entities = CitedEntities(raw)
      /\ f.relationships = Strings(raw.supporting_relationship_ids)
      /\ f.checks = Checks(raw)
  BY DEF CoerceFinding, SupportingIds, CitedEntities
<1> HIDE DEF f
<1>4. Honest(raw)
  BY DEF raw
<1>5. /\ f.entities \cup f.relationships # {}
      /\ f.entities \subseteq Entity /\ f.relationships \subseteq Relationship
      /\ ParsableFinding(raw)
  BY <1>3, <1>4 DEF Honest
<1>6. ASSUME NEW c \in f.checks PROVE CheckReasons(f, c) = {}
  <2>1. PICK s \in Shown :
           s.id = c.entity /\ c.attribute \in DOMAIN s.facts /\ s.facts[c.attribute] = c.expected
    BY <1>3, <1>4 DEF Honest
  <2>2. c.entity \in f.entities /\ c.entity \in Entity
        /\ Json[Facts[c.entity][c.attribute]] = Facts[c.entity][c.attribute]
    BY <1>3, <1>4, <1>5 DEF Honest
  <2>3. s = ShownEntity(c.entity)
    <3>1. s \in Showable
      BY ShownIsShowable
    <3>2. \A r \in Relationship : s # ShownRelationship(r)
      BY <2>1, <2>2, AgentAssumption DEF ShownRelationship
    <3>3. PICK e \in Entity : s = ShownEntity(e)
      BY <3>1, <3>2 DEF Showable
    <3>4. s.id = e
      BY <3>3 DEF ShownEntity
    <3> QED
      BY <2>1, <3>3, <3>4
  <2>4. s.facts = [a \in DOMAIN Facts[c.entity] |-> Json[Facts[c.entity][a]]]
    BY <2>3 DEF ShownEntity
  <2>5. c.attribute \in DOMAIN Facts[c.entity] /\ Facts[c.entity][c.attribute] = c.expected
    BY <2>1, <2>2, <2>4
  <2> QED
    BY <2>2, <2>5 DEF CheckReasons, Fact
<1>7. RejectionReasons(f) = {}
  BY <1>5, <1>6 DEF RejectionReasons
<1> QED
  BY <1>1, <1>2, <1>5, <1>7, FindingsOfReport DEF f, raw

-----------------------------------------------------------------------------
(* The conversation as the two APIs get it.                                *)

LEMMA KeptCallsAreAList ==
    ASSUME NEW raws, IsList(raws)
    PROVE  \E n \in Nat : DOMAIN KeptCalls(raws) = 1..n
<1> DEFINE kept == Selected(raws,
                     {k \in DOMAIN raws : raws[k].name \in ToolName /\ raws[k].arguments # Junk})
<1>1. IsList(kept)
  BY SelectedNumbers
<1>2. DOMAIN KeptCalls(raws) = DOMAIN kept
  BY DEF KeptCalls
<1> HIDE DEF kept
<1> QED
  BY <1>1, <1>2, ListProperties

\* A turn is an assistant's message of some calls and a message of as many results, each
\* under the id of its call.
TurnOf(call, reply) ==
    /\ call.role = "assistant" /\ reply.role = "tool"
    /\ \E n \in Nat : DOMAIN call.calls = 1..n /\ DOMAIN reply.results = 1..n
    /\ \A k \in DOMAIN call.calls : reply.results[k].id = call.calls[k].id

LEMMA Turns == AgentInv => \A t \in 1..turn : TurnOf(messages[2 * t - 1], messages[2 * t])
<1> SUFFICES ASSUME AgentInv, NEW t \in 1..turn
             PROVE  TurnOf(messages[2 * t - 1], messages[2 * t])
  OBVIOUS
<1>1. PICK raws \in CallLists : messages[2 * t - 1] = Asked(raws) /\ messages[2 * t] = Answered(raws)
  BY DEF AgentInv, Exchange
<1>2. PICK n \in Nat : DOMAIN KeptCalls(raws) = 1..n
  BY KeptCallsAreAList, AgentAssumption
<1>3. DOMAIN ToolResults(KeptCalls(raws)) = DOMAIN KeptCalls(raws)
      /\ \A k \in DOMAIN KeptCalls(raws) : ToolResults(KeptCalls(raws))[k].id = KeptCalls(raws)[k].id
  BY DEF ToolResults
<1> QED
  BY <1>1, <1>2, <1>3 DEF TurnOf, Asked, Answered

LEMMA MessagesComeInTurns ==
    AgentInv => /\ turn \in Nat /\ Len(messages) = 2 * turn /\ DOMAIN messages = 1..(2 * turn)
                /\ \A i \in DOMAIN messages : \E t \in 1..turn : i = 2 * t - 1 \/ i = 2 * t
<1> SUFFICES ASSUME AgentInv
             PROVE  /\ turn \in Nat /\ Len(messages) = 2 * turn /\ DOMAIN messages = 1..(2 * turn)
                    /\ \A i \in DOMAIN messages : \E t \in 1..turn : i = 2 * t - 1 \/ i = 2 * t
  OBVIOUS
<1>1. turn \in Nat /\ Len(messages) = 2 * turn
  BY AgentAssumption DEF AgentInv, TypeOK
<1>2. DOMAIN messages = 1..(2 * turn)
  BY <1>1 DEF AgentInv, Exchange
<1>3. ASSUME NEW i \in 1..(2 * turn) PROVE \E t \in 1..turn : i = 2 * t - 1 \/ i = 2 * t
  <2> DEFINE t == (i + 1) \div 2
  <2>1. t \in 1..turn /\ (i = 2 * t - 1 \/ i = 2 * t)
    BY <1>1
  <2> HIDE DEF t
  <2> QED
    BY <2>1
<1> QED
  BY <1>1, <1>2, <1>3

LEMMA AnthropicAnswered ==
    ASSUME AgentInv, NEW i \in DOMAIN AnthropicMessages, AnthropicMessages[i].role = "assistant"
    PROVE  /\ i + 1 \in DOMAIN AnthropicMessages
           /\ AnthropicMessages[i + 1] = [AnthropicMessages[i] EXCEPT !.role = "user"]
<1> DEFINE Sent == AnthropicMessages
<1>1. DOMAIN Sent = DOMAIN messages
  BY DEF AnthropicMessages
<1>2. \A j \in DOMAIN messages :
         Sent[j] = IF messages[j].role = "tool"
                   THEN [role |-> "user",
                         ids |-> [k \in DOMAIN messages[j].results |-> messages[j].results[k].id]]
                   ELSE [role |-> "assistant",
                         ids |-> [k \in DOMAIN messages[j].calls |-> messages[j].calls[k].id]]
  BY DEF AnthropicMessages
<1>3. Sent[i].role = "assistant" /\ i \in DOMAIN Sent
  OBVIOUS
<1> HIDE DEF Sent
<1>4. PICK t \in 1..turn : i = 2 * t - 1 \/ i = 2 * t
  BY <1>1, <1>3, MessagesComeInTurns
<1>5. TurnOf(messages[2 * t - 1], messages[2 * t])
  BY Turns
<1>6. i = 2 * t - 1
  <2>1. CASE i = 2 * t
    <3>1. Sent[i].role = "user"
      BY <1>1, <1>2, <1>3, <1>5, <2>1 DEF TurnOf
    <3> QED
      BY <1>3, <3>1
  <2> QED
    BY <1>4, <2>1
<1>7. i + 1 = 2 * t /\ i + 1 \in DOMAIN messages
  BY <1>4, <1>6, MessagesComeInTurns
<1>8. Sent[i] = [role |-> "assistant", ids |-> [k \in DOMAIN messages[i].calls |-> messages[i].calls[k].id]]
  BY <1>1, <1>2, <1>3, <1>5, <1>6 DEF TurnOf
<1>9. Sent[i + 1] = [role |-> "user",
                     ids |-> [k \in DOMAIN messages[i + 1].results |-> messages[i + 1].results[k].id]]
  BY <1>2, <1>5, <1>7 DEF TurnOf
<1>10. [k \in DOMAIN messages[i].calls |-> messages[i].calls[k].id]
         = [k \in DOMAIN messages[i + 1].results |-> messages[i + 1].results[k].id]
  BY <1>5, <1>6, <1>7 DEF TurnOf
<1>11. Sent[i + 1] = [Sent[i] EXCEPT !.role = "user"]
  BY <1>8, <1>9, <1>10
<1> QED
  BY <1>1, <1>7, <1>11 DEF Sent

\* The function FlattenSeq takes the last value of.
Flattens(ss, f) ==
    f = [n \in 1..Len(ss) |-> IF n = 1 THEN ss[n] ELSE f[n - 1] \o ss[n]]

LEMMA FlattensExists == \A ss : Len(ss) \in Nat \ {0} => \E f : Flattens(ss, f)
<1> SUFFICES ASSUME NEW ss, Len(ss) \in Nat \ {0} PROVE \E f : Flattens(ss, f)
  OBVIOUS
<1> DEFINE Step(f, n) == IF n = 1 THEN ss[n] ELSE f[n - 1] \o ss[n]
           Good == {m \in Nat : \E f : f = [n \in 1..m |-> Step(f, n)]}
<1>1. 0 \in Good
  <2> DEFINE f == [n \in 1..0 |-> <<>>]
  <2>1. f = [n \in 1..0 |-> Step(f, n)]
    OBVIOUS
  <2> HIDE DEF f, Step
  <2> QED
    BY <2>1
<1>2. ASSUME NEW m \in Good PROVE m + 1 \in Good
  <2>1. PICK f : f = [n \in 1..m |-> Step(f, n)]
    OBVIOUS
  <2> DEFINE next == [n \in 1..(m + 1) |-> Step(f, n)]
  <2>2. \A n \in 1..m : next[n] = f[n]
    <3>1. \A n \in 1..m : n \in 1..(m + 1)
      OBVIOUS
    <3>2. \A n \in 1..m : f[n] = Step(f, n)
      BY <2>1
    <3>3. \A n \in 1..(m + 1) : next[n] = Step(f, n)
      OBVIOUS
    <3> HIDE DEF next, Step
    <3> QED
      BY <3>1, <3>2, <3>3
  <2>3. \A n \in 1..(m + 1) : Step(f, n) = Step(next, n)
    <3>1. \A n \in 1..(m + 1) : n # 1 => n - 1 \in 1..m
      OBVIOUS
    <3> HIDE DEF next
    <3> QED
      BY <2>2, <3>1
  <2>4. next = [n \in 1..(m + 1) |-> Step(next, n)]
    <3>1. next = [n \in 1..(m + 1) |-> Step(f, n)]
      OBVIOUS
    <3> HIDE DEF next, Step
    <3> QED
      BY <2>3, <3>1
  <2> HIDE DEF next, Step
  <2> QED
    BY <2>4
<1>3. Good = Nat
  <2>1. Good \in SUBSET Nat
    OBVIOUS
  <2> HIDE DEF Good
  <2> QED
    BY <1>1, <1>2, <2>1, NatInductionOnASet
<1>4. Len(ss) \in Good
  BY <1>3
<1> QED
  BY <1>4 DEF Flattens

LEMMA FlattenSeqFlattens ==
    ASSUME NEW ss, Len(ss) \in Nat \ {0}
    PROVE  \E f : /\ FlattenSeq(ss) = f[Len(ss)]
                  /\ f[1] = ss[1]
                  /\ \A n \in 2..Len(ss) : f[n] = f[n - 1] \o ss[n]
<1>1. PICK f : Flattens(ss, f) /\ FlattenSeq(ss) = f[Len(ss)]
  <2>1. FlattenSeq(ss) = (CHOOSE f : Flattens(ss, f))[Len(ss)]
    BY DEF FlattenSeq, Flattens
  <2> QED
    BY <2>1, FlattensExists
<1>2. \A n \in 1..Len(ss) : f[n] = IF n = 1 THEN ss[n] ELSE f[n - 1] \o ss[n]
  BY <1>1 DEF Flattens
<1>3. f[1] = ss[1] /\ \A n \in 2..Len(ss) : f[n] = f[n - 1] \o ss[n]
  <2>1. 1 \in 1..Len(ss)
    OBVIOUS
  <2>2. \A n \in 2..Len(ss) : n \in 1..Len(ss) /\ n # 1
    OBVIOUS
  <2> QED
    BY <1>2, <2>1, <2>2
<1> QED
  BY <1>1, <1>3

\* A conversation in which each turn of the assistant is answered call by call, and is
\* followed by the next one.
Complete(s) ==
    \A i \in 1..Len(s) : s[i].role = "assistant" =>
        /\ IsList(s[i].ids)
        /\ i + Len(s[i].ids) <= Len(s)
        /\ \A k \in 1..Len(s[i].ids) : s[i + k] = [role |-> "tool", ids |-> <<s[i].ids[k]>>]
        /\ i + Len(s[i].ids) + 1 <= Len(s) => s[i + Len(s[i].ids) + 1].role = "assistant"

LEMMA CompleteExtended ==
    ASSUME NEW L \in Nat, NEW n \in Nat, NEW s, Len(s) = L, Complete(s),
           NEW m, m.role = "assistant", IsList(m.ids), Len(m.ids) = n,
           NEW u, Len(u) = L + 1 + n,
           \A i \in 1..L : u[i] = s[i],
           u[L + 1] = m,
           \A k \in 1..n : u[L + 1 + k] = [role |-> "tool", ids |-> <<m.ids[k]>>]
    PROVE  Complete(u)
<1> SUFFICES ASSUME NEW i \in 1..Len(u), u[i].role = "assistant"
             PROVE  /\ IsList(u[i].ids)
                    /\ i + Len(u[i].ids) <= Len(u)
                    /\ \A k \in 1..Len(u[i].ids) : u[i + k] = [role |-> "tool", ids |-> <<u[i].ids[k]>>]
                    /\ i + Len(u[i].ids) + 1 <= Len(u) => u[i + Len(u[i].ids) + 1].role = "assistant"
  BY DEF Complete
<1>1. CASE i \in 1..L
  <2> DEFINE c == Len(s[i].ids)
  <2>1. u[i] = s[i] /\ s[i].role = "assistant"
    BY <1>1
  <2>2. /\ IsList(s[i].ids) /\ i + c <= L
        /\ \A k \in 1..c : s[i + k] = [role |-> "tool", ids |-> <<s[i].ids[k]>>]
        /\ i + c + 1 <= L => s[i + c + 1].role = "assistant"
    BY <1>1, <2>1 DEF Complete
  <2>3. c \in Nat
    BY <2>2, ListProperties
  <2> HIDE DEF c
  <2>4. \A k \in 1..c : i + k \in 1..L
    BY <1>1, <2>2, <2>3
  <2>5. \A k \in 1..c : u[i + k] = [role |-> "tool", ids |-> <<s[i].ids[k]>>]
    BY <2>2, <2>4
  <2>6. u[i + c + 1].role = "assistant"
    <3>1. CASE i + c + 1 <= L
      <4>1. i + c + 1 \in 1..L
        BY <1>1, <2>3, <3>1
      <4> DEFINE j == i + c + 1
      <4>2. u[j] = s[j]
        BY <4>1
      <4>3. s[j].role = "assistant"
        BY <2>2, <3>1
      <4> QED
        BY <4>2, <4>3
    <3>2. CASE ~(i + c + 1 <= L)
      <4>1. i + c + 1 = L + 1
        BY <1>1, <2>2, <2>3, <3>2
      <4> QED
        BY <4>1
    <3> QED
      BY <3>1, <3>2
  <2>7. i + c <= Len(u)
    BY <1>1, <2>2, <2>3
  <2> QED
    BY <2>1, <2>2, <2>5, <2>6, <2>7 DEF c
<1>2. CASE i = L + 1
  <2>1. u[i] = m /\ i + n = Len(u)
    BY <1>2
  <2>2. \A k \in 1..n : u[i + k] = [role |-> "tool", ids |-> <<m.ids[k]>>]
    BY <1>2
  <2>3. ~(i + n + 1 <= Len(u))
    BY <1>2
  <2> QED
    BY <2>1, <2>2, <2>3
<1>3. CASE i > L + 1
  <2> DEFINE k == i - (L + 1)
  <2>1. k \in 1..n /\ i = L + 1 + k
    BY <1>3
  <2> HIDE DEF k
  <2>2. u[i] = [role |-> "tool", ids |-> <<m.ids[k]>>]
    BY <2>1
  <2>3. u[i].role = "tool"
    BY <2>2
  <2> QED
    BY <2>3
<1> QED
  BY <1>1, <1>2, <1>3

LEMMA CompleteWithTurn ==
    ASSUME NEW M, NEW s \in Seq(M), Complete(s),
           NEW m \in M, m.role = "assistant", IsList(m.ids),
           NEW r \in Seq(M), Len(r) = Len(m.ids),
           \A k \in 1..Len(r) : r[k] = [role |-> "tool", ids |-> <<m.ids[k]>>]
    PROVE  (s \o <<m>>) \o r \in Seq(M) /\ Complete((s \o <<m>>) \o r)
<1> DEFINE one == <<m>>
           v == s \o one
           u == v \o r
           L == Len(s)
           n == Len(r)
<1>1. L \in Nat /\ n \in Nat
  OBVIOUS
<1>2. one \in Seq(M) /\ Len(one) = 1 /\ one[1] = m
  OBVIOUS
<1> HIDE DEF one
<1>3. v \in Seq(M) /\ Len(v) = L + 1
      /\ \A i \in 1..(L + 1) : v[i] = IF i <= L THEN s[i] ELSE one[i - L]
  <2>1. s \in Seq(M) /\ one \in Seq(M)
    BY <1>2
  <2>2. /\ s \o one \in Seq(M)
        /\ Len(s \o one) = Len(s) + Len(one)
        /\ \A i \in 1..(Len(s) + Len(one)) :
              (s \o one)[i] = IF i <= Len(s) THEN s[i] ELSE one[i - Len(s)]
    BY ONLY <2>1, ConcatProperties
  <2> QED
    BY <1>2, <2>2
<1> HIDE DEF v
<1>4. u \in Seq(M) /\ Len(u) = Len(v) + n
      /\ \A i \in 1..(Len(v) + n) : u[i] = IF i <= Len(v) THEN v[i] ELSE r[i - Len(v)]
  <2>1. v \in Seq(M) /\ r \in Seq(M)
    BY <1>3
  <2>2. /\ v \o r \in Seq(M)
        /\ Len(v \o r) = Len(v) + Len(r)
        /\ \A i \in 1..(Len(v) + Len(r)) :
              (v \o r)[i] = IF i <= Len(v) THEN v[i] ELSE r[i - Len(v)]
    BY ONLY <2>1, ConcatProperties
  <2> QED
    BY <2>2
<1> HIDE DEF u
<1>5. Len(s) = L /\ Len(m.ids) = n /\ \A k \in 1..n : r[k] = [role |-> "tool", ids |-> <<m.ids[k]>>]
  OBVIOUS
<1> HIDE DEF L, n
<1>6. Len(u) = L + 1 + n
  BY <1>3, <1>4
<1>7. \A i \in 1..L : u[i] = s[i]
  BY <1>1, <1>3, <1>4
<1>8. u[L + 1] = m
  BY <1>1, <1>2, <1>3, <1>4
<1>9. \A k \in 1..n : u[L + 1 + k] = r[k]
  <2> SUFFICES ASSUME NEW k \in 1..n PROVE u[L + 1 + k] = r[k]
    OBVIOUS
  <2>1. L + 1 + k \in 1..(L + 1 + n) /\ ~(L + 1 + k <= L + 1) /\ L + 1 + k - (L + 1) = k
    BY <1>1
  <2> QED
    BY <1>3, <1>4, <2>1
<1>10. Complete(u)
  <2>1. \A k \in 1..n : u[L + 1 + k] = [role |-> "tool", ids |-> <<m.ids[k]>>]
    BY <1>5, <1>9
  <2>2. Complete(s) /\ m.role = "assistant" /\ IsList(m.ids)
    OBVIOUS
  <2> QED
    BY ONLY <1>1, <1>5, <1>6, <1>7, <1>8, <2>1, <2>2, CompleteExtended
<1> QED
  BY <1>4, <1>10 DEF u, v, one

LEMMA OpenAiComplete ==
    ASSUME AgentInv, turn # 0
    PROVE  /\ Complete(OpenAiMessages)
           /\ Len(OpenAiMessages) \in Nat /\ DOMAIN OpenAiMessages = 1..Len(OpenAiMessages)
<1> DEFINE call(i) == [role |-> "assistant",
                       ids |-> [k \in DOMAIN messages[i].calls |-> messages[i].calls[k].id]]
           reply(i) == [k \in DOMAIN messages[i].results |->
                          [role |-> "tool", ids |-> <<messages[i].results[k].id>>]]
           parts == [i \in DOMAIN messages |->
                       IF messages[i].role = "tool" THEN reply(i) ELSE <<call(i)>>]
           M == {call(i) : i \in DOMAIN messages}
                  \cup UNION {{reply(i)[k] : k \in DOMAIN reply(i)} : i \in DOMAIN messages}
<1>1. turn \in Nat /\ Len(messages) = 2 * turn /\ DOMAIN messages = 1..(2 * turn)
  BY MessagesComeInTurns
<1>2. OpenAiMessages = FlattenSeq(parts)
  BY DEF OpenAiMessages
<1>3. Len(parts) = 2 * turn
  <2>1. DOMAIN parts = 1..(2 * turn) /\ parts = [i \in 1..(2 * turn) |-> parts[i]]
    BY <1>1
  <2> HIDE DEF parts
  <2> QED
    BY <1>1, <2>1, IsASeq
<1>4. PICK f : /\ FlattenSeq(parts) = f[Len(parts)]
               /\ f[1] = parts[1]
               /\ \A n \in 2..Len(parts) : f[n] = f[n - 1] \o parts[n]
  <2>1. Len(parts) \in Nat \ {0}
    BY <1>1, <1>3
  <2> HIDE DEF parts
  <2> QED
    BY ONLY <2>1, FlattenSeqFlattens
<1>5. ASSUME NEW t \in 1..turn
      PROVE  /\ parts[2 * t - 1] = <<call(2 * t - 1)>>
             /\ call(2 * t - 1) \in M /\ IsList(call(2 * t - 1).ids)
             /\ parts[2 * t] = reply(2 * t)
             /\ reply(2 * t) \in Seq(M) /\ Len(reply(2 * t)) = Len(call(2 * t - 1).ids)
             /\ \A k \in 1..Len(reply(2 * t)) :
                   reply(2 * t)[k] = [role |-> "tool", ids |-> <<call(2 * t - 1).ids[k]>>]
  <2> DEFINE i == 2 * t - 1
             j == 2 * t
  <2>1. i \in DOMAIN messages /\ j \in DOMAIN messages
    BY <1>1
  <2>2. TurnOf(messages[i], messages[j])
    BY Turns
  <2> HIDE DEF i, j
  <2>3. PICK n \in Nat : DOMAIN messages[i].calls = 1..n /\ DOMAIN messages[j].results = 1..n
    BY <2>2 DEF TurnOf
  <2>4. parts[i] = <<call(i)>> /\ parts[j] = reply(j)
    BY <2>1, <2>2 DEF TurnOf
  <2>5. call(i).ids = [k \in 1..n |-> messages[i].calls[k].id]
    BY <2>3
  <2>6. reply(j) = [k \in 1..n |-> [role |-> "tool", ids |-> <<messages[j].results[k].id>>]]
    BY <2>3
  <2>7. call(i) \in M /\ \A k \in DOMAIN reply(j) : reply(j)[k] \in M
    BY <2>1
  <2> DEFINE c == call(i).ids
             r == reply(j)
  <2>8. c = [k \in 1..n |-> c[k]] /\ r = [k \in 1..n |-> r[k]] /\ DOMAIN r = 1..n /\ DOMAIN c = 1..n
    BY <2>5, <2>6
  <2>9. \A k \in 1..n : r[k] = [role |-> "tool", ids |-> <<c[k]>>]
    BY <2>2, <2>3, <2>5, <2>6 DEF TurnOf
  <2>10. \A k \in 1..n : r[k] \in M
    BY <2>7, <2>8
  <2> HIDE DEF M, parts, call, reply, c, r
  <2>11. IsList(c) /\ Len(c) = n
    <3> DEFINE C == {c[q] : q \in DOMAIN c}
    <3>1. \A k \in 1..n : c[k] \in C
      BY <2>8
    <3> HIDE DEF C
    <3>2. c \in Seq(C) /\ Len(c) = n
      <4>1. [k \in 1..n |-> c[k]] \in Seq(C)
        BY <3>1, IsASeq
      <4> QED
        BY <2>8, <4>1
    <3> QED
      BY <3>2 DEF IsList, C
  <2>12. r \in Seq(M) /\ Len(r) = n
    <3>1. r \in Seq(M)
      BY <2>8, <2>10, IsASeq
    <3> QED
      BY <2>8, <3>1
  <2> QED
    BY <2>4, <2>7, <2>9, <2>11, <2>12 DEF c, r, i, j
<1> HIDE DEF M, parts, reply
<1> DEFINE Good == {t \in Nat : t + 1 <= turn =>
                      f[2 * (t + 1)] \in Seq(M) /\ Complete(f[2 * (t + 1)])}
<1>6. 0 \in Good
  <2> DEFINE none == <<>>
             m == call(1)
             r == reply(2)
  <2>1. 1 \in 1..turn /\ 2 * 1 - 1 = 1 /\ 2 * 1 = 2 /\ 2 \in 2..Len(parts) /\ 2 - 1 = 1
    BY <1>1, <1>3
  <2>2. /\ parts[1] = <<m>> /\ m \in M /\ IsList(m.ids)
        /\ parts[2] = r /\ r \in Seq(M) /\ Len(r) = Len(m.ids)
        /\ \A k \in 1..Len(r) : r[k] = [role |-> "tool", ids |-> <<m.ids[k]>>]
    <3> DEFINE i == 2 * 1 - 1
               j == 2 * 1
    <3>1. /\ parts[i] = <<call(i)>>
          /\ call(i) \in M /\ IsList(call(i).ids)
          /\ parts[j] = reply(j)
          /\ reply(j) \in Seq(M) /\ Len(reply(j)) = Len(call(i).ids)
          /\ \A k \in 1..Len(reply(j)) :
                reply(j)[k] = [role |-> "tool", ids |-> <<call(i).ids[k]>>]
      BY <1>5, <2>1
    <3>2. i = 1 /\ j = 2
      OBVIOUS
    <3> HIDE DEF i, j, call
    <3> QED
      BY <3>1, <3>2
  <2>3. f[2] = <<m>> \o r
    BY <1>4, <2>1, <2>2
  <2>4. none \in Seq(M) /\ Complete(none) /\ none \o <<m>> = <<m>>
    BY <2>2 DEF Complete
  <2>5. m.role = "assistant"
    OBVIOUS
  <2> HIDE DEF none, m, r
  <2>6. (none \o <<m>>) \o r \in Seq(M) /\ Complete((none \o <<m>>) \o r)
    BY <2>2, <2>4, <2>5, CompleteWithTurn
  <2>7. f[2] \in Seq(M) /\ Complete(f[2])
    BY <2>3, <2>4, <2>6
  <2> QED
    BY <2>7
<1>7. ASSUME NEW t \in Good PROVE t + 1 \in Good
  <2> SUFFICES ASSUME t + 2 <= turn
               PROVE  f[2 * (t + 2)] \in Seq(M) /\ Complete(f[2 * (t + 2)])
    OBVIOUS
  <2> DEFINE s == f[2 * (t + 1)]
             i == 2 * (t + 2) - 1
             j == 2 * (t + 2)
             m == call(i)
             r == reply(j)
  <2>1. t \in Nat /\ t + 2 \in 1..turn /\ i \in 2..Len(parts) /\ j \in 2..Len(parts)
        /\ i - 1 = 2 * (t + 1) /\ j - 1 = i
    BY <1>1, <1>3
  <2>2. s \in Seq(M) /\ Complete(s)
    BY <1>1, <2>1
  <2>3. /\ parts[i] = <<m>> /\ m \in M /\ IsList(m.ids)
        /\ parts[j] = r /\ r \in Seq(M) /\ Len(r) = Len(m.ids)
        /\ \A k \in 1..Len(r) : r[k] = [role |-> "tool", ids |-> <<m.ids[k]>>]
    BY <1>5, <2>1
  <2>4. f[i] = s \o <<m>> /\ f[j] = f[i] \o r
    <3>1. f[i] = f[i - 1] \o parts[i] /\ f[j] = f[j - 1] \o parts[j]
      BY <1>4, <2>1
    <3> HIDE DEF i, j, m, r
    <3> QED
      BY <2>1, <2>3, <3>1
  <2>5. m.role = "assistant"
    OBVIOUS
  <2> HIDE DEF s, i, m, r
  <2>6. (s \o <<m>>) \o r \in Seq(M) /\ Complete((s \o <<m>>) \o r)
    BY <2>2, <2>3, <2>5, CompleteWithTurn
  <2> QED
    BY <2>4, <2>6
<1>8. Good = Nat
  <2>1. Good \in SUBSET Nat
    OBVIOUS
  <2> HIDE DEF Good
  <2> QED
    BY <1>6, <1>7, <2>1, NatInductionOnASet
<1>9. Complete(f[2 * turn]) /\ f[2 * turn] \in Seq(M)
  <2>1. turn - 1 \in Nat /\ (turn - 1) + 1 = turn /\ turn <= turn
    BY <1>1
  <2> DEFINE t == turn - 1
  <2> HIDE DEF t
  <2>2. t \in Good
    BY <1>8, <2>1 DEF t
  <2>3. t + 1 = turn /\ t + 1 <= turn
    BY <2>1 DEF t
  <2>4. Complete(f[2 * (t + 1)]) /\ f[2 * (t + 1)] \in Seq(M)
    BY <2>2, <2>3
  <2> QED
    BY <2>3, <2>4
<1> QED
  <2>1. OpenAiMessages = f[2 * turn]
    BY <1>2, <1>3, <1>4
  <2>2. \A s \in Seq(M) : Len(s) \in Nat /\ DOMAIN s = 1..Len(s)
    OBVIOUS
  <2> QED
    BY <1>9, <2>1, <2>2

\* With no turn there is nothing to answer.
LEMMA NoTurnNoMessages == AgentInv /\ turn = 0 => DOMAIN OpenAiMessages = {}
<1> SUFFICES ASSUME AgentInv, turn = 0 PROVE DOMAIN OpenAiMessages = {}
  OBVIOUS
<1> DEFINE parts == [i \in DOMAIN messages |->
        IF messages[i].role = "tool"
        THEN [k \in DOMAIN messages[i].results |->
                [role |-> "tool", ids |-> <<messages[i].results[k].id>>]]
        ELSE <<[role |-> "assistant",
                ids |-> [k \in DOMAIN messages[i].calls |-> messages[i].calls[k].id]]>>]
<1>1. DOMAIN messages = {}
  BY MessagesComeInTurns
<1>2. DOMAIN parts = 1..0 /\ parts = [i \in 1..0 |-> parts[i]]
  BY <1>1
<1>3. OpenAiMessages = FlattenSeq(parts)
  BY DEF OpenAiMessages
<1> HIDE DEF parts
<1>4. Len(parts) = 0
  BY <1>2, IsASeq
<1>5. FlattenSeq(parts) = parts
  BY <1>4 DEF FlattenSeq
<1> QED
  BY <1>2, <1>3, <1>5

LEMMA OpenAiAnswered ==
    ASSUME AgentInv, NEW i \in DOMAIN OpenAiMessages, OpenAiMessages[i].role = "assistant"
    PROVE  LET m == OpenAiMessages[i]
           IN /\ \A k \in DOMAIN m.ids :
                   /\ i + k \in DOMAIN OpenAiMessages
                   /\ OpenAiMessages[i + k] = [role |-> "tool", ids |-> <<m.ids[k]>>]
              /\ i + Len(m.ids) + 1 \in DOMAIN OpenAiMessages =>
                      OpenAiMessages[i + Len(m.ids) + 1].role = "assistant"
<1> DEFINE Sent == OpenAiMessages
           ids == Sent[i].ids
<1>1. turn # 0 /\ Complete(Sent) /\ Len(Sent) \in Nat /\ DOMAIN Sent = 1..Len(Sent)
  BY NoTurnNoMessages, OpenAiComplete
<1>2. i \in DOMAIN Sent /\ Sent[i].role = "assistant"
  OBVIOUS
<1> HIDE DEF Sent
<1>3. /\ IsList(ids) /\ i + Len(ids) <= Len(Sent)
      /\ \A k \in 1..Len(ids) : Sent[i + k] = [role |-> "tool", ids |-> <<ids[k]>>]
      /\ i + Len(ids) + 1 <= Len(Sent) => Sent[i + Len(ids) + 1].role = "assistant"
  BY <1>1, <1>2 DEF Complete
<1>4. Len(ids) \in Nat /\ DOMAIN ids = 1..Len(ids)
  BY <1>3, ListProperties
<1> HIDE DEF ids
<1>5. i \in Nat
  BY <1>1, <1>2
<1>6. \A k \in DOMAIN ids : i + k \in DOMAIN Sent /\ Sent[i + k] = [role |-> "tool", ids |-> <<ids[k]>>]
  BY <1>1, <1>3, <1>4, <1>5
<1>7. i + Len(ids) + 1 \in DOMAIN Sent => Sent[i + Len(ids) + 1].role = "assistant"
  BY <1>1, <1>3
<1> QED
  BY <1>6, <1>7 DEF ids, Sent

LEMMA AnsweredFromAgent == AgentInv => EveryCallAnswered
BY AnthropicAnswered, OpenAiAnswered DEF EveryCallAnswered

-----------------------------------------------------------------------------
(* The theorems. *)

\* For any graph, exchange and answer, a run makes at most max_tool_iterations + 1
\* completions, each turn of tools adds its two messages, and an answer ends the run
\* (llm.py:106-140).
THEOREM LoopTyped == Spec => []TypeOK
<1>1. AgentInv => TypeOK
  BY DEF AgentInv
<1> QED
  BY AgentInvariant, <1>1, PTL

\* For any graph and any answer, however garbled, a finding of the report cites something,
\* cites nothing that is not in the graph, and no check of it contradicts the graph
\* (llm.py:466-504, validator.py:51-86).
THEOREM NothingMadeUp == Spec => []ReportIsGrounded
BY AgentInvariant, GroundedFromAgent, PTL

\* For any answer, each readable finding is once and in order in the body of the report or
\* in its appendix, and each readable action is recommended unless the username policy
\* forbids it (llm.py:425-463, validator.py:28-48).
THEOREM NothingDropped == Spec => []AnswerAccountedFor
BY AgentInvariant, AccountedFromAgent, PTL

\* For any graph and any exchange, a finding that cites and checks only what the tools have
\* shown of the graph, in the form they have shown it, is in the body of the report
\* (tools.py:57-124, validator.py:51-86).
THEOREM HonestyIsEnough == Spec => []HonestFindingsKept
BY AgentInvariant, HonestFromAgent, PTL

\* For any lists of calls, skipped, failing or without ids, and both APIs, every call in
\* the conversation is answered before the assistant's next turn, in the order of the calls
\* (llm.py:121-138,288-362).
THEOREM NoCallUnanswered == Spec => []EveryCallAnswered
BY AgentInvariant, AnsweredFromAgent, PTL

\* For any answer but a false, the requirement of a recommended action is the one the
\* model stated, unchanged; left open, it is inferred where the words are those of active
\* work, and nowhere else (llm.py:532-537, 638-646, validator.py:100-102).
THEOREM RequirementSettled == Spec => []RequirementStatedOrInferred
BY AgentInvariant, RequirementFromAgent, PTL

\* For any answer and graph, an action without a warning names entities of the graph only,
\* or has one of them, or the value of one, for its target (llm.py:522-527,
\* validator.py:89-98).
THEOREM NoFalseTargets == Spec => []UnwarnedActionsAreReal
BY AgentInvariant, UnwarnedFromAgent, PTL
=============================================================================
