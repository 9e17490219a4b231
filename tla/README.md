# Verification of the retail-bank voice IVR

This directory holds TLA+ models of the IVR in this repository, the TLC
configurations that check them on small instances, and proofs, checked by TLAPS,
of what must hold for every instance. Paths such as `auth/flow.py` are relative
to `src/ivr/` of the repository; `scripts/`, `config/` and `docs/` to its root.

## 1. The system

A caller speaks to a Twilio number. Twilio turns speech into text with a
confidence and posts it to a FastAPI service, which keeps one session per call.
The session's *coordinator* asks what the caller wants, its *authentication
flow* establishes who he is to the degree the request needs, and a *domain agent*
carries the request out. Bank, OTP gateway and banking tools are in-memory
dummies behind protocols, shared by all calls.

```
 Twilio -- webhooks --> telephony/app.py --- CallSession
                             |   |
           utterances,       |   |  spoken slots, yes/no
           factors           v   v
                 coordinator/flow.py  <---- result ---- agents/*
                             |                             |
                   one AuthFlow per gate                   v
                             v                     banking/banking_dummy.py
                       auth/flow.py
                        |         |
              auth/cbs_dummy.py   auth/otp_dummy.py      (shared by all calls)
```

### Inventory

| Component | State it keeps | Operations | What makes it correct |
|---|---|---|---|
| `auth/flow.py` | stage, required tier, customer, five retry counters, OTP reference | `start`, `submit_identification`, `submit_mpin`, `submit_otp`, `request_otp_resend` | a tier is granted only on the factors it needs, all confirmed for one unflagged customer; guesses are bounded; every flow ends |
| `auth/cbs_dummy.py` | per customer: count of wrong MPINs, lock | look-ups, flags, `validate_mpin` | the lock comes with exactly the threshold-th consecutive wrong guess and is final, over interleaved calls |
| `auth/otp_dummy.py` | per reference: number, code, time, consumed | `send_otp`, `validate_otp` | single use, expiry; a code goes to the customer's own number |
| `coordinator/flow.py` | caller, customer on record, achieved tier, current AuthFlow, pending intent, last prompt, two counters | `start`, `submit_utterance`, four factor passthroughs, `mark_task_completed`, `route_intent`, `escalate_from_agent` | handoff only at a tier earned in this call for this customer; no gate for a tier already granted; no call of a method that would raise |
| `agents/*` | stage, address, three counters; per call: number of submissions | `create`, `start`, `submit_input` | what is filed is what was read back and confirmed; at most three requests per session; every agent ends |
| `telephony/app.py`, `session_store.py` | per call: pending status, active agent, identification step, account digits | incoming, gather and status webhooks; `_render`, `_render_agent` | each answer goes to the object that waits for it and is taken for what was asked; halves of an identification belong together; no bouncing; a session of a call that is over knows nobody |
| `digit_normalizer.py`, `intent_classifier.py` | none | pure functions | the right digits, the right intent |
| LLM classifier, fallback, builder | none | one HTTP request; try/except | whatever the model answers, the result is an intent of the tier map or none |
| `global_commands.py`, `_parse_yes_no` | none | word matching | the CSR wins over other commands; half an answer decides nothing |
| `telephony/config.py`, signatures, TwiML | none that changes | formatting, environment | not modelled |
| `scripts/call_auth_cli.py` | local variables | `run_call`, `drive_agent` | handles every status it can meet |

What is hard here: two calls interleave on one lockout record; the status
callback and a repeated incoming webhook race answers already posted; five counters bound a flow, and two of
them are reset on the way; the achieved tier is a cached value that outlives
flows, agents and topic switches; the session's pending status is a second copy
of what the flow is waiting for; and identification takes two requests.
`PROJECT.json` lists these hazards with their lines and the properties aimed at
them. Nothing is persisted, so there is no crash recovery to model: a restart is
the initial state.

## 2. The modules

| Module | Models | Notes |
|---|---|---|
| `Parties`, `IntentCatalog`, `ServedCatalog` | calls, customers, tiers; intents and their tiers; that agents serve no intent of tier 0 | constants and their assumptions |
| `CoreBanking` | `auth/cbs_dummy.py` | digits are right or wrong; the lockout record is the state |
| `OtpGateway` | `auth/otp_dummy.py` | one entry per call: the one its flow still has a reference to |
| `AuthFlow` | `auth/flow.py` | one action per public method, plus `NotHeard` for a rejected confidence |
| `AuthPolicy` | nothing: the abstract specification | what a flow promises: gather factors for one subject, then grant the required tier on sufficient evidence, or refuse |
| `Coordinator` | `coordinator/flow.py` | extends `AuthFlow`; an utterance is a record of what the code asks of it |
| `CallBudget` | nothing new | `Coordinator` with a history variable that counts resends per call |
| `DomainAgents` | `agents/*`, the filing part of `banking/*` | `proposal` and `assented` are ghosts: what was read back, and what the caller said yes to |
| `Telephony` | `telephony/app.py`, `session_store.py` | composes `Coordinator` and `DomainAgents`, and Twilio's side of a call |
| `CallPolicy` | nothing: the abstract specification | what the service promises of a phone call: only a standing offer to a customer trusted enough is filed, once, while the session lasts |
| `CallCli` | `scripts/call_auth_cli.py` | a second driver of the same two |
| `SpokenInput` | `digit_normalizer.py`, the classifiers of `coordinator/`, the tests of `global_commands.py`, `_parse_yes_no` | pure functions over words, with reference definitions, and a recogniser that adds word after word |
| `AuthFlowProofs` | | theorems about `AuthFlow`: its safety; what a caller of it can use up |
| `AuthPolicyProofs` | | `AuthFlow` implements `AuthPolicy` |
| `CoordinatorProofs` | | theorems about `Coordinator`, and what was proved of a flow by itself, under it |
| `DomainAgentsProofs` | | theorems about `DomainAgents` |
| `TelephonyProofs` | | theorems about `Telephony`; that it drives the other two as they allow |
| `TelephonyPolicyProofs` | | `Telephony` implements `CallPolicy` |
| `SpokenInputProofs` | | theorems about `SpokenInput` |
| `CallCliProofs` | | theorems about `CallCli`; that it, too, drives the other two as they allow |
| `...MC` | | small constants for TLC |

**State and actions.** Per-object attributes are functions over `Calls`, with
the code's names in camel case (`stage`, `cif`, `tierAchieved`, `idStep`, ...).
A method runs inside one request handler without awaiting, so a method is one
action, with everything it calls: `SubmitMpin` includes the bank's verdict, the
lockout record and the dispatch of a code. In `Telephony` a handler is split into
dispatching the answer and one step per call of `_render` or `_render_agent`,
because the depth of that recursion is one of the things checked; `Quiet`
keeps other handlers out in between, because no handler awaits once its form is read
(`app.py:257-327`).

**Twilio and its faults.** `line` is where Twilio is with a call: waiting for the
answer to the incoming webhook (or to its repetition) or to a gather, listening, or
done; `inflight` is what it has posted and the service has not handled. What is
posted is handled in any order and as late as may be. `PostAgain` is a second
incoming webhook for the same CallSid (a retry, or a fallback URL), which replaces the
session whenever it is handled (`app.py:250`); the answer to a request Twilio no longer
waits for is lost on it. `CallEnds`, the caller hanging up or Twilio giving up,
may happen at any moment; the status callback it posts may be handled before what
was posted earlier, or never. CallSids are not used twice, so there is one
call per line and no redial. Nothing in the code retries or deduplicates, and
Twilio is not modelled to repeat a gather.

**Ghosts.** `vouched` (which factor the bank or gateway confirmed, and for
whom), `otpMisses`, `grants`, `proposal`, `assented`, `heardAt`, `asked` (the question
the caller was last played) and `resent` are read by properties and by each other
only, never by a guard. `vouched["otp"]` records the
customer only if the code went to his own number.

**Calls and sessions.** The limit on requests is kept by the registry of a session. In
`DomainAgents` a call has one session; in `Telephony` a repeated incoming webhook begins a
second one, whose limit, like the rest of its state, starts anew.

**Data.** Confidence is heard or not heard; digits are right, wrong, or those
of some customer; an address is one of a few plausible ones or none. A caller's
number is the customer it resolves to; `Reachable` keeps that to customers with a
registered number, the only ones `resolve_cif_by_mobile` can find.

## 3. The runs

| Run | Question | Bounds |
|---|---|---|
| `AuthFlow` | Is every tier earned, every challenge fitting, every turn paid for, and does the flow implement `AuthPolicy` and end? | one call starting flow after flow; the ceilings of the code (3, 3, 3, 2, 2, lock at 5); an ordinary customer, a flagged one, one without a number and locked |
| `AuthFlowTwoCalls` | Does the lock hold when two calls guess at one customer? | two calls, lock at 3, ceilings 2, 2, 1, 1, 0 |
| `Coordinator` | Is every handoff earned and reported for the right customer, does the gate work only for more than was granted, does it decide, does the question what the caller wants come to an end? | one call after another; an intent of each tier as in `tests/conftest.py`; two customers on one number, one of them flagged, and one more; a ceiling of 2 on no-matches, of 1 on all else, so that a question is repeated, too |
| `DomainAgents` | Is exactly what was confirmed filed, at most three times, does every answer cost the agent some patience, and does every agent end? | the code's limits (2 reprompts, 3 requests), two addresses, two customers, one intent of each kind |
| `Telephony` | Does every answer reach the object that waits for it and is it taken for what was asked, whatever is repeated, late or lost; does it all keep the promise of `CallPolicy`? | one call, its incoming webhook posted up to twice; two customers; an immediate intent and a service intent that needs a step-up; ceilings of 1 and 2, one request per call |
| `SpokenInput` | Do the normaliser and the keyword classifier agree with their definitions, is what the model answers always routable, do commands and half answers stand as a sentence grows? | every sentence of up to 5 of 13 words; three intents, and one that only the synonyms and the model know |

Why these bounds are enough: nothing in the code compares a count with anything
but its ceiling, so a ceiling of one or two already has the cases below, at and
beyond it; `AuthFlow` and `DomainAgents` use the real ones anyway. A flow meets
its customer's record only, so two customers and two calls contain every
interference; customers differ in having flags, a number, a lock, and the run
`AuthFlow` has each. The run `Coordinator` needs tiers that the shipped catalog does not
use: the code supports them, and step-up is where the cached tier matters.

Each property of a passing run has a mutant in `PROJECT.json`, a change of one
definition as a plausible bug would make it (kept beside the definition under
"Plausible bug"), that TLC finds to violate the property under the same
configuration.

**Deadlock** is checked in every run but the three of `Telephony`: elsewhere a finished
call can always be followed by another. A call of `Telephony` that is over, with
every request handled, really stops: its CallSid does not come back.

**Fairness.** `AuthFlow`, `Coordinator`, `DomainAgents`: weak fairness of the
caller's turn, because a gather that hears nothing is posted as well, as an
answer of confidence 0 (`_gather_response`). No kind of answer is fair, so the
caller may mumble, guess or ask for resends in any order for ever. In `Coordinator`
this holds of utterances too, with one limit: "repeat" leaves every variable as it was, so a
caller who says nothing else looks as if he did not speak, and
`IntentCaptureConcludes` says nothing of him. `Telephony`: weak
fairness of the post, of handling it and of rendering. Nothing is assumed of the
status callback (it need not be configured), of the incoming webhooks, of
hanging up, of expiry, or of new calls.

### Disagreements found

The other runs each check one claim of a document or comment that the code does
not keep; TLC shows a behaviour.

| Run | Claim | What the code does |
|---|---|---|
| `CoordinatorCsr` | `authentication-flow.md:213`: the customer is handed to the CSR if resolved | an escalation by the gate reports the coordinator's record: none, or an earlier one (`coordinator/flow.py:249`) |
| `EscalationWord` | `agent-architecture.md:106`: every agent checks for global commands first, every turn; `authentication-flow.md:208`: "agent" is valid at any state | the Service Agent takes it for an address or an unclear answer (`agents/service_agent.py:114`; `call-flow-diagram.md:81` admits it) |
| `CallBudget` | `authentication-flow.md:172`: 3 resends per call | 3 per authentication; each gate starts a new count |
| `OtpSuperseded` | `authentication-flow.md:174`: a code is invalidated by a newer one | only within a flow; a second call's code leaves the first valid (`auth/otp_dummy.py:43`) |
| `TelephonyLowConfidence` | `authentication-flow.md:185`: soft reprompts are capped | the account-number leg is repeated for ever (`telephony/app.py:299`) |
| `CallCli` | `call_auth_cli.py:65`: `~` simulates low confidence | at a factor prompt it makes `run_call` raise (`call_auth_cli.py:150`) |

The repository names one more disagreement itself, so no run shows it:
`agent-architecture.md:138-144` wants a step-up to ask for the missing factor only, while the code
asks for all of them again (`coordinator/flow.py:18-25`, `README.md:175-176`,
`tests/test_coordinator_flow.py:109`). The model does as the code does, and the run `Coordinator`
contains the step from tier 1 to tier 2; `ChallengedForMore` is about tiers, and does not
say that no factor is asked for twice.

The property of the run `EscalationWord` fails in the coordinator too, for a caller who
says "no, agent" after "anything else?": the call ends (`coordinator/flow.py:122`); the
run `EscalationWord` has one intent only, so that its shortest trace is the agent's.

Noted while modelling, and left at a note because they are a matter of
a number or of wording: `agent-architecture.md:92` and `authentication-flow.md:209`
say "beyond 2 reprompts", the code escalates at the second no-match and after the
second low confidence; `call-flow-diagram.md:16` counts both to two, `:31` counts
implausible addresses to two where the code escalates at the third;
`agent-architecture.md:158` calls the achieved tier the highest so far, but "start
over" clears it; the comment at `coordinator/flow.py:130` says the customer is
unaffected by "start over", yet the tier-0 route that may follow replaces him;
`authentication-flow.md:211` wants errors of bank and gateway to escalate, and no
code handles them.

## 4. The proofs

The runs check small instances; the theorems hold for every set of calls,
customers, intents and addresses, every table of numbers and flags, all ceilings,
thresholds and limits, and sentences of any length. Every safety invariant, every
action property and every refinement that a passing run checks is a theorem too.

### Assumptions

All are named and evaluated by TLC in every run of a module that extends theirs.

| Assumption | Says | Because |
|---|---|---|
| `PartiesAssumption` | `NoCif` is no customer | `None` is no identifier |
| `BankAssumption` | one number or none per customer; the lock threshold is positive | `auth/cbs_dummy.py` |
| `CeilingAssumption` | ceilings are naturals, those of attempts positive | the code counts an attempt before it compares, so a ceiling of 0 would act as one of 1 |
| `CatalogAssumption` | every intent has a tier | an unknown tier raises as the map is loaded (`auth/tier_config.py:33`) |
| `CaptureAssumption` | the ceilings of intent capture are naturals, that of no-matches positive | as above |
| `AgentAssumption` | every intent is immediate or a service request | `agents/registry.py` |
| `ServedAssumption` | no intent is of tier 0 | `config/intent_tier_map.yaml`; one of tier 0 is handed over without a customer, whom the agents need. Of the service and of the harness, which both have agents |
| `RenderAssumption` | the recursion limit is a natural | `telephony/app.py` |
| `WordAssumption` | a numeral has digits; phrases are of two words or more; the catalog is a sequence, and `None` none of its intents | the lists in the source |

### The authentication flow (`AuthFlowProofs`, `AuthPolicyProofs`)

- `TypeCorrect`, `TierIsEarned`, `ChallengeIsFitting`, `PromptIsMatched`,
  `LockIsAtThreshold`: `Spec => []P` for `TypeOK`, `EarnedTier`,
  `ChallengeFitsCustomer`, `PromptMatchesStage`, `LockAtThreshold`.
- `LockStays`: `Spec => LockIsFinal`, an action property.
- `OtpGuessesAreBounded`: `Spec => []OtpGuessBudget`.
- `EveryTurnIsCharged`: `Spec => EveryTurnSpends`, an action property.
- `FlowImplementsPolicy`: `Spec => ImplementsPolicy`.

`EarnedTier` is not inductive: it speaks only of a flow that has finished. What makes
it true is the path. `PathInvariant(c)` says, for each stage,
which factors must have been confirmed to get there (a flow awaiting the MPIN
after a code has an identity and a code confirmed for the same customer, and
its tier is 2; one awaiting a fallback code has the calling number and its
tier is 1; ...), that a flow in a secret-asking stage has an unflagged
customer, and that a code awaited went to his number. The last of these is also what
makes the unchecked resend (`auth/flow.py:214`) safe: an OTP stage is entered only by
a dispatch that found a number. The inductive invariant `IInv` is `TypeOK` with, for
every call, `PathInvariant`, `Earned` and `PromptMatches`.

The proof has a lemma for each shared ending (`Return`, `Ask`, `Escalate`,
`Authenticated`, `DispatchOtp`), one for each handler's types and one for
each handler's `CallInv`, and a frame lemma: a handler of one call leaves every other
call's conjunct alone (`Untouched`). `MoveInv` puts them together for one call and
`Invariance` closes the induction.

For the lock, `BankStep` shows that any step either leaves the bank alone and
confirms no MPIN, or judges exactly one MPIN of a customer; the two theorems
then look at `ValidateMpin` alone. That the flow asks only about a customer it has
settled on is where they need `IInv`.

The bound on wrong codes needs the counter that a resend resets. `BudgetInv` says that
an open flow has missed at most one allowance less one per resend, besides the attempts
now counted: a resend is only to be had before the allowance is spent. It is
one of two places where the proof needs multiplication (`BoughtGrows`); `CodeCosts` is the other.

`EveryTurnSpends` says that a turn, one that repeats the question included, lowers
`TurnsLeft`, a natural number: what the counters leave of each ceiling in the stages
still possible, a resend giving back a whole allowance of wrong codes. With the
code's ceilings a flow starts with 23 at most. That it is never negative is an invariant of its own,
`CeilingsInv`: an open flow is within every ceiling of the question it asks. `StageCosts`
and `CodeCosts` say what one more count takes off; a lemma per handler does the rest.

`FlowImplementsPolicy` first shows that the policy sees a step as a change of one call
alone (`SeenAsOneCall`), then that this change is one of the policy's actions, handler
by handler: evidence grows by a factor for one subject, a tier is granted on sufficient
evidence (`Earned`), or the flow is refused.

### The coordinator (`CoordinatorProofs`)

- `CoordinatorTypeCorrect`, `HandoffIsEarned`, `FlowIsThereWhenAsked`,
  `ChallengeIsForMore`: `CallSpec => []P` for `CoordinatorTypeOK`, `HandoffEarned`,
  `ActiveAuthMatches`, `ChallengedForMore`.
- `TierIsKept`: `CallSpec => TierSurvives`, an action property.
- `FlowIsSafeInCall`, `LockHoldsInCall`, `OtpGuessesAreBoundedInCall`,
  `EveryTurnIsChargedInCall`: what was proved of
  flows by themselves holds of flows that the coordinator starts, drops and replaces.

`CallSpec` is not `Spec` with more variables: its caller may go in the middle of a
flow. The flow's invariants carry over because every step of the
coordinator is a move of one flow, or of none (`CallMoves`), and `Move` includes a start
at any time. The inductive invariant `CallIInv` adds to `IInv` and the types, for every
call, `GateInv` (while the gate works, its flow is open and was started for the tier of
the pending intent, which the caller has not reached) and `GrantInv` (the tier and
customer on record are a grant, and no grant since the last start over is of a higher tier;
a handoff is a grant, at a tier sufficient for its
intent). `HandoffEarned` needs both: what the flow returns is trusted because it is the flow
started for this intent, and that follows from `GateInv` and from `EarnedTier`. So does
`ChallengedForMore`: the guard of `_route` compares with the tier now on record, and
only `GrantInv` says that nothing granted earlier was above it.
Each operation of the coordinator gets a lemma that it is `Done`.

### The agents (`DomainAgentsProofs`)

- `AgentsTypeCorrect`, `FiledIsConfirmed`, `RequestsAreLimited`, `AgentAsksWhenOpen`:
  `AgentsSpec => []P` for `AgentsTypeOK`, `OnlyConfirmedRequests`, `RequestLimit`,
  `InputIsExpected`.

What is filed is built from the agent's slots, not from the prompt, so the invariant
has to connect them: `SlotsInv` says that what an agent waiting for a yes would submit
(`Drafted`) is what was read back (`proposal`), and that an open agent has a customer.
`FiledInv` is what the two properties say of one call.

- `AnswersCost`: `AgentsSpec => EveryAnswerCosts`, an action property, and the safety half
  of why an agent ends.

Three handlers keep a count each, and the rejection of an address resets one of them. Their
sum alone does not show that an agent gets anywhere: giving an address raises no count.
`PatienceLeft` adds one for the address that has not been given yet, and every answer
that the agent goes on after then costs some of it, but for the rejection. `CountsInv`, that
no count of an open agent passes its limit, keeps it from going below zero. What is left
for TLC is that a caller who answers at all, by fairness, runs out of it.

### The service (`TelephonyProofs`, `TelephonyPolicyProofs`)

- `TelephonyTypeCorrect`, `EveryAnswerIsDispatched`, `PairsAreOfOneAttempt`,
  `AnswersAreForTheirQuestions`, `RenderingIsShallow`, `OrphansAreAnonymous`:
  `TelephonySpec => []P` for each invariant of the run `Telephony`.
- `CoordinatorIsDriven`, `AgentsAreDriven`: the refinements `DrivesCoordinator` and
  `DrivesAgents`, that is, `TelephonySpec` implements `CallSpec` and `AgentsSpec`.
- `ServiceIsSafe`: by these two, every theorem about flow, coordinator and agents holds of
  the service behind the webhooks, `EveryAnswerCosts` included.
- `ServiceKeepsPromise`: `TelephonySpec => ImplementsCallPolicy`.

The session keeps a second copy of what the coordinator asks for, and Twilio a third. None of the
properties is inductive without saying how the three belong together at every point
of a request. `TelephonyIInv` is `CallIInv`, `AgentsIInv`, the types, and for each call:

| Part | Says |
|---|---|
| `Follows`, `Named` | what the coordinator passes on is its flow's own answer; whoever is let through has a name |
| `HandlerInv` | a handler works only on a posted answer, in a session that is there; Twilio posts one answer at a time |
| `WaitInv` | between requests, either an open agent waits, or the coordinator for an utterance, or the flow for the factor that is pending (`Fits`) |
| `CoordinatorInv`, `ServingInv` | what may be rendered: no agent is at work when the coordinator's reply is; an agent serves customer and intent of the handoff |
| `PairInv` | account digits are kept only within the attempt they were heard in |
| `AskedInv` | an answer that is out is the one expected, but after a repeated incoming webhook |
| `DepthInv` | an agent reached by way of another is fresh and has not given up, so that it cannot hand over again |
| `OrphanInv` | a session that came after the end of its call knows nobody and can be given one utterance at most |

Each handler is shown to be `Stepped(c)`: it drives coordinator and agents as their
own specifications allow, for its call only (`Driven`), writes line and session of
its call only, and establishes `TelephonyInv(c)'`. The first two give the invariants
of the components and the frame for all other calls (`DrivenInv`,
`SameCallInv`); they also are the two refinements, for which nothing else is needed.

`ServiceKeepsPromise` has the form of `FlowImplementsPolicy`. The policy sees a step as a
change of one call; the change is then one of seven (`Allowed`), or nothing. That
an offer is made only to a customer trusted enough is `ServingInv` with `GrantInv`: the agent serves
the handoff, which is a grant. That trust cannot change while an offer stands is
`WaitInv`: while an agent waits, no answer goes to the coordinator.

### The terminal harness (`CallCliProofs`)

- `HarnessDrivesCoordinator`, `HarnessDrivesAgents`: `CliSpec` implements `CallSpec` and
  `AgentsSpec`, as `TelephonySpec` does, up to and including the step in which it raises.
- `HarnessIsSafe`: so what is proved of flow, coordinator and agents holds in it.
- `ServedAreGranted`: `CliSpec => []ServesGranted`. The agent in `drive_agent`'s loop
  serves a customer granted in this call, at a tier that suffices for the intent.
- `OnlyUnheardRaises`: `CliSpec => []RaisesOnlyUnheard`. The run `CallCli` shows that
  `run_call` raises; this says that it does so on nothing but the request to
  repeat of an open flow that did not hear a factor.

`ServesGranted` and `RaisesOnlyUnheard` belong to no run: they are defined where they are
proved.

The harness has no session: it acts on the coordinator's last reply. `ServingInv` says that
while an agent is driven this reply is still the handoff it was started for, and otherwise
that none is at work; an agent that gave up is reported before the call goes on.
`RaisedInv` keeps the reply on which the harness raised.
The lemmas about what each operation of the coordinator and of an agent replies
(`RouteReplies`, `FactorReplies`, `AnswerSays`, ...) and the frames for other calls (`CallFrame`,
`AgentFrame`) stand in the modules of the components and serve both drivers.

### Words (`SpokenInputProofs`)

- `CommandsAreKept`, `AnswersAreKept`: `SpokenSpec => P` for the action properties
  `CommandsStand` and `AnswersNeverFlip`, for any word lists.
- `DigitsAreFound`, `BestIsClassified`, `AnswersCanBeRouted`: `SpokenSpec => []P` for
  `DigitsAreOneStretch`, `ClassifiesTheBest`, `AnswersAreRoutable`, for any vocabulary,
  catalog and length of sentence.

One word more keeps what is held (`MoreWords`, `PhraseStays`, `ListsStay`), so commands
can only be added, and the cascade of `detect_global_command` then gives the same or an earlier one.

The other three are about loops. A loop is written as a recursive function of the number of
turns (`Scanned`, `BestRun`, `BestIntent`, `DigitsFrom`), and what it has done after `n` turns
needs induction over `n`, which the library's theorems offer only for an operator given as a
parameter. So it is stated with sets instead: `Induct` says that a set of numbers
that has 0 and with each number the next has them all (the least number left out would
contradict it, by `NatLessThanWellFounded`), `LoopRuns` that a function defined turn by
turn exists, and every loop gets a lemma on its turns (`ScannedTurns`, `BestRunIsBest`,
...) by putting "the invariant holds after `n` turns" for the set.
`BestIsClassified` is such an invariant of the loop over the catalog. For the digits, two
are needed: the runs closed so far are the digits of the stretches that
ended so far, in their order (`RunsAreStretches`), and the run chosen is the last of the longest
(`BestRunIsBest`). A stretch that has no word after it is closed by the end of the
sentence, the case the loop's last line is for; a sentence of numerals only is one stretch
and is taken by itself.

### Only model-checked

- Liveness: `EveryFlowConcludes`, `GateDecides`, `IntentCaptureConcludes`,
  `AgentConcludes`, `SecretsConclude`. It needs fairness and `ENABLED`, which the
  installed backends do not reason about. `EveryTurnIsCharged` and `AnswersCost` are the
  safety half of the argument for flows and agents: no turn is free, and a flow has
  finitely many.
- The claims of section 3 that do not hold, `HarnessSurvives` among them: each is refuted by
  a behaviour.

## 5. What is not modelled

- In `Coordinator`, `DomainAgents` and `Telephony` words are inputs: any intent, command,
  "no thanks" or yes and no, several at once where the code tests them in an
  order. What words give what is the subject of `SpokenInput`, with a small
  vocabulary instead of the shipped lists, and without punctuation: the digit
  normaliser and the keyword classifier strip it, the word tests and the
  comparison with "resend" do not.
- Failing bank or gateway clients: the repository's clients never raise, and
  nothing handles them. A handler that raises answers Twilio with an error.
- The time a handler takes. The request to the language model blocks the event
  loop, and with it every other call; here that is a request handled late.
- The store of sessions has no bound. A session whose call ends without a status callback
  stays in it; `OrphansKnowNobody` is about the calls whose callback came.
- The loading of the tier map (once, at start-up), `telephony/config.py`
  (environment variables read once), signatures (they refuse a request before
  anything changes), TwiML, prompts, logging, balances, ticket numbers.

## 6. Plan

Order by importance; all are done.

1. `CoreBanking`, `OtpGateway`, `AuthFlow` with `AuthPolicy`; the first theorems.
2. `Coordinator`, then `CallBudget`.
3. `DomainAgents`.
4. `Telephony`, composing them; the refinements to its parts.
5. `CallCli`, `SpokenInput`.
6. Repeated incoming webhooks, hang-ups and late callbacks in `Telephony`, with
   `CallPolicy` as what it promises; the catalog of the keyword classifier, the
   classifier that falls back and the word tests in `SpokenInput`.
7. The proofs, from the flow outwards: its budgets and its policy; the coordinator; the
   agents; the webhooks with the two refinements; the promise of the service; commands and
   half answers; the loops over words and catalog; what an answer costs an agent; the
   terminal harness as a second driver.

## 7. Running

    tlc -workers 2 -config AuthFlow.cfg AuthFlowMC
    for m in *Proofs.tla; do tlapm $m; done

`tlapm` takes a module's `EXTENDS` for granted; the loop checks every module that has
a theorem.

The `.cfg` of a run carries its name; `PROJECT.json` says which module it
belongs to, what is expected, and which source lines every definition models.
