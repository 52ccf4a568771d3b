# Verification of the ACN Standard

TLA+ models, TLC runs and TLAPS proofs for the reference implementation of the
Agent Commerce Network (ACN) standard: the Python package
`py/src/acn_standard`, the TypeScript SDK `npm/src/index.ts`, and the
conformance tools. Paths below are relative to the repository root, `py/`
files without a directory are those of `py/src/acn_standard`.

## 1. The system

ACN agents exchange signed commercial *envelopes* (a request for quote, a
quotation, an order, an invoice, ...) through a service, ACN Cloud, which is
not in this repository. The repository holds the libraries an agent uses.

| Component | Code | State it keeps | Operations | Correct when |
|---|---|---|---|---|
| Submission client | `sdk.py`, `index.ts` | loop variable, serialised body and last error of one call | `submit`, `submit_a2a`, `_post` | a call is one commercial action however often it is attempted; what it returns or raises is true |
| Delivery client | `sdk.py`, `index.ts` | none between calls; the caller keeps leases and proofs | `claim_deliveries`, `acknowledge_delivery`, `reject_delivery`, `delivery_proof` | a call takes effect once and is told the truth about it; the holder of a lease is served; no delivery is lost |
| Signing | `security.py`, `index.ts` | the signature in the envelope | `canonical_envelope`, `sign_envelope`, `parse_signature`, `verify_envelope_signature` | what is signed in either language verifies, and nothing else does |
| A2A binding | `a2a.py`, `sdk.py`, `index.ts` | none | `parse_a2a_message`, `a2a_result_message` | both bindings accept and report alike |
| Validation | `validation.py`, `extensions.py` | sets of seen references, running totals | `validate_envelope`, 22 document validators | what passes fits the schemas and has exact totals; what fails raises `ContractError`, but for listed cases |
| Wire model | `models.py` | the parsed envelope | `to_wire` | what was accepted is accepted again |
| JSON Schemas | `schemas/` | none | read by other programs | agree with the validator |
| Conformance runner | `cli.py` | the list of results | `validate`, `validate-a2a`, `verify`, `suite` | the exit code is true and a report is always printed |
| Agent Cards | `security.py:36-97` | the signatures in the card | `sign_agent_card`, `verify_agent_card_signature` | a card that was edited after signing does not pass |
| Live probe | `py/tools/live_conformance.py` | list of checks | `probe` | "conformant" is true, and a sound service fails for a named reason only |
| Release builder | `py/tools/build_release.py` | a stage, the archive and its checksum | `build` | what the checksum vouches for is whole, and is what was tested |
| SBOM, CI, package data | `py/tools/generate_sbom.py`, `.github`, `conformance/` | files | | not modelled |
| ACN Cloud | not here | idempotency ledger, delivery inbox, consumed nonces | the endpoints the SDKs call | external |

How they interact: an application builds an envelope (`build_envelope`), signs
it, and passes it to `submit` or `submit_a2a`; both serialise it and call the
retrying HTTP helper (`_post`, `post`). The service parses the A2A wrapper if
there is one, validates, verifies, looks the key `(sender, idempotencyKey)` up
in its ledger, and answers. The recipient's workers claim deliveries of its
inbox under a lease, and acknowledge or reject them with signed single-use
proofs, through the same helper. The command line validates files, the release
builder packs them. The probe asks a running service for its health, its Agent
Card and the keys that sign it.

What is hard:

* a request outlives the attempt that sent it. A timeout, a dropped connection
  or a gateway's 504 leaves it on its way, to be served before or after a
  later attempt, or after the call has ended;
* retries carry what was made before the loop (body, key, nonce) in Python,
  but write the body anew in TypeScript, from an object the caller may edit;
* the retry decision depends on the body of an error as well as its status;
* leases expire between a claim and an acknowledgement;
* canonical forms are written twice, and so are the shapes of documents (as
  schemas and as code);
* a validator meets values of types nobody wrote a fixture for;
* files change while a suite runs or a release is built, and a build may be
  killed over the archive of an earlier one;
* a key is rotated between the probe's two fetches, or around them.

## 2. Modules

```
PostPolicy ── Submission ── MCSubmission          IdempotentService
     │            └──── SubmissionProofs ── refines ──┘
     │                        └── LoopProofs
     └─────── Delivery ──── MCDelivery               LeasedInbox
                  └────── DeliveryProofs ── refines ──┘
Wire ─┬─ Validation ─┬─ A2A ───────┬─ Exchange ─┬─ MCExchange
      │              └─ CheckProofs│            └─ ExchangeProofs
      ├─ Security ── Canonical ────┘
      ├─ Schemas ─┬─ MCValidation (over Validation)
      └─ Models ──┘        └─ ValidationProofs
                    (both proof modules use CheckProofs)
AgentCard ── Probe ─┬─ MCProbe
                    └─ ProbeProofs
Suite ── Release ─┬─ MCRelease
                  └─ ReleaseProofs
```

**PostPolicy** is the table of `_post` (`sdk.py:107-142`) and `post`
(`index.ts:99-117`): for each outcome of an attempt, whether the SDK returns,
retries, raises a typed error, or lets another exception out. An outcome is a
status and the shape of its body, `Unreachable` (a `URLError`) or `Lost` (the
request was sent, the answer never came). Statuses the code treats alike are
represented by one.

**Submission** runs calls of either SDK over either binding. `Submit`, `Post`,
`Refused`, `Disturbed`, `Receive` and `Backoff` are the lines of one turn of
the loop, `Settle` is what every end of an attempt does. `args` is the
envelope as its caller has it, `body` as the call has serialised it: Python
does so once, before the loop (`sdk.py:110`), TypeScript for each attempt
(`index.ts:104`), so that an `Edit` by the caller while the loop backs off
gets into the next attempt of a TypeScript call (`Body`, `Write`; `written`
keeps all that a call has serialised). `net` is a set of requests, each of
which `Serve` (external) may take at any time. `Disturbed` ends the wait with
another outcome and leaves the request in `net`: it is a lost answer, a
gateway's error, a rewritten body and a delayed request all in one. The
external ledger answers by key, payload and media type.

**IdempotentService** is what a caller is promised: a key is bound to one
payload; a call is told "accepted" only of what it asked for and its key is
bound to; a refused call has bound nothing and never will; one that ended
without knowing may still bind. A call asks for one thing, except those in
`Fickle` (the TypeScript calls), which may ask again for another, and of which
then only the first two hold. Submission refines it (`Service`), with `asked`
read off what was written, `binders` off the events, `bound` off the ledger
and `verdict` off the outcomes.

**Delivery** runs workers of one agent that share its inbox. `Begin` starts
one of the three methods with a fresh proof, `Post`, `Settle`, `Fault`,
`Receive` and `Backoff` are the same loop, `Raise` gives the caller both
choices (keep the lease, forget it). `told` and `conflicts` are histories of
what calls reported: done, or 409. The inbox (external: `Deny`,
`ServeClaim`, `ServeComplete`, `Expire`) follows what the code and its tests
rely on: 409 without the current lease, 401 for a proof that does not verify
or was consumed.

**LeasedInbox** is what the workers are promised, as if there were no
requests, retries and late answers: `Grant`, `Close` by the owner of the
current lease, `Lapse`, and `Tell` of what was closed. Delivery refines it
(`Inbox`), with `owners` and `closed` read off the history of effects.

**Wire** has JSON values up to what the checks tell apart (a string is a form
and a length), the outcome of a check (passed, `ContractError`, another
error), and decimals: results are rounded half even to `Precision` digits, and
one out of the range that `MaxExponent` bounds raises an error that is no
`ContractError` (`Overflows`, `Computed`). **Validation** is every function of
`validation.py` and `extensions.py`, as its checks in the order of the code.
**Schemas** is the shipped schemas as kinds of fields, **Models** is
`to_wire`.

**Security** is signing and the checks of a signature (`ParseSignature`,
`VerifySignature`) for any canonical form: `FormOf`, a constant, stands for
the text in which a language writes a value. **Canonical** is that text as the
code computes it, equal exactly when the texts are, and what a Python peer
parses from the JSON that a language writes. Both descend into documents
nested to any depth, and recursive operators are out of the prover's reach:
`Form` and `Json` therefore say what the code makes of a value, given what it
makes of the `Parts` of it. MCExchange closes the recursion (`AnyForm`,
`AnyJson`) and gives the result to Exchange as its constants `FormOf` and
`JsonOf`. **A2A** is the binding, with the media type of each SDK: Python's is
the one `a2a.py:33` takes, TypeScript's (`index.ts:3`) is not. **Exchange**
composes them: edit (at any time, between attempts too), sign, post, alter on
the way, validate and verify at the other end. `Mislabelled` is what
TypeScript posts by A2A.

**AgentCard** signs and verifies cards: a protected header, a content and a
signature over both. **Probe** is `probe` and the exit of `main` of
`live_conformance.py`, one action per request (`GetHealth`, `GetDiscovery`,
`GetCard`, `CheckSignature` or `KeysUnanswered`, `Negotiate`) and `Report`.
Its environment (external) is an operator who publishes a second key, renews
the card and revokes a key (`AddKey`, `Renew`, `Revoke`), and a service that
may serve something else than was signed (`Misserved`), answer wrongly, or not
at all. `blame` is a history of what a faultless service, whose first
published key is the one its card is signed with, would not have shown.

**Suite** is `main` of `cli.py` with its four commands, and with other
programs that write and delete files. What a file holds is known by which
commands take it (`Kinds`, `Takes`). **Release** adds `build` of
`build_release.py` over the same files, after the suite as `RELEASE.md` has
it: copy, catalog, manifest, archive and checksum, each a step between which
files may change and the build be killed (`Killed`), then run again over what
is left.

Operators whose comment begins with "Defect:" are plausible mistakes. The
models do not use them: each takes the place of the definition after it to
confirm that a property notices.

## 3. Runs

Every passing run terminates; no state constraint or symmetry is used.

| Run | Bounds | Shows |
|---|---|---|
| `submission` | a Python and a TypeScript call, 4 envelopes (2 sharing a key, 2 sharing a document, 1 invalid), both bindings, 1 retry, 2 faults of 8 kinds, 1 edit of an envelope in flight | the inductive invariant, one event per call (in TypeScript: whose body did not change), truthful results, final refusals, retries only of transient outcomes, TypeScript using all its attempts, bindings that agree, refinement of IdempotentService; a valid uncontested envelope is submitted in the end unless the path spoils the call |
| `delivery` | 2 workers, 1 delivery, 4 calls, 1 retry, 2 faults, 1 reject, 1 overtaking expiry | one effect per call, no effect of a call that raised 409, truthful reports, the holder of a lease is not refused, refinement of LeasedInbox |
| `delivery_polling` | 2 polling workers, 1 fault, 1 overtaking expiry, 10 calls | every delivery is completed in the end |
| `exchange` | either sender, 2 edits at any time, 2 attempts, 1 alteration of the document, the envelope or its signature | accepted only if it is what was signed; and if it is, accepted, unless TypeScript posts it by A2A; what Python posts fares alike by both bindings, and the same result is read from either; Python reads in every document in reach the form that was signed, and any alteration shows in the form (`FormsTell`) |
| `validation` | 22 document types with and without their optional fields and for each of their enumerated words; one edit of any field to a value of any JSON type, or three of amounts and lines | accepted fits the schema, has exact totals and survives `to_wire`; only `ContractError`, but for what `Handled` excepts |
| `probe` | 2 keys, 2 card contents, 4 moves of the operator, every answer of every endpoint | "conformant" is true of the service; a failure has one of the reasons that `FailureIsReal` lists, of which renewing the card and publishing or revoking keys behind the first are none |
| `suite` | each command over 2 files of 4 kinds, 2 changes while it or a build runs, 2 builds, each killed anywhere | exit code 0 is true of every file that did not change, and 1 of a listed file that is not what the command takes or was changed; a report is printed unless a file upsets the validator; an archive its checksum vouches for is whole, and has what the suite passed |
| `python_lost_answer` | 1 Python call, 3 faults | *violation* of `TransientRetried` |
| `typescript_a2a` | 2 TypeScript calls | *violation* of `BindingsAgree` |
| `typescript_edit` | 1 TypeScript call, 1 fault, 1 edit | *violation* of `RetryIsOneAction` |
| `delivery_no_lease` | 1 TypeScript worker, no fault needed | *violation* of `HolderNotRefused` |
| `exchange_typescript` | 1 TypeScript sender, 1 attempt | *violation* of `SignedVerifies` |

Why the bounds are enough. The hazards of submission need two requests of one
key in flight: two attempts of one call, or two calls; there are both at once,
and two faults let both attempts of a call, or one of each, fail. One edit is
enough for two attempts that differ. The theorems of section 5 hold for any
number. Delivery needs a claim, a lease that expires under its holder, a
second claim and a late completion: two workers and four calls, and an expiry
that overtakes somebody who knows the lease. (Expiries nobody can notice are
not counted.) A check of the validator looks at one field, or at two that are
compared, so one edit of a valid envelope reaches every check; totals relate
up to six amounts on two lines, and three edits make another consistent
document of any one of them (a price, its line total and the total; or a
second line, its reference and the total). `MaxLines` is 500 in the code and 2
here, so that the third line is one too many. `Precision` is 28 in the code
and 3 or 8 here, and `MaxExponent` 999999 in the code and 1 or 9 here: in
`validation`, totals are rounded and products overflow. Polling workers need
no more than 10 calls: more add no state.

Deadlock is checked for Submission, where `Finished` is the only allowed stop.
It is not in the others, whose bounds stop them.

A probe needs one rotation around its two fetches: publish, renew, revoke and
one more renewal are four moves, and two keys are what a rotation has at a
time. The release needs an archive of an earlier build under the one that is
killed: two builds; two files so that one can change between the copies of
both. Of the six kinds of files the run takes one that each command takes and
one that upsets the validator; the others (refused, not JSON) are to each
command what the kinds it does not take already are.

### Fairness

* `ResponsiveSpec` (`submission`): a call that has started is running code, so
  `Post`, `Receive` and `Backoff` are weakly fair; the server answers
  (`ServerFairness`), which `FaultsTolerated` assumes and no safety property
  needs. Faults are never fair. Nothing makes a caller submit or edit.
* `PollingSpec` (`delivery_polling`): workers that poll (weak fairness of
  their own steps), an inbox that answers, leases that expire. The polling
  loop is the application's and not in the repository: that it claims again
  and drops a lease when its call has ended is assumed. That it claims only
  when something is queued keeps `MaxCalls` from being spent on empty claims,
  which change nothing. What the SDK adds, and `EveryDeliveryDone` would show
  broken, is that no call ends so that the next ones cannot succeed.
* `ReleaseSpec` (`suite`): the runner runs on (weak fairness of `List`,
  `Check`, `Crash` and `Report`). Other programs need not, and neither need a
  build.

Timeouts are faults that may come at any time of a wait. urllib's timeout is
per socket operation, so no bound on the whole wait can be assumed of the
Python SDK.

## 4. What the code does otherwise than it says

Five runs show a disagreement with a document, comment or test:

1. `python_lost_answer`: `sdk.py:86` promises "bounded retries for transient
   failures", but a timeout of the answer or a dropped connection is not a
   `URLError` and leaves `_post` untyped after one attempt; so does a
   transient error whose body is JSON of another shape (`problem.get("error",
   {}).get` on a string).
2. `typescript_a2a`: the TypeScript SDK labels the A2A part with a media type
   that `parse_a2a_message` refuses.
3. `typescript_edit`: `README.md:285` says "A transport retry must not become
   a new commercial action", but `post` serialises the
   caller's object in the loop (`index.ts:104`): when the caller edits it
   while a call backs off, one call may record two events. Python serialises
   once, and is shown to record one (`OneEventPerCall`).
4. `delivery_no_lease`: the TypeScript SDK does not send `leaseId`.
5. `exchange_typescript`: `canonical` of `index.ts` leaves out every member
   named `signature` at any depth, where Python leaves out the top-level one,
   and the two write `undefined`, dates, some numbers and some key orders
   differently.

Others are written into the passing properties as exceptions, each next to the
property that names it:

* the TypeScript SDK reads the body before the status, so that it retries a
  final answer whose body is not JSON and ends with a retryable error of
  status 0 (`Legible`, `index.ts:107`);
* the validator does not look at some fields the schemas constrain
  (`Unchecked`: `deliveryLocation` of a request for quote, lines tested for
  truth only at `validation.py:97,124`, terms, notes and some reasons), reads
  `null` as absent at three places (`NullsRead`) and accepts any `signature`;
* it raises `TypeError` on arrays and objects that it looks up in a set or a
  dictionary before it knows their type: the document type
  (`validation.py:735`), enumerated words of six documents, references of
  lines (`:108` and its like) and product categories; and on a currency that
  is no string (`:77`), in the documents that match its pattern first
  (`Handled`, `LookedUp`, `EarlyRefs`);
* it raises `decimal.Overflow` on amounts whose product or sum has more than
  999999 digits, as no pattern bounds the length of an amount
  (`validation.py:134,137,274,423`; `InRange`);
* totals are computed in Decimal's 28 digits, while
  `procurement-lifecycle.md:32` says that they "MUST be exact": beyond those,
  rounded totals are accepted and exact ones refused (`InContext`);
* `to_wire` drops the signature, an empty `extensions` and a null `inReplyTo`,
  and rewrites times, so it need not give back what was received (`WireStable`
  says what is kept; `test_conformance.py:16` compares fixtures only): a
  signature over the envelope as it came need not verify for its wire form;
* a retry of a delivery call resends the nonce of its first attempt, as
  `sdk.py:114` has one body for all: if that attempt was processed and its
  answer lost, the retry is told 401 although the call has succeeded. The
  documents promise single use of a nonce, and that holds (`OneEffectPerCall`,
  `ConflictIsFinal`); but a caller cannot take 401 to mean that nothing
  happened, and the deliveries of a claim that ends so come back only when
  their lease expires (`delivery_polling`);
* an error the runner does not expect (`TypeError`, `RecursionError`) ends the
  suite without a report of the other files (`Reports`, `cli.py:62`);
* a suite over an empty or missing directory is conformant and exits 0, and
  `README.md:438` names a directory that is not there;
* `parse_signature` and `verify_agent_card_signature` let an `AttributeError`
  out for a `createdAt` that is not a string, and for a protected header that
  is JSON but not an object (`ParseSignature`, `VerifyAgentCardSignature`);
* a signature covers neither its own `keyId` nor its `createdAt`, either of
  which may be replaced by another well-formed one on the way (`Authentic`);
* `verify_agent_card_signature` (`security.py:72`) says "the first supported
  EdDSA JWS signature", but looks at `signatures[0]` only: a card whose first
  signature is of another kind is refused (`Misserved`);
* the probe tries the key that is published first, whatever the `kid` of the
  card (`live_conformance.py:46`), so in the overlap that
  `security-profile.md:16` asks for, a sound service fails while another key
  than its card's is the first, or becomes the first between the two fetches
  (`FailureIsReal`); a failed signature ends it without a report of the other
  checks; and without `--public-key` an unsigned card is conformant
  (`ConformantIsTrue`, `:44`);
* `build_release.py:2` says "deterministic", but the gzip header has the time
  of the build, so two builds of the same files differ (digests of archives
  are compared within one build only);
* an archive need not be of any one moment: files edited while they are copied
  enter it as they are then, after the suite has passed them (`PassedIsPacked`
  is of the files that did not change);
* with `retries` below zero, `post` of the TypeScript SDK makes no attempt and
  `submit` fails on `undefined`; Python clamps at zero (`Submit`).

## 5. Proofs

TLAPS checks these for all values of the constants, from the assumptions the
modules name: that `SdkOf` gives an SDK to each call, envelopes are records of
three fields, the acceptable ones are some of them, faults are outcomes that
are not an accepted answer (for Delivery: transient outcomes), retries are
integers (for Delivery: naturals), bounds are naturals; the others are named
with their module. The behaviour of ACN Cloud is part of the model and not
proved of any service.

**SubmissionProofs**

| Theorem | Says |
|---|---|
| `TypeCorrect` | `TypeOK` |
| `Inductive` | `IndInv` |
| `RetriesAreOneAction` | `OneEventPerCall` |
| `ResultsAreTrue` | `ResultTruthful` |
| `RefusalsAreFinal` | `RefusalIsFinal` |
| `Refinement` | `ImplementsService` |

The properties are not inductive: nothing in them speaks of requests still on
their way. `IndInv` adds that the body of a call is among what it wrote, and
all it wrote if it runs Python (`BodiesInv`); that every request carries what
its call wrote, and those of the current attempt what it wrote last
(`RequestsInv`); every event is of something its call wrote, is in the ledger
and can no longer be refused (`EventsInv`); every ledger entry has its event,
and a key has one (`LedgerInv`, which is the server's own promise); answers
are true while they travel (`RepliesInv`), and so are results (`ResultsInv`).
A refusal is final because `Rejected` is stable: media type and validity of an
envelope never change, and a ledger entry is never replaced. Edits are any,
and at any number of back-offs: of TypeScript calls, `OneEventPerCall` and
`RefusalIsFinal` speak as long as what they wrote stayed the same (`Steady`).
The refinement maps a `Submit` or a `Backoff` that writes something new to
`Ask`, a fresh `Serve` to `Bind`, a `Settle` that ends the call to `Accept`,
`Refuse` or `GiveUp`, and everything else to a stutter.

**LoopProofs** (extends SubmissionProofs)

| Theorem | Says |
|---|---|
| `FinalAnswersEndCalls` | `FinalAnswerEndsCall` |
| `RetryableIsTrue` | `RetryableFlagTruthful` |
| `TypeScriptUsesAllAttempts` | `TypeScriptPersistent` |
| `OtherBindingsAgree` | `KnownBindingsAgree`, given `HonestPath` |

`LoopInv` counts: as many outcomes were seen as attempts have ended, all but
the last made the loop go on, and that one did only if it was the attempt
after which the loop ends. The table of PostPolicy turns that into the three
properties. The bindings agree because what one of them accepted is in the
ledger (`IndInv`), and nothing in the ledger is `Rejected`.

**DeliveryProofs**

| Theorem | Says |
|---|---|
| `TypeCorrect` | `TypeOK` |
| `CallsTakeEffectOnce` | `OneEffectPerCall` |
| `ConflictsAreFinal` | `ConflictIsFinal`, whatever mix of SDKs the workers run |
| `ReportsAreTrue` | `ToldTruthful` |
| `HoldersAreServed` | `HolderNotRefused`, given that all workers run the Python SDK |
| `Refinement` | `ImplementsInbox` |

`StepKinds` groups the steps by what they touch. `TypeInv` types requests and
answers; `OnceInv`: an effect has consumed its call's nonce, which every
request of that call carries; `FinalInv`: a live call is of one worker and has
raised nothing (`CallsInv`), its attempts all carry a lease or none does
(`BareInv`), and one that is told 409, or was, is spent: its nonce is consumed
without an effect, or its requests carry no lease (`SpentInv`); `OwnInv`: who
holds, presents or is granted a lease is the worker of the one claim that was
given it; `GrantInv` and `EndInv`: leases are numbered in the order they are
granted, the current one of a delivery is its last, and a completed one is no
longer current; `ToldInv`: a positive answer of a completing call has its
effect. The refinement maps `ServeClaim` to `Grant`, a `ServeComplete` that
has an effect to `Close`, `Expire` to `Lapse`, a `Receive` that returns to
`Tell`, and everything else to a stutter; that a completion closes its own
worker's lease is `OwnInv`, and that what is told was closed is `ToldInv`.
`HolderInv` has what a refusal with 409 means: the lease of the call is
`Superseded`, and stays so.

**ProbeProofs**

| Theorem | Says |
|---|---|
| `TypeCorrect` | `TypeOK` |
| `ConformantVerdicts` | `ConformantIsTrue` |
| `FailuresHaveReasons` | `FailureIsReal` |

From `NoKey \notin Keys` and `AcnContents \subseteq Contents`. `ServiceInv`:
the card is genuine and signed with a published key, which is what the order
of a rotation keeps. `ReadInv`: what was read is sealed by the operator, and,
if nothing is to blame, by the key that will be tried: the given one, or the
one published first, which the operator's other moves leave where it is.
`OutcomeInv`: a card past the check was found genuine or has no signature, and
a check has failed for every wrong answer and only then.

**ReleaseProofs**

| Theorem | Says |
|---|---|
| `TypeCorrect` | `TypeOK` |
| `VerdictsAreTrue` | `VerdictTruthful` |
| `ReleasesAreWhole` | `VouchedIsWhole` |
| `PassedFilesAreReleased` | `PassedIsPacked` |

From a finite set of files and any number of changes and builds. `ListInv` and
`ResultsInv`: every file that was there all along is on the list, and each
result is true of its file unless that was changed. `Written`: what the steps
of a build have written so far agree with the stage, and a checksum that
matches is of a complete archive. `Faithful`: a file that did not change since
the start is, once it was copied, in the stage as it is in the directory.

**CheckProofs** has no theorem of its own: `First` of n checks passes when all
pass, and ends as the first one that does not pass (`FirstAt`, `First2` to
`First17`); what an accepted envelope has passed (`EnvelopeChecks`,
`DispatchPassed`); and decimals (`TenToGrows`, `DigitsAre`, `RoundedFits`,
`TotalsAgree`). `Induction` is induction over the naturals for a set in the
place of a predicate, and `RecursiveFunction` gives the functions that `TenTo`
and `Total` define by recursion.

**ValidationProofs**

| Theorem | Says |
|---|---|
| `EnvelopesParsed` | `ParsedEnvelope` |
| `AcceptedFits` | `AcceptedFitsSchema` |
| `RejectedWithContractErrors` | `OnlyContractErrors` |
| `WireForms` | `WireStable` |
| `AcceptedTotals` | `TotalsExact` |

For any document types, edited with any values and any number of times, from
`ValuesAssumption`: the values come from a JSON text, so that a list is a
sequence, a field that is there has a value, and an amount is a decimal.
`ParsedEnvelope` says the same of the envelope, and is kept by every edit.
The four properties follow from it without the history: each is proved of one
envelope, with one lemma per validator. `...Fits` lemmas: the checks of a
function bound the fields that its schema bounds, line by line. `...Safe`
lemmas: no check hashes, matches or looks into a value that it cannot, but
where `Handled` says so, and no arithmetic overflows that `InRange` covers.
`WireAccepted` and `WireAgain`: `to_wire` changes only what no check looks at.
`TotalsAgree`: exact partial sums are at most the exact sum, so that if the
latter fits the context no addition rounds; it uses that what equals a number
of at most `Precision` digits is not rounded either, however many zeros it
ends in (`EqualFits`). The number of lines, the precision and the largest
exponent are any.

**ExchangeProofs**

| Theorem | Says |
|---|---|
| `BindingsAgree` | `BindingNeutral` |
| `SignedIsAccepted` | `SignedVerifies`, given `FormsAgree` |
| `NothingElseIsAccepted` | `Authentic`, given `FormsAgree`, `Covers(S)` and `Injective` |
| `FormsTellApart` | `FormsTell`, given `Ordinary` |
| `CanonicalIsAccepted` | `SignedVerifies`, given `Ordinary` |
| `CanonicalIsAuthentic` | `Authentic`, given `Ordinary` |
| `SignatureMembersRefused` | a document that TypeScript signed, with a member named `signature` in the specifications of an item, is refused |

All of them hold for any members, alterations and bounds, from
`UnforgedAssumption` (the network makes no signature of its own, and alters
the document only member by member) and `BoundAssumption`.

The first three are about the protocol, whatever `FormOf` and `JsonOf` are.
What they need of the canonical form are laws of it, stated in Exchange:
Python reads in what was posted the form its sender signed (`FormsAgree`); no
two of the envelopes that can arrive have one form (`Injective`, of the sets
that `Covers` bounds). `SignedState`: there is one signature, over the
envelope in `signed`, and what is posted is an envelope with it. `Arrives`:
what arrived is, but for its signature, among the envelopes in reach, and any
signature in it is the one that was made, but for its other members.
`OneOutcome` and `Refusals`: what is not mislabelled is validated, then
verified, by either binding; what TypeScript posts by A2A is refused for its
label, whatever is in it. `SignedVerifies` is therefore silent about that, and
the theorems say no more of it.

The next three prove the laws of the canonical form that the code computes,
and with them the two properties. `Ordinary(Keys, V, W, d)` is their
hypothesis. `V[n]` are the values that nest at most `n` deep: any strings,
booleans, nulls and numbers, objects with any keys, and lists of any length.
`W[n]` are those of them without floats, and with neither a member named
`signature` nor keys both outside the BMP and above the surrogates in one
object. Python senders and the network write values of `V[d]`, TypeScript
senders of `W[d]`, for any depth `d`; `undefined` and dates are in neither.
These are the exceptions of `exchange_typescript` (many floats both languages
write alike; the model takes none to be), and the members of the run
`exchange` are ordinary with `d = 1`. `Composed`: on the values of `V`,
`FormOf` and `JsonOf` are what `Form` and `Json` make of a value and of
`FormOf` and `JsonOf` of its parts (`FormOnce`, `JsonOnce`), as `AnyForm` and
`AnyJson` are in the run. `FormInjective`: two values of `V` with one form in
Python are the same value, by `Induction` on the depth, since each form shows
its kind, its keys and the forms of its members. `PlainForms`: the two
languages write a value of `W` alike, since neither drops a key of it nor
orders two of them otherwise (`PlainOrder`). `JsonKept`: JSON gives back what
was written. `EnvelopeNests`: an envelope nests five deeper than its
specifications. `ArrivingClosed`: what an alteration makes of what may arrive
may arrive. (`Keys` is a parameter because the prover does not know that a
literal such as "document" is in STRING.)

`SignatureMembersRefused` is the general form of the first part of finding 5:
`exchange_typescript` shows one document, the theorem every document with such
a member (of strings, booleans, nulls and numbers that are not floats, at any
depth), by either binding. The two forms differ in the keys they list, five
levels down, and a signature verifies for one form only.

## 6. Only model-checked

* Liveness (`FaultsTolerated`, `EveryDeliveryDone`, `Reports`): temporal
  properties under fairness are out of the prover's reach.
* The documents that are not ordinary, but for a member named `signature`:
  what becomes of `undefined`, dates, floats and keys outside the BMP in
  TypeScript is in Canonical, and its effect is what `exchange_typescript`
  shows.

## 7. Abstractions, and what is not modelled

* Redirects that urllib and fetch follow are part of the path. Response
  headers are not read by the SDKs and not modelled; nor is the length of a
  back-off.
* An envelope in flight is edited while its call backs off (`Edit`). It may be
  at any time, but no loop reads it in between, so that this has the same
  effect. What a caller edits after the last attempt, or before the first,
  is not of the call.
* The workers of Delivery are the application's: the SDKs keep no leases. Its
  polling loop is in no file of the repository.
* Ed25519 is ideal: a signature verifies for exactly the form it was made of.
  Base64 (which Python decodes leniently, so that a signature has several
  spellings) and the generation of keys are not modelled. Digests are ideal
  too.
* Patterns are forms: a string matches the pattern of its form and no other.
* Times are small integers with their offset and fraction as written. Clocks
  are not modelled: no function of the library compares a time with now.
* One directory stands for all that a release is made of (`INCLUDED` and the
  package's own data, `build_release.py:48-53`), so that it is listed once, at
  the start of the copying, and the catalog is of all its files.
* `generate_sbom.py` writes what is installed, once, and keeps nothing; the
  package's `__init__` re-exports and opens package data; CI files configure
  an external service. None has state or steps to check.
* The procurement lifecycle (which document may follow which) is prose: no
  code of the repository keeps the state of a transaction.

## 8. Plan

In this order; all are done.

1. `PostPolicy`, `Submission`, `IdempotentService`: the call that moves money.
2. `SubmissionProofs`: types, the inductive invariant, refinement.
3. `Delivery`, then `DeliveryProofs`.
4. `Wire`, `Validation`, `Schemas`, `Models`.
5. `Canonical`, `A2A`, `Exchange`.
6. `Suite`, then `Release` over the same files, and `ReleaseProofs`.
7. `AgentCard`, `Probe` and `ProbeProofs`; `LeasedInbox`, which Delivery
   refines.
8. `LoopProofs`; `HolderNotRefused`; the refinement of the inbox.
9. `CheckProofs` and `ValidationProofs`: what is accepted fits the schemas,
   has exact totals and survives `to_wire`.
10. `Security`, with the canonical form as a constant, and `ExchangeProofs`.
11. `FormsAgree` and `Injective` proved of the form that the code computes, on
    documents nested to any depth, by `Induction`.
