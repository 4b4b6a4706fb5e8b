# A verification development of mina-sdk-js

TLA+ models of the SDK's clients (`src/src/`), the TLC runs that check them, and
TLAPS proofs about them. Paths below are those of the repository, under `src/`;
`itn/client.ts` is `src/src/itn/client.ts` and `client.ts` is `src/src/client.ts`.

## 1. Inventory

The SDK is a library without threads, storage or servers. What is hard about it
is in the two GraphQL clients: their calls interleave at every `await`, and the
network between them and the daemon delays, loses and doubles.

| Component | State | Operations | Talks to | Hard behaviour |
|:--|:--|:--|:--|:--|
| ITN queue, `ItnClient.exclusive` | field `queue`, the tail of a chain of promises | enter, wait, give up, run, leave | its callers; `AbortSignal` | cancellation in the middle of the chain, order, deadlock |
| ITN session, `ItnClient` | fields `session`, `latestAuth` | `auth`, `executeQuery`, `handshake`, `post` | the daemon's ITN server | sequence numbers, 412 and 401, timeouts, late requests, restarts, other clients of the key |
| ITN operations | none | 14 methods, each one `executeQuery` | `executeQuery` | repetition of the `WithHandle` calls |
| `MinaClient.executeQuery` | none but locals of each call | the retry loop | the daemon's GraphQL server | what a repetition does to a mutation whose first attempt ran |
| `MinaClient` mutations | none | `sendPayment`, `sendDelegation`, `sendZkapp`, `unlockAccount`, `setSnarkWorker`, `setSnarkWorkFee` | `executeQuery` | repetition, late requests |
| `MinaClient` queries and decoding | none | 16 methods and the parsers | `executeQuery` | null, absent and present fields |
| Client configuration | none | the two constructors | - | values that pass the checks and break the loop |
| `Currency` | an immutable bigint | arithmetic, parsing, formatting | everything with amounts | scaling by 10^9, boundaries |
| `verify.ts` | the cached backend | `verifyPrecomputedBlock`, `compareToClaims`, `checkBlockClaims` | a WebAssembly module | failed loads, claims that are absent |
| `ItnKey` | an ed25519 key | load, generate, export, sign | `node:crypto` | form of the seed |
| GraphQL documents | none | sent by `executeQuery` | the daemon's schema | fields that a decoder reads and a document does not select, variables that may not be null |
| Entry points, build | none | - | - | none |

What makes each component correct:

- **ITN queue**: one task at a time, in the order of the calls; a call that gives
  up is told at once, and neither lets the next overtake nor blocks it.
- **ITN session**: requests run in the order of their calls and none twice; what
  a call's outcome says about its request is true; the session is the daemon's
  unless something outside the client's settled requests moved it; every call
  settles.
- **`MinaClient.executeQuery`**: bounds on how often a payment runs, by whether it
  names its nonce; what a result and a GraphQL error say; every call settles.
- **Mutations**: which setting is in force after a setter returned, late
  repetitions included, and what the "last" value it returns is.
- **Requests and decoding**: a request gives every declared variable, and what the
  caller said; a result is of its declared type whatever the daemon leaves null
  and however it writes its numbers, loses nothing, and makes nothing up.
- **Configuration**: what the constructors accept leads to the attempts, the
  times and the errors that the options promise.
- **`Currency`**: a text is read exactly or not at all, printing is read back.
- **`verify.ts`**: a source is accused of exactly what it lied about; a backend is
  found wherever and whenever it gets installed.

## 2. Modules

| Module | Models | Relation |
|:--|:--|:--|
| `FifoMutex` | what `exclusive` promises: a mutex in order of arrival that a waiting caller may abandon | abstract |
| `ItnQueue` | `exclusive`, microtask by microtask | implements `FifoMutex` |
| `ItnContract` | what the callers of an `ItnClient` are promised, without sessions, posts and numbers | abstract |
| `ItnClient` | `ItnClient` and the daemon, network and other clients | uses `FifoMutex` as its queue, implements `ItnContract` |
| `ItnHandles` | the operations on schedulers, and the daemon's schedulers | on top of `ItnContract` |
| `Currency` | the factories, arithmetic and printing of `Currency` | - |
| `MinaClient` | `MinaClient.executeQuery` with payments, setters and queries | - |
| `Attempts` | both constructors and the retry loops under every configuration | - |
| `Conversions` | JavaScript's conversions, and tables of them | used by the next four |
| `Documents` | the GraphQL documents: variables and selections | - |
| `Requests` | what every method makes of its arguments | extends `Conversions` |
| `Decoding` | what every method makes of the daemon's answer | extends `Conversions`, `Documents` |
| `Results` | the result types | extends `Conversions` |
| `Verification` | `verify.ts` | - |
| `Operations` | one call of any method, and the check of a claim about a block | composes the five |
| `ItnQueueProofs`, `ItnClientProofs`, `ItnHandlesProofs`, `MinaClientProofs`, `AttemptsProofs`, `CurrencyProofs`, `OperationsProofs` | theorems about the seven; that `ItnClient` implements `ItnContract` | extend them |
| `AnswersProofs` | that results hold nothing else than the answers, have their types, and that claims are judged by them | extends `OperationsProofs` |

Each `.cfg` gives the constants of its module their values; there is nothing to
override, so the specifications are checked directly. The definitions introduced
by "A plausible slip" are not part of any specification: each is a variant of the
action that follows it, with a bug that the properties are there to catch.
`PROJECT.json` says which property rejects which variant, and which lines of code
each definition stands for.

### ItnQueue

A call is `idle`, then `waiting` for the promise that was the tail when it came,
`ready` when that promise has resolved and its `then` callback has removed the
abort listener, `running` its task, and `left` when the `finally` block has run.
A call whose signal fires while it waits is `rejected` and leaves without
running. `resolved` holds the promises that have been resolved; `Done` is the
`previous.then(done)` of the `finally` block, which may come long after the call
has left. Calls are named by the order of their arrival, because nothing else
about them matters. A signal may have fired before its call (`aborted` is
arbitrary in `Init`), while it waits, or while its task runs.

The refinement maps `waiting` to the calls at the gate and `holder` to the call
past it. A call that gives up abandons the mutex when its signal fires; that its
promise is resolved later is invisible there, which is the point.

### ItnClient

A step is a synchronous run of the code between two awaits.

- **Queue**: `Call`, `CallAborted`, `AbortWaiting`, `Start` and `Settle` are the
  operations of `FifoMutex` together with what the client does with them.
- **Handshake**: `StartHandshake`, `HandshakeSucceeds`, `HandshakeRefused` (401 or
  a body that does not parse: final), `HandshakeAttemptFails` (a status from 300
  on, or no answer: pause and retry), `HandshakeAborted`, `RetryHandshake`. Nobody
  listens to the signal during the pause, so an abort is noticed by the next post.
- **Request**: `SendQuery` reads the session and posts with it; then `PostFails`
  (the session is dropped, nothing is repeated), `QueryStale` (412: dropped, and a
  second pass), `QueryUnauthorized` (401: kept), `QueryHttpError` (dropped),
  `QueryAnswered` (the session moves on, whatever the body holds).
- **Network**: `wire` holds every request sent and not yet received. A request
  whose caller timed out or aborted stays there and may still be run. An answer
  that nobody waits for is dropped. A timeout is a `PostFails` or
  `HandshakeAttemptFails` at any time: the model does not know how long things
  take.
- **Daemon** (external; from the class comment of `ItnClient` and
  `spec/ITN.md:20-44`): it accepts a request only with its incarnation and its
  next number, and then counts it. `Restart` starts a new incarnation, with or
  without the client's key; `OtherClient` counts someone else's request;
  `GatewayError` is an HTTP error from something in between. A 2xx answer to a
  sequenced request is taken to come from the daemon, after it counted the
  request, and a 401 or a 412 from the daemon, which did not: the code relies on
  this (`itn/client.ts:281` and the class comment).
- `answerMoves` and `sessionMoves` are history variables: they record why the
  daemon's number has moved since the answer the session comes from. Only
  properties read them.

Data is abstracted to what decides the control flow: an answer is `data`,
`errors`, or one of the status classes the code distinguishes; a session is an
incarnation and a number. Signatures, texts and the operations' variables are
left out: every operation is one call of `executeQuery`.

`ItnContract` sees three of the variables: how many calls were made, how each
ended, and which requests the daemon ran, in order. The refinement is the
identity on them. The contract lets a request run at most once, after all earlier
calls have settled and before any request of a later call has run; it lets a call
settle with a result or an error of the answer only when its request ran, with
an authorization, sequencing or handshake error only when it did not, and with an
abort or a connection error at any time, after which the request may still run.
(A call that gave up while it queued never sends anything; its caller cannot tell
this from an abort later on, and the contract does not either.) Handshakes,
second passes, restarts and other clients are stutters of it.

### ItnHandles

The operations that start, list and stop schedulers, on a client of which only
`ItnContract` is known: every step of a call is a step of the contract, together
with what it means for the operation. `Ask` is the call, `SentHandle` the handle
among the variables that the operation sends, `Settle` its return. `MayAsk` is how
callers use handles: one of their own for one job, used again only to repeat a
call after a connection error; they stop what they named, started or saw listed.
The daemon (external; `spec/ITN.md:73-84` and `itn/client.ts:423-427`) starts a
scheduler unless one runs under the handle, removes those of a stopped handle, and
lists the handles that run. `End` is the end of a scheduler's duration, of the
funding of accounts, or of the daemon. A handle that the daemon chooses is named
after its call. Amounts, rates and keys are left out.

The properties are those that only the order of requests can give. A request to
start whose caller has given up may reach the daemon at any later time, unless a
later request has run: a stop that returned is therefore final, and so is a list.

### Currency

`nano` is `this.nano`. A text is the sequence of parts that `split('.')` gives, a
character a digit or `Other`, so that reading and printing can be followed digit by
digit; a bigint is an integer, and `Number` and `Digits` are its conversions from
and to digits. `text` is the text that the amount was read from and `reader` the
factory that read it: `fromMina` counts in Mina, the two others in nanomina, and
`fromNanomina`, which passes its text to `BigInt()`, takes one without digits for 0.
`TenTo` is the power of ten, written as a recursive function so that the proofs can
unfold it. `Decimals` stands for 9. Comparisons and getters change nothing and are
left out, like the signs and radix prefixes that `BigInt()` takes in texts.

### MinaClient

Calls run concurrently. `Post` sends the same body again for every attempt, and
every request may reach the daemon at any later time, or never. The daemon
(external) runs a payment that names the sender's next nonce or leaves the choice to
it, rejects it with a GraphQL error otherwise, and may reject any mutation for other
reasons. An answer with `errors` is taken to come from a daemon that has not run the
mutation: `client.ts:136` drops the data that such an answer may have beside the
errors, so that the model says nothing of a daemon that sends both
(`FirstErrorHonest` rests on this). `OtherWallet` uses up nonces. A setter
(`setSnarkWorker`, `setSnarkWorkFee`) puts its value in force and is told the one
before; `changes` is the history of the setting and `told` what the answers said.
`sendZkapp` is a payment that names its nonce, which the signature covers. `Read`
stands for the queries, which change nothing at the daemon, and for `unlockAccount`,
whose repetition does not either. An outcome is that of `executeQuery`; what an
operation throws on decoding its result comes after it, in `Operations`.

### Attempts

A caller's number is NaN, Infinity or, here, a number of halves (3 stands for
1.5), because a fraction passes the checks of the constructors as well. `Construct`
is the checks; `Post`, `Fail`, `Sleep`, `LoopEnds` and `Answered` are the loops of
`MinaClient.executeQuery` and `ItnClient.handshake`. The latter differs in two
things. Its timer is made by `AbortSignal.timeout`, which throws for what is no
uint32, outside the `try` (`TimerRaises`, `Raise`). And it has its caller's signal:
a signal that fires ends the request that is under way (`AbortPost`); one that fires
during a pause, or before or between the requests, is noticed by the next of them
(`AbortUnnoticed`, `PostAborted`, `Query`), and `late` counts what the call pauses
after it. `Query` is the post of the sequenced request, after the handshake or with
a session of an earlier call (`MayHoldSession`); it is answered or fails
(`QuerySettles`), or comes back with a 412 (`QueryStale`), which starts the second
`pass` with a handshake of its own, the counters back at their beginning, or ends it
with an `ItnSequencingError`. `auth()` is the call that ends with its handshake
(`Answered`). Time is in milliseconds; an attempt takes
any time up to its timer. `Timer` is what Node makes of a time: the whole part, or
1 ms if that is not from 1 to 2^31 - 1.

### Conversions, Documents, Requests, Decoding, Results, Operations

Every method is the same control around four tables. A *rule* of `Requests` or
`Decoding` says where a field comes from, where it goes, which values may come (the
ordinary one and the odd ones: null, undefined, an empty text or list, 0 as a
number, a text or an amount, a number where a text is usual) and the conversion the
code applies: `x ?? d`, `x || null`, `if (x != null)`, `if (x !== undefined)`,
`Number(x)`, `String(x)`, `Currency.fromGraphQL(x)`. The conversions are functions
on the values that JavaScript tells apart. `Documents` has the declared variables,
those that may not be null, and the selected fields as paths; `Results` the
declared types. Null comes from the daemon where the code's own types of the
answer (`RawBlock` and the type arguments of `executeQuery`) admit it.

`Operations` applies them: `Call` picks a method and its odd arguments, refuses
(`getBlock`, `getTransactionStatus`) or sends; `Answer` picks the odd values of the
answer and decodes it, a field that is not selected being undefined. `Claim` takes
any fields of a block that `getBlock` returned as a claim about it, `CheckClaims` is
`checkBlockClaims`, and `InstallBackend` and `Restart` are the environment's.

`Verification` is `verify.ts`: `loadBackend` looks for a usable package next to the
SDK and in the working directory and keeps what it found; the WebAssembly module
(external) accepts the genuine blocks of its network; `compareToClaims` is strict.
The proof attests one fixed set of `facts`; the daemon's answer tells the truth or
not, field by field.

## 3. Runs

| Run | Bounds | Shows |
|:--|:--|:--|
| `ItnQueue` | 5 calls | one task at a time, order, no call waits but for a running task, a cancelled one leaves even behind a task that never ends, refinement of `FifoMutex` |
| `ItnClient` | 3 calls, 1 handshake attempt, numbers modulo 3, 2 incarnations | order, honest outcomes, session against daemon, cause of every 412 |
| `ItnClientLive` | 2 calls, 2 attempts, modulo 2, 2 incarnations | every call settles; refinement of `ItnContract`, its fairness included |
| `ItnClientComment` | 2 calls, 1 attempt, modulo 3, 1 incarnation | expected violation, below |
| `ItnHandles` | 3 calls, 1 handle of the callers | a stop is final, a list is complete |
| `ItnHandlesComment` | 2 calls, 1 handle | expected violation, below |
| `Currency` | 2 decimals, digits 0, 1 and 9, 3 characters on each side of the point, each text given to each factory | a text is read exactly or not at all, printing is read back |
| `Operations` | 37 methods, `MostOdd` = 2 odd values at once in tables of up to `ManyOdd` = 40, one in larger ones | requests complete and faithful, results typed and faithful, claims judged rightly, backends found |
| `OperationsComment` | the same | expected violation, below |
| `Attempts` | options from -0.5 to 4 in halves, NaN, Infinity; timers up to 2 ms, uint32 up to 3; two passes, a signal at any time | honest connection errors, calls in time, aborts heard after one pause at most, every call settles |
| `MinaClient` | 2 calls, 2 attempts, nonces 0 to 2, 2 settings | how often payments run, which setting is in force, what outcomes mean, every call settles |
| `MinaClientComment` | 1 call, 2 attempts, nonce 0 | expected violation, below |

The runs check the type invariants of `ItnClient`, `Currency` and `Operations`.
Those of all seven state machines are proved (section 4), which needs no run.

Why the bounds are enough. *Queue*: four calls are the least with one that holds
the queue, two that give up side by side, and one behind them; the fifth is one
more. *ItnClient*: the
deepest interactions need three calls, one whose request is late, one that runs
while it arrives, and one that then finds the session stale; a second
incarnation distinguishes a restart from another client; numbers modulo 3 wrap
within one run (the code counts modulo 2^16), and 3 is more than the requests
that can be under way at once for one session; the repetition of a handshake does
not touch the session, and is left to `ItnClientLive`. `CountOne` bounds lateness: no
request is still in the network when the daemon has counted all the way round to
its number, that is 2^16 requests later in the code. *ItnHandles*: three
calls are one that starts, one that repeats or lists, and one that stops, and
handles that the daemon chooses come on top of the callers' one. *Currency*: three
characters are one more than the decimals and one more than the digits of one
Mina, so that texts on both sides of each comparison with `Decimals` are read;
`MaxNano` bounds the amounts that are calculated with, not those that are read.
*MinaClient*: two calls with
two attempts each are four requests, in every order, with every pair of nonces,
equal ones included; `MaxNonce` bounds how many payments the daemon runs. Two
settings are one before and one after. *Attempts*: retries up to 4 are more than
the loop needs to have a first, a middle and a last attempt; a timeout between
the longest timer and the largest uint32, and one beyond both, are among the
options; `MaxCount` and `Horizon` stop the counters and the clock of a loop that
goes on for ever, beyond what any finite configuration reaches. *Operations*: a
conversion reads one field, except that a field is absent with what is above it and
that `getBlock` and `getTransactionStatus` count their two arguments, so that two odd
values at a time are enough; in a block, whose fields are converted apart, one.
`MostOdd` and `ManyOdd` are constants of the module, and the proofs of section 4 are
for every value of them: the bounds hide nothing from the invariants.

Deadlock is checked in `Operations`, which goes on for ever. Elsewhere the bounded
number of calls is used up, or the one call settles, and the system stops; that no
call is left hanging is checked by the liveness properties and, for the queue, by
`WaitsOnlyForTask`.

### Fairness

- `ItnQueue`: weak fairness of the microtasks of each call: the event loop runs
  every queued microtask. Nothing is assumed of the end of a task, which is not up
  to the queue: `WaitsOnlyForTask` says that a call waits for ever only if some
  task runs for ever, `CancelledCallLeaves` that a cancelled one does not even then.
- `ItnClient`: weak fairness of the start and the steps of each task. This says
  that continuations and timers run, and that each post ends: `post` gives every
  one an `AbortSignal.timeout`, and `fetch` is assumed to honour its signal.
  Nothing is assumed of callers, the daemon or the network: they may never answer.
- `MinaClient`: weak fairness of the steps of each call, for the same reason
  (`setTimeout` and an `AbortController` per attempt).
- `Attempts`: weak fairness of the next step: timers fire, and the event loop runs
  what is ready. `EveryCallSettles` excepts `retries` of Infinity, which asks for a
  loop without end, unless the caller's signal fires. Nobody needs to fire it.
- `Operations`: none. Its properties are about what has been sent and decoded.

### Expected violations

- `StaleOnlyByOthers`. The comment at `itn/client.ts:251-252` (and
  `spec/ITN.md:38`) names two causes of a 412: a restart, and another client of
  the key. The run finds a third: a request of this client that its caller gave up
  is counted after the next call's handshake and before its post. The code
  recovers from it as from the others.
- `RepeatStartsNothing`. The comment at `itn/client.ts:425-427` (and
  `spec/ITN.md:75-79`) concludes from what the daemon does with the handle of a
  *running* scheduler that a call with a handle may be repeated after a transport
  error. The run finds a scheduler that has ended before the repetition arrives,
  which starts it again.
- `NonNullVariablesFilled` (run `OperationsComment`). `client.ts:522` says that
  `setSnarkWorker` disables the worker when its key is omitted (so do `README.md:98`
  and `tests/client.test.ts:121`). It then sends `{input: null}` (`client.ts:526`)
  with a document that declares `$input: SetSnarkWorkerInput!` (`queries.ts:969`). A
  daemon that follows the rules of GraphQL rejects null for such a variable before
  it runs anything. What does hold is `EveryVariableSent`: no variable is missing.
- `ErrorsDeterministic`. `client.ts:147` calls GraphQL errors deterministic. The
  run finds a payment that names its nonce, runs in its first attempt, loses the
  answer, and ends with the GraphQL error of its second attempt. What does hold
  is `FirstErrorHonest`: a GraphQL error of the first attempt means no run.

### Smaller disagreements

Met while modelling, visible in the models, and not worth a run of their own:

- `README.md:165` names `CurrencyParseError` for every `Currency.from*`; a number
  can make them throw a `RangeError`, and a text `fromNanomina` a `SyntaxError`.
  What is thrown is in the actions (`fromMinaText`, `fromNumber`, `fromNanominaText`,
  `fromGraphQL`).
- The constructors demand `retries` of at least 1, but let NaN pass, with which a
  call fails without an attempt, and fractions, with which it pauses once more than
  it needs to (`ConnectionErrorHonest` and `InTime` say so).
- A timeout of Infinity, or above 2^31 - 1 ms, becomes 1 ms in Node
  (`Attempts!Timer`), so that every attempt of `MinaClient` is aborted at once.
  `ItnClient`, with `AbortSignal.timeout`, raises a `RangeError` for what is no
  uint32 (`Attempts!Raise`).
- An abort during the pause after the last of a fractional number of attempts is not
  noticed at all: the call ends with the connection error (`AbortHeard` excepts it).
- `compareToClaims` (`verify.ts:154-159`) counts a claim about a field that the
  facts do not have as a false one.

## 4. Proofs

All theorems hold for every value of the constants that satisfies the named
assumptions (`NAssumption`, `RetriesAssumption`, ...: positive integers; at least
two sequence numbers), so in particular for numbers modulo 2^16. Each module
proves one inductive invariant, with one lemma per action or group of actions,
and derives the properties from it.

- `ItnQueueProofs`. `TypeCorrect`, `AtMostOneRuns`, `ServedInOrderHolds`, and
  `ChainIsFifoMutex` (`Spec => Mutex!Spec`). The invariants checked by TLC are not
  inductive: they say nothing of promises. The strengthening says that the promise
  a call captured is that of the call just before it (`Chained`), that promises
  resolve in order and only those of calls that have left (`ResolvedInOrder`), and
  that whoever is past the gate saw the promise before it resolved.
- `ItnClientProofs`. `TypeCorrect`, `RunsInOrder`, `OutcomesHonest`,
  `SessionIsStable`, `SessionIsDaemons`, `StaleHasCause`, `LastAuthIsCurrent`. The
  invariant relates the queue to the calls' places (`QueueInv`), requests to the
  calls that sent them (`SentInv`: no later call has sent anything while an earlier
  one is unsettled; `WireInv`: one request of a call at a time, and none once the
  daemon ran one), answers to what the daemon did (`AnswerInv`), and the session
  to the daemon (`SessionInv`: one behind it while an answer is under way). The
  heart of it is `FenceInv`: a request that the daemon would accept comes after
  all that it ran. The daemon's number keeps a late request from running behind
  a newer one, and the handshake before the newer one does not undo that.
- `ItnClientProofs` also has `ClientKeepsContract` (`Spec => Contract!Spec`). One step
  is hard: that the daemon accepts a request, late or not, is the contract's `Run`.
  `FenceInv` gives that no later request ran, `SentInv` that every earlier call has
  settled, `WireInv` and `OutcomeHonest` that the outcome of the call leaves a run
  possible. That every step of a task is a `Settle` or a stutter uses that
  outcomes are honest after the step too.
- `ItnHandlesProofs`. `TypeCorrect`, `StoppedForGood`, `ListCanBeTrusted`.
  The properties speak of what has returned; the invariant
  (`StopInv`, `ListInv`) says the same of what the daemon has served, before the
  answer is back, and adds that only what was served runs. Each step uses that a
  request which runs comes after all that ran (`RunEffect`), which is the contract.
- `MinaClientProofs`. `TypeCorrect`, `NamedNonceRunsOnce`, `RunsAreBounded`,
  `ResultMeansRun`, `FirstErrorMeansNoRun`. The invariant says that at most one
  request of each attempt exists, that it has not run while it does, that payments
  run with ascending nonces and with the nonce they name, and that an answer with
  errors means that its attempt is over without a run. `RunsAreBounded` then
  counts attempts with an injection. `SetterStaysInForce` and `PreviousIsHonest`
  rest on a second invariant, `SetterInv`: what a setter was told is what its run
  in the current attempt replaced, and a setter that ran is in force as long as
  every other was answered in its first attempt before it began. Such a one has
  nothing left in the network (`PromptDone`); with repetitions it may, and then a
  late request does undo a newer setting, which is why the property has that
  condition.
- `AttemptsProofs`. `TypeCorrect`, `ConnectionErrorsHonest`, `CallsInTime`,
  `AbortsHeard`. The invariant counts posts and pauses against the attempt counter
  (`CountInv`), bounds the time by them and, in the second pass, by what the first
  may have taken (`TimeInv`, `Before`), and treats apart the options with which the
  loop does not count: NaN (`NaNInv`), Infinity (`NeverFailed`) and a timer that
  raises (`RaiseInv`). `SignalInv` says where a call may be after its signal has
  fired, and that it has paused at most once since. The prover does no nonlinear
  arithmetic, so that each multiplication is a lemma (`OneMore`, `TimesMono`).
- `CurrencyProofs`. `TypeCorrect`, `ReadingIsExact`, `PrintedIsReadBack`, for every
  number of decimals and for texts and amounts of every length, where the run has
  two decimals and three characters. The invariant is the conjunction of the checked
  ones without `PrintsReadably`, which follows from the type:
  `parseDecimal(toMina(n)) = n` for every natural number. The chain of lemmas is:
  what `TenTo` computes (`TenToDef`, `TenToPlus`), the `Number` of a concatenation
  and of trailing zeros (`NumberConcat`, `NumberZeros`, `NumberPadded`), the digits
  of a number read back (`NumberOfDigits`), and the two texts of `toMina`
  (`PointReadBack`, `MinaReadBack`). `Number` and `TenTo` are recursive functions.
  That they exist at every length is proved by induction over a set of lengths
  (`Induction`, from the well-foundedness of `<`), because the library's induction
  theorems take an operator as a parameter, which the installed provers cannot
  instantiate.
- `OperationsProofs`. `TypeCorrect`, `EveryVariableIsSent`, `ArgumentsAreKept`,
  `BackendIsFound`, `NothingIsLost`. The invariant (`Made`) says that a request and
  a result are what the tables make of some set of odd values, and (`Kept`) that a
  cached backend is installed where it was found. The run tries at most two odd
  values at a time (`MostOdd`, and one in tables with more than `ManyOdd`); the
  theorems are for every value of the two constants. What that comes to is
  `EverySetComes`: when both are large enough, every coherent and finite set of odd
  values is an input of its table. A request table is flat: no rule writes what
  another does, nor what is above it (`Flat`), so that it makes of each rule what
  the rule makes by itself (`ConvertFlat`). `RequestTable` is then proved of each
  table: every rule sends what comes through its wire with its meaning (`Arrives`),
  and the rules that always send fill the variables that the document declares. Of
  the tables of answers it is proved that they make values of values, and make of a
  value that says something one that says the same (`Fine`), part by part. Answers,
  unlike requests, are trees: whether a field is made depends on what is made of the
  objects above it, and whether it is read on what comes there (`Decoded`). Three
  facts about each of the tables carry `NothingIsLost`. A table is a tree (`Tree`):
  no two rules read or make the same field, one rule lies beneath another in the
  result exactly if it does in the answer, and a rule with others beneath it passes
  an object on as an object (`AllTrees`). It is honest (`Honest`, from `Fine`). And
  the document selects all that it reads (`Covers`, `AllCovers`). `AnswerKept` then
  says that a value there is for a rule arrives: all that is above it in the result
  was made of objects above it in the answer. `Tree` relates the rules pairwise, and
  the blocks have some sixty; instead of comparing them, `FitsGot` composes it from
  the ways in which tables are built, given that the names with which the parts
  begin differ (`Disjoint`). `getBlock` renames fields of a table, which is
  one-to-one (`AgainAlike`), and some parts are passed on unseen (`Grove`).
- `AnswersProofs`. `NothingIsInvented`, `SourcesAreJudged`, `ResultsAreTyped`.
  For `NothingIsInvented`, a field of the result that says something was either
  read of a value, or of `undefined` because something above it in the answer is
  no object. In the second case there is a topmost such thing (`Topmost`), whose
  rule did read it, and made an object of it, or the field would not be in the
  result. A table is `Modest` if neither makes anything but a default: no rule
  makes something of a value that says nothing, and where a rule makes an object
  of an odd value, the rules beneath it make nothing of `undefined`. `AnswerTold`
  is the argument. All tables but one are modest because no rule of theirs makes
  an object of an odd value at all (`Humble`); the exception is `getBlock`, whose
  epoch data are empty objects where the daemon has none (`EpochalIsModest`).
  For `SourcesAreJudged`, the four fields of a claim lie directly beneath the block,
  which is required: a block that is missing throws, and one that is there makes
  each of them what its rule makes (`Topped`, `ClaimAgrees`). The inductive
  invariant adds to `IInv` that a claim agrees with what was told, field by field
  (`Recalled`), and that a verdict is about the claim at hand (`Judged`).
  For `ResultsAreTyped`, the table of each method matches the type that the method
  declares (`AllMatch`): each rule makes a field that the type has, and converts
  whatever may come over its wire to a value of that field's type (`Into`); each
  field that the type does not let be left out is made by such a rule (`Onto`).
  Both are proved part by part, from what each conversion does with what may come
  (`GotSuits`) and from how tables and types are put together (`IntoGot`,
  `OntoGot`). That is not all, because what lies beneath an object that came as
  nothing is made of nothing. Then the object is not made either, except in the
  epoch data of `getBlock`, and there the values made of nothing are of the types
  too (`AllSettle`). `getBlock` renames the fields of a `BlockInfo`; no two of them
  get the same name (`FitBlockBefore`), so a renamed table matches the renamed type
  (`IntoAgain`, `OntoAgain`).

Only model-checked:

- the liveness properties (`WaitsOnlyForTask`, `CancelledCallLeaves`, the three
  `EveryCallSettles`) and the fairness parts of `ImplementsFifoMutex` and
  `KeepsContract`, which are beyond the prover.

`ItnClient` uses `FifoMutex` in place of the code's chain of promises; that this
loses no behaviour of the queue is what `ChainIsFifoMutex` proves.

## 5. Not modelled

- `ItnKey`: a wrapper of `node:crypto` without state, and with it signatures; what
  a signature has to cover is the daemon's to check.
- Entry points and build, logging, and the wording of errors.
- HTTP itself. A custom `fetch` that ignores its signal is outside the models: with
  it, posts need not end.
- The proof check of `mina-verify-wasm`, which accepts genuine blocks of its
  network by assumption.
- What the daemon does beyond accepting requests, running payments, keeping
  settings and keeping schedulers.
- Of `Currency`: comparisons, and the signs and radix prefixes in texts.
- Of the answers: what is inside the parts that the SDK passes on unseen (account
  updates, permissions, the fork configuration); only their names are modelled.
- Of the client options: the URI, the logger and the check for a `fetch` function.

## 6. Plan

The modules planned are there. What could follow:

1. The times of `Attempts` in `ItnClient`: how long a call may wait in the queue,
   given the timeouts of those before it. The bound is a sum over the queue; the
   untimed properties do not need it.
2. A daemon per network partition in `MinaClient`: several daemons behind one
   address, of which a payment and its repetition reach different ones. The code
   says nothing about such a setting yet.
3. When a setter or a scheduler operation is added to the SDK: its rule in
   `Requests` and `Decoding`, its document in `Documents`, and its place among the
   calls of `MinaClient` or `ItnHandles`.
