----------------------------- MODULE Operations -----------------------------
(***************************************************************************)
(* One call of any method of the two clients: from its arguments to the    *)
(* variables of the request, from the answer to the result, and from a     *)
(* block to a claim about it that is checked against the block's proof.    *)
(* What the transport does in between is in MinaClient and ItnClient.      *)
(***************************************************************************)
EXTENDS Results, Documents, FiniteSets

CONSTANTS
  MostOdd,  \* bound: the odd values that a table gets at a time
  ManyOdd   \* bound: tables that may get more than this get at most one

ASSUME OddAssumption == MostOdd \in Nat /\ ManyOdd \in Nat

Sent == INSTANCE Requests
Got  == INSTANCE Decoding

VARIABLES operation, \* the method that is called, "none" between the calls
          phase,     \* "idle", "refused", "sent", "over", "claimed"
          given,     \* the odd ones of its arguments
          answer,    \* the odd ones of the daemon's values
          sent,      \* the variables of the request
          result,    \* the fields of the result
          claim,     \* the fields of the claim
          told,      \* what the daemon sent for them
          installed, backend, verdict

Check == INSTANCE Verification

callVars == <<operation, phase, given, answer, sent, result>>
vars == <<callVars, claim, told, Check!vars>>

-----------------------------------------------------------------------------
(* The methods.                                                            *)

Method(arguments, document, decoding, type) ==
  [arguments |-> arguments, document |-> document, decoding |-> decoding, type |-> type,
   selected |-> document.selection \union UNION {Above(leaf) : leaf \in document.selection}]

Queries ==
  [ getSyncStatus |-> Method({}, QUERY_SYNC_STATUS, Got!getSyncStatus, Just(string)),
    getDaemonStatus |-> Method({}, QUERY_DAEMON_STATUS, Got!getDaemonStatus, DaemonStatus),
    getDaemonMetrics |-> Method({}, QUERY_DAEMON_METRICS, Got!getDaemonMetrics, DaemonMetrics),
    getNetworkId |-> Method({}, QUERY_NETWORK_ID, Got!getNetworkId, Just(string)),
    getAccount |-> Method(Sent!getAccount, QUERY_ACCOUNT, Got!getAccount, AccountData),
    getBestChain |-> Method(Sent!getBestChain, QUERY_BEST_CHAIN, Got!getBestChain,
                            ListOf(BlockInfo)),
    getGenesisBlock |-> Method({}, QUERY_GENESIS_BLOCK, Got!getGenesisBlock, BlockInfo),
    getPeers |-> Method({}, QUERY_PEERS, Got!getPeers, ListOf(PeerInfo)),
    getPooledUserCommands |-> Method(Sent!ofPublicKey, QUERY_POOLED_USER_COMMANDS,
                                     Got!getPooledUserCommands, ListOf(PooledUserCommand)),
    getPooledZkappCommands |-> Method(Sent!ofPublicKey, QUERY_POOLED_ZKAPP_COMMANDS,
                                      Got!getPooledZkappCommands, ListOf(ZkappCommandResult)),
    getSnarkPool |-> Method({}, QUERY_SNARK_POOL, Got!getSnarkPool, ListOf(CompletedWork)),
    getForkConfig |-> Method({}, QUERY_FORK_CONFIG, Got!getForkConfig, Just(unknown)),
    getBlock |-> Method(Sent!getBlock, QUERY_BLOCK, Got!getBlock, Block),
    getTransactionStatus |-> Method(Sent!getTransactionStatus, QUERY_TRANSACTION_STATUS,
                                    Got!getTransactionStatus, Just(string)),
    getGenesisConstants |-> Method({}, QUERY_GENESIS_CONSTANTS, Got!getGenesisConstants,
                                   GenesisConstants),
    getTrackedAccounts |-> Method({}, QUERY_TRACKED_ACCOUNTS, Got!getTrackedAccounts,
                                  ListOf(TrackedAccount)) ]

Mutations ==
  [ sendPayment |-> Method(Sent!sendPayment, MUTATION_SEND_PAYMENT, Got!sendPayment,
                           SubmittedCommand),
    sendDelegation |-> Method(Sent!sendDelegation, MUTATION_SEND_DELEGATION, Got!sendDelegation,
                              SubmittedCommand),
    sendZkapp |-> Method(Sent!sendZkapp, MUTATION_SEND_ZKAPP, Got!sendZkapp, ZkappCommandResult),
    unlockAccount |-> Method(Sent!unlockAccount, MUTATION_UNLOCK_ACCOUNT, Got!unlockAccount,
                             Just(string)),
    setSnarkWorker |-> Method(Sent!setSnarkWorker, MUTATION_SET_SNARK_WORKER, Got!setSnarkWorker,
                              Just(orNull(string))),
    setSnarkWorkFee |-> Method(Sent!setSnarkWorkFee, MUTATION_SET_SNARK_WORK_FEE,
                               Got!setSnarkWorkFee, Just(string)) ]

\* A method that starts or stops something and returns the daemon's text.
Handled(arguments, document, field) ==
  Method(arguments, document, Got!handleOf(field), Just(string))
WithHandle(details) == Sent!Input(details) \union Sent!handle

ItnOperations ==
  [ auth |-> Method({}, QUERY_AUTH, Got!parseAuth, ItnAuth),
    slotsWon |-> Method({}, QUERY_SLOTS_WON, Got!slotsWon, Just(list)),
    internalLogs |-> Method(Sent!logIds("startLogId"), QUERY_INTERNAL_LOGS, Got!internalLogs,
                            ListOf(ItnLog)),
    flushInternalLogs |-> Handled(Sent!logIds("endLogId"), MUTATION_FLUSH_INTERNAL_LOGS,
                                  "flushInternalLogs"),
    schedulePayments |-> Handled(Sent!Input(Sent!paymentsInput), MUTATION_SCHEDULE_PAYMENTS,
                                 "schedulePayments"),
    scheduleZkappCommands |-> Handled(Sent!Input(Sent!zkappInput),
                                      MUTATION_SCHEDULE_ZKAPP_COMMANDS, "scheduleZkappCommands"),
    stopScheduledTransactions |-> Handled(Sent!handle, MUTATION_STOP_SCHEDULED_TRANSACTIONS,
                                          "stopScheduledTransactions"),
    updateGating |-> Handled(Sent!updateGating, MUTATION_UPDATE_GATING, "updateGating"),
    stopDaemon |-> Handled(Sent!stopDaemon, MUTATION_STOP_DAEMON, "stopDaemon"),
    setZkappCommandLimit |-> Method(Sent!setZkappCommandLimit, MUTATION_ZKAPP_COMMAND_LIMIT,
                                    Got!setZkappCommandLimit, Just(orNull(number))),
    commitId |-> Method({}, QUERY_COMMIT_ID, Got!commitId, Just(string)),
    scheduledTransactions |-> Method({}, QUERY_SCHEDULED_TRANSACTIONS, Got!scheduledTransactions,
                                     Just(list)),
    schedulePaymentsWithHandle |-> Handled(WithHandle(Sent!paymentsInput),
                                           MUTATION_SCHEDULE_PAYMENTS_WITH_HANDLE,
                                           "schedulePayments"),
    scheduleZkappCommandsWithHandle |-> Handled(WithHandle(Sent!zkappInput),
                                                MUTATION_SCHEDULE_ZKAPP_COMMANDS_WITH_HANDLE,
                                                "scheduleZkappCommands"),
    createAccounts |-> Method(Sent!createAccounts, MUTATION_CREATE_ACCOUNTS, Got!createAccounts,
                              CreatedAccounts) ]

Methods ==
  [name \in DOMAIN Queries \union DOMAIN Mutations \union DOMAIN ItnOperations |->
     IF name \in DOMAIN Queries THEN Queries[name]
     ELSE IF name \in DOMAIN Mutations THEN Mutations[name] ELSE ItnOperations[name]]

-----------------------------------------------------------------------------
(* Applying a table.                                                       *)

\* What a rule's field holds: an odd value, or the ordinary one.
Held(rule, odd) ==
  LET here == {p \in odd : p[1] = rule.from}
  IN IF here = {} THEN rule.wire.plain ELSE (CHOOSE p \in here : TRUE)[2]

\* A field is there when everything above it is an object or has elements,
\* as it is in the ordinary answer.
There(rule, odd) == \A p \in odd : p[1] \in Above(rule.from) => p[2] = "{}"

\* A plausible slip: what is undefined is left in.
ConvertUndefinedToo(rules, read) ==
  LET out == [r \in rules |-> r.how[read[r]]]
      bare == {r.to : r \in {q \in rules : out[q] # "{}"}}
      made == {r \in rules : Above(r.to) \intersect bare = {}}
  IN [path \in {r.to : r \in made} |-> out[CHOOSE r \in made : r.to = path]]

\* What the rules make of the fields that are read.
Convert(rules, read) ==
  LET out == [r \in rules |-> r.how[read[r]]]
      bare == {r.to : r \in {q \in rules : out[q] # "{}"}}
      made == {r \in rules : out[r] # "absent" /\ Above(r.to) \intersect bare = {}}
  IN [path \in {r.to : r \in made} |-> out[CHOOSE r \in made : r.to = path]]

\* The variables of the request; JSON leaves out what is undefined.
Variables(m, odd) ==
  Convert(m.arguments, [r \in m.arguments |-> Held(r, odd)])

\* Only selected fields are answered.
Decode(m, odd) ==
  Convert(m.decoding, [r \in m.decoding |->
    IF There(r, odd) /\ r.from \in m.selected THEN Held(r, odd) ELSE "undefined"])

\* The inputs of a table.
InputsOf(rules) ==
  Inputs(rules, IF Cardinality(OddValues(rules)) > ManyOdd THEN 1 ELSE MostOdd)

\* The inputs of every method, computed once.
ArgumentsOf == [name \in DOMAIN Methods |-> InputsOf(Methods[name].arguments)]
AnswersOf   == [name \in DOMAIN Methods |-> InputsOf(Methods[name].decoding)]

-----------------------------------------------------------------------------
(* A call.                                                                 *)

Nothing == <<>>  \* the function without a field

\* getBlock and getTransactionStatus take exactly one of their arguments.
TakesOne == {"getBlock", "getTransactionStatus"}
Defined(m, odd) == {r \in m.arguments : Held(r, odd) # "undefined"}
Refused(name, odd) ==
  name \in TakesOne /\ Cardinality(Defined(Methods[name], odd)) # 1

Call(name, odd) ==
  /\ phase = "idle"
  /\ operation' = name /\ given' = odd
  /\ IF Refused(name, odd)
     THEN phase' = "refused" /\ sent' = sent
     ELSE phase' = "sent" /\ sent' = Variables(Methods[name], odd)
  /\ UNCHANGED <<answer, result, claim, told, installed, backend, verdict>>

\* The arguments of a call do not bear on how its answer is read.
Answer(odd) ==
  /\ phase = "sent" /\ phase' = "over"
  /\ answer' = odd /\ result' = Decode(Methods[operation], odd)
  /\ given' = {} /\ sent' = Nothing
  /\ UNCHANGED <<operation, claim, told, installed, backend, verdict>>

Throws == \E path \in DOMAIN result : result[path] = "throws"

\* The caller is done with the result, or has the RangeError.
Return ==
  /\ phase \in {"over", "refused"} /\ phase' = "idle"
  /\ operation' = "none" /\ given' = {} /\ answer' = {} /\ result' = Nothing
  /\ UNCHANGED <<sent, claim, told, installed, backend, verdict>>

-----------------------------------------------------------------------------
(* A claim about a block that the daemon has sent.                         *)

\* Where a field of the claim stands in a Block, and in the answer.
InBlock == [height |-> <<"blockHeight">>, stateHash |-> <<"stateHash">>,
            previousStateHash |-> <<"previousStateHash">>,
            stagedLedgerHash |-> <<"stagedLedgerHash">>]
InAnswer ==
  [height |-> <<"block", "protocolState", "consensusState", "blockHeight">>,
   stateHash |-> <<"block", "stateHash">>,
   previousStateHash |-> <<"block", "protocolState", "previousStateHash">>,
   stagedLedgerHash |-> <<"block", "protocolState", "blockchainState", "stagedLedgerHash">>]
AnsweredAt(path) ==
  Held(CHOOSE r \in Methods["getBlock"].decoding : r.from = path, answer)

\* A field may be given as undefined, which claims nothing.
Claim(fields, undefined) ==
  /\ phase = "over" /\ operation = "getBlock" /\ ~Throws
  /\ phase' = "claimed"
  /\ claim' = [f \in fields |-> IF f \in undefined THEN "undefined" ELSE result[InBlock[f]]]
  /\ told'  = [f \in fields \ undefined |-> AnsweredAt(InAnswer[f])]
  /\ operation' = "none" /\ given' = {} /\ answer' = {} /\ sent' = Nothing /\ result' = Nothing
  /\ UNCHANGED <<installed, backend, verdict>>

CheckClaims(block, network) ==
  /\ phase = "claimed"
  /\ Check!checkBlockClaims(block, claim, network)
  /\ UNCHANGED <<callVars, claim, told>>

InstallBackend(place, package) ==
  /\ phase = "claimed"
  /\ Check!Install(place, package)
  /\ UNCHANGED <<callVars, claim, told>>

CheckAgain ==
  /\ phase = "claimed"
  /\ Check!Heard
  /\ UNCHANGED <<callVars, claim, told>>

\* Another process starts, on a machine without the package.
Restart ==
  /\ phase = "claimed" /\ phase' = "idle"
  /\ claim' = Nothing /\ told' = Nothing
  /\ installed' = [p \in Check!Places |-> "none"] /\ backend' = "none"
  /\ verdict' = Check!NoVerdict
  /\ UNCHANGED <<operation, given, answer, sent, result>>

Init ==
  /\ operation = "none" /\ phase = "idle" /\ given = {} /\ answer = {}
  /\ sent = Nothing /\ result = Nothing /\ claim = Nothing /\ told = Nothing
  /\ Check!Init

Next ==
  \/ \E name \in DOMAIN Methods : \E odd \in ArgumentsOf[name] : Call(name, odd)
  \/ phase = "sent" /\ \E odd \in AnswersOf[operation] : Answer(odd)
  \/ Return
  \/ \E fields \in SUBSET DOMAIN InBlock : \E undefined \in SUBSET fields : Claim(fields, undefined)
  \/ \E block \in Check!Blocks, network \in Check!Networks \union {"undefined"} :
       CheckClaims(block, network)
  \/ \E place \in Check!Places, package \in Check!Packages : InstallBackend(place, package)
  \/ CheckAgain
  \/ Restart

Spec == Init /\ [][Next]_vars

-----------------------------------------------------------------------------
(* Properties.                                                             *)

Called == Methods[operation]
Stated == Values \ {"absent", "undefined"}

\* Types: what is sent and returned has values that JSON has, the fields of
\* a request are those that the tables name, and nothing is thrown before
\* the request has gone out.
TypeOK ==
  /\ operation \in DOMAIN Methods \union {"none"}
  /\ phase \in {"idle", "refused", "sent", "over", "claimed"}
  /\ phase = "sent" => /\ DOMAIN sent \subseteq {r.to : r \in Called.arguments}
                       /\ \A path \in DOMAIN sent : sent[path] \in Stated \ {"throws"}
  /\ phase = "over" => \A path \in DOMAIN result : result[path] \in Stated
  /\ DOMAIN claim \subseteq DOMAIN InBlock /\ DOMAIN told \subseteq DOMAIN claim
  /\ installed \in [Check!Places -> Check!Packages]
  /\ backend \in Check!Places \union {"none"}

\* A request gives every variable that its document declares, and no other:
\* the daemon rejects a request that leaves one out, so that each optional
\* argument has to become an explicit null.
EveryVariableSent ==
  phase = "sent" => {path[1] : path \in DOMAIN sent} = Called.document.declared

\* The arguments that the clients take for "none given".
TakenForNone ==
  {<<n, "''">> : n \in {"tokenId", "publicKey", "memo"}}
  \union {<<"maxLength", v>> : v \in {"0", "-1"}}

\* What the caller gives arrives: every argument is among the variables with
\* the meaning it had, a nonce or a height of 0 included, and none becomes
\* something that the caller did not say.
ArgumentsKept ==
  phase = "sent" => \A r \in Called.arguments :
    LET v == Held(r, given)
        w == IF r.to \in DOMAIN sent THEN sent[r.to] ELSE "absent"
    IN \/ Meaning(w) = Meaning(v)
       \/ <<r.from[1], v>> \in TakenForNone /\ Meaning(w) = "nothing"

\* A result is of the type that the method declares, whatever the daemon
\* leaves null and however it writes its numbers: each field has a value of
\* its type, no field is there that the type does not name, and none is
\* missing that the type requires.  In particular all of them are selected.
ResultAsTyped ==
  phase = "over" =>
    LET type == Called.type
        without(path) == path \notin DOMAIN result \/ result[path] # "{}"
    IN /\ \A path \in DOMAIN result :
            \E t \in type : t.path = path /\ result[path] \in t.type
       /\ \A t \in type : t.path \notin DOMAIN result =>
            \/ "absent" \in t.type
            \/ \E u \in type : u.path \in Above(t.path) /\ without(u.path)

\* What the daemon has to say about a field that a method reads reaches the
\* caller with its meaning: no 0, no false and no empty text is taken for
\* "none", and no field is forgotten in the document.
NothingLost ==
  phase = "over" /\ ~Throws => \A r \in Called.decoding :
    LET v == Held(r, answer)
    IN There(r, answer) /\ Meaning(v) # "nothing" =>
         r.to \in DOMAIN result /\ Meaning(result[r.to]) = Meaning(v)

\* The values that stand for what the daemon does not have.
Defaults ==
  {<<"creatorPublicKey", "'unknown'">>, <<"isBlockProducer", "false">>}
  \union {<<path[1], "''">> : path \in Timing}
  \union (IF operation # "getBlock" THEN {}
           ELSE {<<"stakingEpochData", "{}">>, <<"nextEpochData", "{}">>, <<"epochLength", "0">>,
                 <<"seed", "''">>, <<"ledgerHash", "''">>})

\* What the daemon does not have is not made up: such a field is absent, null
\* or empty, except for the defaults that the result types have instead.
NothingInvented ==
  phase = "over" /\ ~Throws => \A r \in Called.decoding :
    LET v == Held(r, answer)
    IN r.to \in DOMAIN result /\ Meaning(result[r.to]) # "nothing" =>
         \/ There(r, answer) /\ Meaning(v) # "nothing"
         \/ <<r.to[Len(r.to)], result[r.to]>> \in Defaults

\* A source is accused of exactly what it lied about: a claim taken from the
\* block that getBlock returned differs from the proof in those fields in
\* which the daemon's answer did, although the daemon may write its height
\* as a text and the comparison is strict.
ClaimsJudged ==
  verdict # Check!NoVerdict /\ verdict.kind = "judged" =>
    LET lies == {f \in DOMAIN told : Meaning(told[f]) # Meaning(Check!facts[f])}
    IN verdict.mismatches = lies /\ verdict.honest = (lies = {})

\* A check lacks its backend only while no place has a usable one: a package
\* installed after a check has failed is found by the next, and a broken or
\* foreign one in the first place does not hide the second.
BackendFound ==
  [][verdict = Check!NoVerdict /\ verdict' # verdict =>
       (verdict'.kind = "VerificationBackendError"
          <=> \A p \in Check!Places : installed[p] # "usable")]_vars

\* Variables that a document declares non-null are never null: what the
\* comment on setSnarkWorker presumes when it offers to omit the key.
NonNullVariablesFilled ==
  phase = "sent" => \A n \in Called.document.nonNull :
    <<n>> \in DOMAIN sent => sent[<<n>>] # "null"
=============================================================================
