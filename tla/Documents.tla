----------------------------- MODULE Documents ------------------------------
(***************************************************************************)
(* The GraphQL documents: the variables that each declares, those of them  *)
(* that may not be null (the types that end in !), and the fields that it  *)
(* selects, as the set of paths to the leaves.                             *)
(***************************************************************************)
EXTENDS Sequences

Leaves(names)    == {<<n>> : n \in names}
Under(field, sel) == {<<field>> \o path : path \in sel}

Document(declared, nonNull, selection) ==
  [declared |-> declared, nonNull |-> nonNull, selection |-> selection]
Plain(selection) == Document({}, {}, selection)

-----------------------------------------------------------------------------
(* Queries of the daemon client.                                           *)

QUERY_SYNC_STATUS == Plain({<<"syncStatus">>})

Peer == Leaves({"peerId", "host", "libp2pPort"})

QUERY_DAEMON_STATUS ==
  Plain(Under("daemonStatus",
    Leaves({"syncStatus", "blockchainLength", "highestBlockLengthReceived",
            "highestUnvalidatedBlockLengthReceived", "uptimeSecs", "stateHash",
            "commitId", "numAccounts", "ledgerMerkleRoot", "chainId",
            "catchupStatus", "blockProductionKeys", "coinbaseReceiver",
            "globalSlotSinceGenesisBestTip"})
    \union Under("consensusTimeNow",
             Leaves({"epoch", "slot", "globalSlot", "startTime", "endTime"}))
    \union Under("peers", Peer)
    \union Under("addrsAndPorts",
             Leaves({"externalIp", "bindIp", "clientPort", "libp2pPort"})
             \union Under("peer", Peer))))

QUERY_DAEMON_METRICS ==
  Plain(Under("daemonStatus", Under("metrics",
    Leaves({"blockProductionDelay", "transactionPoolDiffReceived",
            "transactionPoolDiffBroadcasted", "transactionsAddedToPool",
            "transactionPoolSize", "snarkPoolDiffReceived",
            "snarkPoolDiffBroadcasted", "pendingSnarkWork", "snarkPoolSize"}))))

QUERY_NETWORK_ID == Plain({<<"networkID">>})

Timing == Leaves({"initialMinimumBalance", "cliffTime", "cliffAmount",
                  "vestingPeriod", "vestingIncrement"})
Permissions ==
  Leaves({"editState", "send", "receive", "access", "setDelegate", "setPermissions",
          "setZkappUri", "editActionState", "setTokenSymbol", "incrementNonce",
          "setVotingFor", "setTiming"})
  \union Under("setVerificationKey", Leaves({"auth", "txnVersion"}))

QUERY_ACCOUNT ==
  Document({"publicKey", "token"}, {"publicKey"}, Under("account",
    Leaves({"publicKey", "nonce", "delegate", "tokenId", "tokenSymbol", "votingFor",
            "receiptChainHash", "zkappState", "provedState", "zkappUri"})
    \union Under("balance", Leaves({"total", "liquid", "locked", "blockHeight"}))
    \union Under("timing", Timing)
    \union Under("permissions", Permissions)))

(* The three block documents select the same fields.                       *)

Bounds == Leaves({"lower", "upper"})
Each(names, sel)   == UNION {Under(n, sel) : n \in names}
EpochPreconditions ==
  Leaves({"seed", "startCheckpoint", "lockCheckpoint"}) \union Under("epochLength", Bounds)
  \union Under("ledger", {<<"hash">>} \union Under("totalCurrency", Bounds))

AccountUpdates ==
  Under("authorization", Leaves({"signature", "proof"}))
  \union Under("body",
    Leaves({"publicKey", "tokenId", "callDepth", "callData", "actions", "events",
            "incrementNonce", "useFullCommitment", "implicitAccountCreationFee"})
    \union Under("balanceChange", Leaves({"magnitude", "sgn"}))
    \union Under("mayUseToken", Leaves({"parentsOwnToken", "inheritFromParent"}))
    \union Under("authorizationKind", Leaves({"isSigned", "isProved", "verificationKeyHash"}))
    \union Under("update",
      Leaves({"appState", "delegate", "zkappUri", "votingFor", "tokenSymbol"})
      \union Under("verificationKey", Leaves({"hash", "data"}))
      \union Under("timing", Timing)
      \union Under("permissions", Permissions))
    \union Under("preconditions",
      Under("validWhile", Bounds)
      \union Under("network",
        {<<"snarkedLedgerHash">>}
        \union Each({"blockchainLength", "minWindowDensity", "totalCurrency",
                       "globalSlotSinceGenesis"}, Bounds)
        \union Each({"stakingEpochData", "nextEpochData"}, EpochPreconditions))
      \union Under("account",
        Leaves({"receiptChainHash", "delegate", "state", "actionState", "provedState", "isNew"})
        \union Each({"balance", "nonce"}, Bounds))))

FeePayer == Leaves({"publicKey", "fee", "nonce", "validUntil"})

BlockFields ==
  Leaves({"stateHash", "commandTransactionCount"})
  \union Under("creatorAccount", {<<"publicKey">>})
  \union Under("protocolState",
    {<<"previousStateHash">>}
    \union Under("consensusState",
      Leaves({"blockHeight", "epoch", "slot", "slotSinceGenesis", "blockCreator",
              "coinbaseReceiever"})
      \union Under("stakingEpochData",
               Leaves({"epochLength", "seed"}) \union Under("ledger", {<<"hash">>}))
      \union Under("nextEpochData", {<<"seed">>} \union Under("ledger", {<<"hash">>})))
    \union Under("blockchainState",
      Leaves({"date", "utcDate", "snarkedLedgerHash", "stagedLedgerHash"})))
  \union Under("snarkJobs", Leaves({"prover", "fee", "workIds"}))
  \union Under("transactions",
    {<<"coinbase">>}
    \union Under("coinbaseReceiverAccount", {<<"publicKey">>})
    \union Under("feeTransfer", Leaves({"recipient", "fee", "type"}))
    \union Under("userCommands",
      Leaves({"id", "hash", "kind", "nonce", "amount", "fee", "memo", "failureReason"})
      \union Each({"source", "receiver"}, {<<"publicKey">>}))
    \union Under("zkappCommands",
      Leaves({"id", "hash"}) \union Under("failureReason", Leaves({"index", "failures"}))
      \union Under("zkappCommand",
        {<<"memo">>}
        \union Under("feePayer", {<<"authorization">>} \union Under("body", FeePayer))
        \union Under("accountUpdates", AccountUpdates))))

QUERY_BEST_CHAIN    == Document({"maxLength"}, {}, Under("bestChain", BlockFields))
QUERY_GENESIS_BLOCK == Plain(Under("genesisBlock", BlockFields))

\* A plausible slip: a block is asked for without its snark jobs.
BlockWithoutJobs ==
  Document({"stateHash", "height"}, {},
    Under("block", {p \in BlockFields : p[1] # "snarkJobs"}))

QUERY_BLOCK         == Document({"stateHash", "height"}, {}, Under("block", BlockFields))

QUERY_PEERS == Plain(Under("getPeers", Peer))

QUERY_POOLED_USER_COMMANDS ==
  Document({"publicKey"}, {}, Under("pooledUserCommands",
    Leaves({"id", "hash", "kind", "nonce", "amount", "fee", "validUntil", "token",
            "feeToken", "from", "to", "memo", "failureReason"})
    \union Each({"source", "receiver"}, {<<"publicKey">>})))

ZkappFields ==
  Leaves({"id", "hash"})
  \union Under("zkappCommand", {<<"memo">>} \union Under("feePayer", Under("body", FeePayer)))
  \union Under("failureReason", Leaves({"index", "failures"}))

QUERY_POOLED_ZKAPP_COMMANDS ==
  Document({"publicKey"}, {}, Under("pooledZkappCommands", ZkappFields))

QUERY_TRANSACTION_STATUS ==
  Document({"payment", "zkappTransaction"}, {}, {<<"transactionStatus">>})

QUERY_GENESIS_CONSTANTS ==
  Plain(Under("genesisConstants",
    Leaves({"genesisTimestamp", "coinbase", "accountCreationFee"})))

QUERY_TRACKED_ACCOUNTS ==
  Plain(Under("trackedAccounts", {<<"publicKey">>} \union Under("balance", {<<"total">>})))

QUERY_SNARK_POOL  == Plain(Under("snarkPool", Leaves({"fee", "prover", "workIds"})))
QUERY_FORK_CONFIG == Plain({<<"fork_config">>})

-----------------------------------------------------------------------------
(* Mutations of the daemon client.                                         *)

CommandFields ==
  Leaves({"id", "hash", "kind", "nonce", "amount", "fee", "memo"})
  \union Each({"source", "receiver"}, {<<"publicKey">>})

MUTATION_SEND_PAYMENT ==
  Document({"input", "signature"}, {"input"},
    Under("sendPayment", Under("payment", CommandFields)))
MUTATION_SEND_DELEGATION ==
  Document({"input", "signature"}, {"input"},
    Under("sendDelegation", Under("delegation", CommandFields)))
MUTATION_SEND_ZKAPP ==
  Document({"input"}, {"input"}, Under("sendZkapp", Under("zkapp", ZkappFields)))
MUTATION_UNLOCK_ACCOUNT ==
  Document({"input"}, {"input"}, Under("unlockAccount", {<<"publicKey">>}))
MUTATION_SET_SNARK_WORKER ==
  Document({"input"}, {"input"}, Under("setSnarkWorker", {<<"lastSnarkWorker">>}))
MUTATION_SET_SNARK_WORK_FEE ==
  Document({"fee"}, {"fee"}, Under("setSnarkWorkFee", {<<"lastFee">>}))

-----------------------------------------------------------------------------
(* Documents of the ITN client.                                            *)

QUERY_AUTH ==
  Plain(Under("auth", Leaves({"serverUuid", "signerSequenceNumber", "libp2pPort",
                              "peerId", "isBlockProducer"})))
QUERY_SLOTS_WON == Plain({<<"slotsWon">>})
QUERY_INTERNAL_LOGS ==
  Document({"startLogId"}, {"startLogId"}, Under("internalLogs",
    Leaves({"id", "timestamp", "message", "process"})
    \union Under("metadata", Leaves({"item", "value"}))))
MUTATION_FLUSH_INTERNAL_LOGS ==
  Document({"endLogId"}, {"endLogId"}, {<<"flushInternalLogs">>})
MUTATION_SCHEDULE_PAYMENTS == Document({"input"}, {"input"}, {<<"schedulePayments">>})
MUTATION_SCHEDULE_ZKAPP_COMMANDS ==
  Document({"input"}, {"input"}, {<<"scheduleZkappCommands">>})
MUTATION_STOP_SCHEDULED_TRANSACTIONS ==
  Document({"handle"}, {"handle"}, {<<"stopScheduledTransactions">>})
MUTATION_UPDATE_GATING == Document({"input"}, {"input"}, {<<"updateGating">>})
MUTATION_STOP_DAEMON == Document({"delaySeconds", "cleanConfig"}, {}, {<<"stopDaemon">>})
MUTATION_ZKAPP_COMMAND_LIMIT == Document({"limit"}, {}, {<<"zkAppCommandLimit">>})
QUERY_COMMIT_ID == Plain(Under("auth", {<<"commitId">>}))
QUERY_SCHEDULED_TRANSACTIONS == Plain({<<"scheduledTransactions">>})
MUTATION_SCHEDULE_PAYMENTS_WITH_HANDLE ==
  Document({"input", "handle"}, {"input", "handle"}, {<<"schedulePayments">>})
MUTATION_SCHEDULE_ZKAPP_COMMANDS_WITH_HANDLE ==
  Document({"input", "handle"}, {"input", "handle"}, {<<"scheduleZkappCommands">>})
MUTATION_CREATE_ACCOUNTS ==
  Document({"input", "handle"}, {"input"}, Under("createAccounts",
    {<<"handle">>} \union Under("accounts", Leaves({"publicKey", "privateKey"}))))
=============================================================================
