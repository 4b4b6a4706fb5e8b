------------------------------ MODULE Decoding ------------------------------
(***************************************************************************)
(* What each method makes of the daemon's answer: for each selected field, *)
(* the values that the daemon may send (null only where the code's types   *)
(* of the answer allow it) and the field of the result that it becomes.    *)
(* <<"each">> stands for the elements of a list that is returned itself,   *)
(* and <<>> for the result itself.                                         *)
(***************************************************************************)
EXTENDS Conversions, Documents

\* The value of a field is the result.
Returned(field, wire, how) == {Rule(<<field>>, <<>>, wire, how)}

Elements(field, wire, how, rules) == Within(<<field>>, <<"each">>, wire, how, rules)

getDaemonPeers == Take({"peerId", "host"}, Name, AsIs) \union Move("libp2pPort", "port", Num, AsIs)

getDaemonStatus == Inside(<<"daemonStatus">>, <<>>,
  Take({"syncStatus", "stateHash", "commitId"}, Name, AsIs)
  \union Within(<<"peers">>, <<"peers">>, Nullable(List), Else("[]"), getDaemonPeers)
  \union Take({"blockchainLength", "highestBlockLengthReceived", "uptimeSecs", "numAccounts",
               "highestUnvalidatedBlockLengthReceived"}, Nullable(Num), UnlessNull(AsIs))
  \union Take({"ledgerMerkleRoot", "chainId", "coinbaseReceiver"}, Nullable(Name), UnlessNull(AsIs))
  \union Take({"catchupStatus", "blockProductionKeys"}, Nullable(List), UnlessNull(AsIs))
  \union Take({"globalSlotSinceGenesisBestTip"}, Nullable(Either), UnlessNull(Number))
  \union Within(<<"addrsAndPorts">>, <<"addrsAndPorts">>, Nullable(Object), UnlessNull(AsIs),
       Take({"externalIp", "bindIp"}, Name, AsIs)
       \union Take({"clientPort", "libp2pPort"}, Num, AsIs)
       \union Within(<<"peer">>, <<"peer">>, Nullable(Object), UnlessNull(AsIs), getDaemonPeers))
  \union Within(<<"consensusTimeNow">>, <<"consensusTimeNow">>, Nullable(Object), UnlessNull(AsIs),
       Take({"epoch", "slot", "globalSlot"}, Either, Number)
       \union Take({"startTime", "endTime"}, Digits, String)))

getDaemonMetrics == Inside(<<"daemonStatus", "metrics">>, <<>>,
  Take({"blockProductionDelay"}, List, AsIs)
  \union Take({"transactionPoolDiffReceived", "transactionPoolDiffBroadcasted",
               "transactionsAddedToPool", "transactionPoolSize", "snarkPoolDiffReceived",
               "snarkPoolDiffBroadcasted", "pendingSnarkWork", "snarkPoolSize"}, Num, AsIs))

\* A timing with every field null is none.
parseTiming ==
  Within(<<"timing">>, <<"timing">>, [Object EXCEPT !.odd = {"null", "{nulls}"}],
         When({"null", "{nulls}"}, "null", AsIs),
         Take({"initialMinimumBalance", "cliffTime", "cliffAmount", "vestingPeriod",
               "vestingIncrement"}, Nullable(Digits), Else("''")))

getAccount == Within(<<"account">>, <<>>, Nullable(Object), Required,
  Take({"publicKey", "delegate", "tokenId"}, Name, AsIs)
  \union Take({"nonce"}, Either, Number)
  \union Inside(<<"balance">>, <<"balance">>,
       Take({"total"}, Digits, FromGraphQL)
       \union Take({"liquid", "locked"}, Nullable(Digits), IfTruthy(FromGraphQL))
       \union Take({"blockHeight"}, Nullable(Either), UnlessNull(Number)))
  \union Take({"tokenSymbol"}, Nullable(Text), UnlessNull(AsIs))
  \union Take({"votingFor", "receiptChainHash", "zkappUri"}, Nullable(Name), UnlessUndefined(AsIs))
  \union Take({"zkappState"}, Nullable(List), UnlessUndefined(AsIs))
  \union Take({"provedState"}, Nullable(Flag), UnlessUndefined(AsIs))
  \union parseTiming
  \union {Rule(<<"permissions">>, <<"permissions">>, Nullable(Object), UnlessUndefined(AsIs))}
  \union Whole(<<"permissions">>, <<"permissions">>, Permissions))

failures == Within(<<"failureReason">>, <<"failureReason">>, Nullable(List), OrNull(AsIs),
                   Take({"index"}, Nullable(Either), OrNull(Number))
                   \union Take({"failures"}, List, AsIs))

snarkWork == Take({"prover"}, Name, AsIs) \union Take({"fee"}, Digits, FromGraphQL)
               \union Take({"workIds"}, Either, Number)

-----------------------------------------------------------------------------
(* Blocks.                                                                 *)

userCommands ==
  Take({"id", "hash", "kind"}, Name, AsIs) \union Take({"nonce"}, Either, String)
  \union {Rule(<<n, "publicKey">>, <<n>>, Name, AsIs) : n \in {"source", "receiver"}}
  \union Take({"amount", "fee"}, Digits, AsIs) \union Take({"memo"}, Text, AsIs)
  \union Take({"failureReason"}, Nullable(Name), AsIs)

zkappCommands ==
  Take({"id", "hash"}, Name, AsIs) \union failures
  \union Inside(<<"zkappCommand">>, <<"zkappCommand">>,
       Take({"memo"}, Text, AsIs)
       \union Inside(<<"feePayer">>, <<"feePayer">>,
            Take({"authorization"}, Name, AsIs)
            \union Inside(<<"body">>, <<"body">>,
                 Take({"publicKey"}, Name, AsIs) \union Take({"fee"}, Digits, AsIs)
                 \union Take({"nonce"}, Either, String)
                 \union Take({"validUntil"}, Nullable(Either), OrNull(String))))
       \union Whole(<<"accountUpdates">>, <<"accountUpdates">>, AccountUpdates))

transactions == Inside(<<"transactions">>, <<>>,
  Within(<<"userCommands">>, <<"userCommands">>, Nullable(List), Else("[]"), userCommands)
  \union Within(<<"feeTransfer">>, <<"feeTransfers">>, Nullable(List), Else("[]"),
           Take({"recipient", "type"}, Name, AsIs) \union Take({"fee"}, Digits, AsIs))
  \union Within(<<"zkappCommands">>, <<"zkappCommands">>, Nullable(List), UnlessNull(AsIs),
           zkappCommands)
  \union Move("coinbase", "coinbase", Digits, AsIs)
  \union {Rule(<<"coinbaseReceiverAccount", "publicKey">>, <<"coinbaseReceiverAccount">>,
               Chained(Name), Else("null"))})

\* A plausible slip: the height is left as the daemon sends it.
heightsAsSent == Move("blockHeight", "height", Either, AsIs)
                   \union Move("slot", "globalSlotSinceHardFork", Either, Number)
                   \union Move("slotSinceGenesis", "globalSlotSinceGenesis", Either, Number)
                   \union Take({"epoch"}, Either, Number)

heights == Move("blockHeight", "height", Either, Number)
             \union Move("slot", "globalSlotSinceHardFork", Either, Number)
             \union Move("slotSinceGenesis", "globalSlotSinceGenesis", Either, Number)
             \union Take({"epoch"}, Either, Number)

epochData ==
  Within(<<"stakingEpochData">>, <<"stakingEpochData">>, Nullable(Object), IfTruthy(AsIs),
    Take({"epochLength"}, Either, Number) \union Take({"seed"}, Name, AsIs)
    \union {Rule(<<"ledger", "hash">>, <<"ledgerHash">>, Name, AsIs)})
  \union Within(<<"nextEpochData">>, <<"nextEpochData">>, Nullable(Object), IfTruthy(AsIs),
    Take({"seed"}, Name, AsIs) \union {Rule(<<"ledger", "hash">>, <<"ledgerHash">>, Name, AsIs)})

\* What is read of a block, with the rules for its epoch data.
blockInfo(epoch) ==
  Take({"stateHash"}, Hash, AsIs) \union Take({"commandTransactionCount"}, Num, AsIs)
  \union {Rule(<<"creatorAccount", "publicKey">>, <<"creatorPublicKey">>,
               Chained(Nullable(Name)), Else("'unknown'"))}
  \union Inside(<<"protocolState">>, <<>>,
       Take({"previousStateHash"}, Hash, AsIs)
       \union Inside(<<"consensusState">>, <<>>,
            heights \union epoch \union Take({"blockCreator"}, Name, AsIs)
            \union Move("coinbaseReceiever", "coinbaseReceiver", Nullable(Name), UnlessNull(AsIs)))
       \union Inside(<<"blockchainState">>, <<>>,
            Take({"date", "utcDate", "snarkedLedgerHash"}, Name, AsIs)
            \union Take({"stagedLedgerHash"}, Hash, AsIs)))
  \union Within(<<"snarkJobs">>, <<"snarkJobs">>, Nullable(List), UnlessNull(AsIs), snarkWork)
  \union transactions

parseBlockInfo  == blockInfo(epochData)
getBestChain    == Elements("bestChain", Nullable(List), Else("[]"), parseBlockInfo)
getGenesisBlock == Inside(<<"genesisBlock">>, <<>>, parseBlockInfo)

\* The names in which a Block differs from a BlockInfo.
blockNames ==
  [height |-> "blockHeight", globalSlotSinceHardFork |-> "slot",
   globalSlotSinceGenesis |-> "slotSinceGenesis",
   coinbaseReceiver |-> "coinbaseReceiverConsensus",
   coinbaseReceiverAccount |-> "coinbaseReceiver"]

inBlock(r) == [r EXCEPT !.to = IF @[1] \in DOMAIN blockNames
                                 THEN <<blockNames[@[1]]>> \o Tail(@) ELSE @]

\* A Block always has epoch data: an empty one where the daemon has none.
blockEpochData ==
  Within(<<"stakingEpochData">>, <<"stakingEpochData">>, Nullable(Object), Else("{}"),
    Take({"epochLength"}, Either, When({"undefined"}, "0", Number)) \union Take({"seed"}, Name, AsIs)
    \union {Rule(<<"ledger", "hash">>, <<"ledgerHash">>, Name, AsIs)})
  \union Within(<<"nextEpochData">>, <<"nextEpochData">>, Nullable(Object), Else("{}"),
    Take({"seed"}, Name, Else("''")) \union {Rule(<<"ledger", "hash">>, <<"ledgerHash">>, Name, Else("''"))})

\* (The other defaults of getBlock are for fields that the code's type of the
\* answer says are there, or that parseBlockInfo has made numbers of.)
getBlock == Within(<<"block">>, <<>>, Nullable(Object), Required,
                   {inBlock(r) : r \in blockInfo(blockEpochData)})

-----------------------------------------------------------------------------
(* Pools and other queries.                                                *)

getPeers == Elements("getPeers", List, AsIs, getDaemonPeers)

getPooledUserCommands == Elements("pooledUserCommands", Nullable(List), Else("[]"),
  Take({"id", "hash", "kind", "from", "to"}, Name, AsIs) \union Take({"nonce"}, Either, String)
  \union Take({"amount", "fee"}, Digits, AsIs)
  \union {Rule(<<n, "publicKey">>, <<n>>, Chained(Name), IfTruthy(AsIs)) : n \in {"source", "receiver"}}
  \union Take({"memo"}, Nullable(Text), UnlessNull(AsIs))
  \union Take({"failureReason"}, Nullable(Name), UnlessUndefined(AsIs))
  \union Take({"validUntil"}, Nullable(Either), UnlessUndefined(OrNull(String)))
  \union Take({"token", "feeToken"}, Nullable(Name), UnlessNull(AsIs)))

\* A plausible slip: a command without a last slot is valid until slot 0.
zkappUntilZero ==
  Take({"id", "hash"}, Name, AsIs) \union failures
  \union Inside(<<"zkappCommand">>, <<>>,
       Take({"memo"}, Text, AsIs)
       \union Inside(<<"feePayer", "body">>, <<"feePayer">>,
            Take({"publicKey"}, Name, AsIs) \union Take({"fee"}, Digits, FromGraphQL)
            \union Take({"nonce"}, Either, Number)
            \union Take({"validUntil"}, Nullable(Either), Number)))

parseZkappCommand ==
  Take({"id", "hash"}, Name, AsIs) \union failures
  \union Inside(<<"zkappCommand">>, <<>>,
       Take({"memo"}, Text, AsIs)
       \union Inside(<<"feePayer", "body">>, <<"feePayer">>,
            Take({"publicKey"}, Name, AsIs) \union Take({"fee"}, Digits, FromGraphQL)
            \union Take({"nonce"}, Either, Number)
            \union Take({"validUntil"}, Nullable(Either), OrNull(Number))))

getPooledZkappCommands ==
  Elements("pooledZkappCommands", Nullable(List), Else("[]"), parseZkappCommand)

getSnarkPool == Elements("snarkPool", Nullable(List), Else("[]"), snarkWork)

getGenesisConstants == Inside(<<"genesisConstants">>, <<>>,
  Take({"genesisTimestamp"}, Name, AsIs) \union Take({"coinbase", "accountCreationFee"}, Digits, AsIs))

getTrackedAccounts == Elements("trackedAccounts", Nullable(List), Else("[]"),
  Take({"publicKey"}, Name, AsIs) \union {Rule(<<"balance", "total">>, <<"balance">>, Digits, AsIs)})

getSyncStatus        == Returned("syncStatus", Name, AsIs)
getNetworkId         == Returned("networkID", Name, AsIs)
getForkConfig        == Returned("fork_config", Unseen, AsIs)
getTransactionStatus == Returned("transactionStatus", Name, AsIs)

-----------------------------------------------------------------------------
(* Mutations of the daemon client.                                         *)

\* A plausible slip: the nonce is left as the daemon sends it.
commandAsSent ==
  Take({"id", "hash"}, Name, AsIs) \union Take({"nonce"}, Either, AsIs)
  \union Take({"kind"}, Optional(Name), UnlessNull(AsIs))
  \union {Rule(<<n, "publicKey">>, <<n>>, Chained(Name), IfTruthy(AsIs)) : n \in {"source", "receiver"}}
  \union Take({"amount", "fee"}, Optional(Digits), UnlessNull(AsIs))
  \union Take({"memo"}, Optional(Text), UnlessNull(AsIs))

mapSubmittedCommand ==
  Take({"id", "hash"}, Name, AsIs) \union Take({"nonce"}, Either, Number)
  \union Take({"kind"}, Optional(Name), UnlessNull(AsIs))
  \union {Rule(<<n, "publicKey">>, <<n>>, Chained(Name), IfTruthy(AsIs)) : n \in {"source", "receiver"}}
  \union Take({"amount", "fee"}, Optional(Digits), UnlessNull(AsIs))
  \union Take({"memo"}, Optional(Text), UnlessNull(AsIs))

sendPayment     == Inside(<<"sendPayment", "payment">>, <<>>, mapSubmittedCommand)
sendDelegation  == Inside(<<"sendDelegation", "delegation">>, <<>>, mapSubmittedCommand)
sendZkapp       == Inside(<<"sendZkapp", "zkapp">>, <<>>, parseZkappCommand)
unlockAccount   == Inside(<<"unlockAccount">>, <<>>, Returned("publicKey", Name, AsIs))
setSnarkWorker  == Inside(<<"setSnarkWorker">>, <<>>, Returned("lastSnarkWorker", Nullable(Name), AsIs))
setSnarkWorkFee == Inside(<<"setSnarkWorkFee">>, <<>>, Returned("lastFee", Digits, AsIs))

-----------------------------------------------------------------------------
(* The ITN client.                                                         *)

\* A number below 2^16 as a number or in a text; anything else is refused.
parseUint16 == [v \in Values |-> IF v \in {"0", "1", "'0'", "'1'", "''"} THEN Number[v] ELSE "throws"]

\* What is no text, or not true, is null, or false.
parseAuth == Within(<<"auth">>, <<>>, Nullable(Object), Required,
  Take({"serverUuid"}, Nullable(Text), Required)
  \union Take({"signerSequenceNumber", "libp2pPort"},
             [Either EXCEPT !.odd = @ \union {"-1", "'x'", "null"}], parseUint16)
  \union Take({"peerId"}, Nullable(Text), OrNull(AsIs))
  \union Take({"isBlockProducer"}, Nullable(Flag), Else("false")))

slotsWon     == Returned("slotsWon", List, AsIs)
scheduledTransactions == Returned("scheduledTransactions", List, AsIs)
internalLogs == Elements("internalLogs", List, AsIs,
  Take({"id"}, Num, AsIs) \union Take({"timestamp"}, Name, AsIs) \union Take({"message"}, Text, AsIs)
  \union Within(<<"metadata">>, <<"metadata">>, List, AsIs,
       Take({"item"}, Name, AsIs) \union Take({"value"}, Unseen, AsIs))
  \union Take({"process"}, Nullable(Name), AsIs))
handleOf(field)      == Returned(field, Name, AsIs)
setZkappCommandLimit == Returned("zkAppCommandLimit", Nullable(Num), AsIs)
commitId             == Inside(<<"auth">>, <<>>, Returned("commitId", Name, AsIs))
createAccounts       == Inside(<<"createAccounts">>, <<>>,
  Take({"handle"}, Name, AsIs)
  \union Within(<<"accounts">>, <<"accounts">>, List, AsIs, Take({"publicKey", "privateKey"}, Name, AsIs)))
=============================================================================
