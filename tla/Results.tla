------------------------------ MODULE Results -------------------------------
(***************************************************************************)
(* The result types: for each field of a result, by its path, the values   *)
(* that its declared type admits.  A field that may be left out has        *)
(* "absent" among them.                                                    *)
(***************************************************************************)
EXTENDS Conversions

string  == Texts
number  == {"0", "1"}
boolean == Flags
currency == Amounts
object  == {"{}"}
list    == {"{}", "[]"}
unknown == {"subtree"}       \* passed on unseen

orNull(T) == T \union {"null"}
maybe(T)  == T \union {"absent"}

Field(path, T) == [path |-> path, type |-> T]
Fields(names, T) == {Field(<<n>>, T) : n \in names}
Beneath(path, fields) == {[f EXCEPT !.path = path \o @] : f \in fields}
\* A field that is an object or a list, and the fields of that.
Nested(path, T, fields) == {Field(path, T)} \union Beneath(path, fields)
ListOf(fields) == Nested(<<"each">>, list, fields)
Just(T) == {Field(<<>>, T)}

-----------------------------------------------------------------------------
SetVerificationKeyPermission == Fields({"auth", "txnVersion"}, unknown)

AccountPermissions ==
  Fields({"editState", "send", "receive", "access", "setDelegate", "setPermissions",
          "setZkappUri", "editActionState", "setTokenSymbol", "incrementNonce",
          "setVotingFor", "setTiming"}, maybe(unknown))
  \union Beneath(<<"setVerificationKey">>, SetVerificationKeyPermission)

AccountTiming(T) ==
  Fields({"initialMinimumBalance", "cliffTime", "cliffAmount", "vestingPeriod",
          "vestingIncrement"}, T)

AccountBalance ==
  Fields({"total"}, currency) \union Fields({"liquid", "locked"}, maybe(currency))
  \union Fields({"blockHeight"}, maybe(number))

AccountData ==
  Just({"{}", "throws"})
  \union Fields({"publicKey", "delegate", "tokenId"}, string) \union Fields({"nonce"}, number)
  \union Beneath(<<"balance">>, AccountBalance)
  \union Fields({"tokenSymbol"}, maybe(string))
  \union Fields({"votingFor", "receiptChainHash", "zkappUri"}, maybe(orNull(string)))
  \union Nested(<<"timing">>, maybe(orNull(object)), AccountTiming(string))
  \union Nested(<<"permissions">>, maybe(orNull(object)), AccountPermissions)
  \union Fields({"zkappState"}, maybe(orNull(list)))
  \union Fields({"provedState"}, maybe(orNull(boolean)))

PeerInfo == Fields({"peerId", "host"}, string) \union Fields({"port"}, number)

AddrsAndPorts ==
  Fields({"externalIp", "bindIp"}, string) \union Fields({"clientPort", "libp2pPort"}, number)
  \union Nested(<<"peer">>, maybe(object), PeerInfo)

ConsensusTime == Fields({"epoch", "slot", "globalSlot"}, number)
                   \union Fields({"startTime", "endTime"}, string)

DaemonStatus ==
  Fields({"syncStatus", "stateHash", "commitId"}, string)
  \union Fields({"blockchainLength", "highestBlockLengthReceived", "uptimeSecs",
                 "globalSlotSinceGenesisBestTip"}, maybe(number))
  \union Fields({"numAccounts", "highestUnvalidatedBlockLengthReceived"}, maybe(orNull(number)))
  \union Fields({"ledgerMerkleRoot", "chainId", "coinbaseReceiver"}, maybe(orNull(string)))
  \union Fields({"catchupStatus"}, maybe(orNull(list)))
  \union Fields({"blockProductionKeys"}, maybe(list))
  \union Nested(<<"peers">>, list, PeerInfo)
  \union Nested(<<"addrsAndPorts">>, maybe(object), AddrsAndPorts)
  \union Nested(<<"consensusTimeNow">>, maybe(object), ConsensusTime)

DaemonMetrics ==
  Fields({"blockProductionDelay"}, list)
  \union Fields({"transactionPoolDiffReceived", "transactionPoolDiffBroadcasted",
                 "transactionsAddedToPool", "transactionPoolSize", "snarkPoolDiffReceived",
                 "snarkPoolDiffBroadcasted", "pendingSnarkWork", "snarkPoolSize"}, number)

-----------------------------------------------------------------------------
(* Blocks.                                                                 *)

StakingEpochData == Fields({"epochLength"}, number)
                      \union Fields({"seed", "ledgerHash"}, maybe(string))
NextEpochData    == Fields({"seed", "ledgerHash"}, string)

FeeTransfer == Fields({"recipient", "fee", "type"}, string)

BlockTransaction ==
  Fields({"id", "hash", "kind", "nonce", "source", "receiver", "amount", "fee", "memo"}, string)
  \union Fields({"failureReason"}, orNull(string))

CompletedWork == Fields({"prover"}, string) \union Fields({"fee"}, currency)
                   \union Fields({"workIds"}, number)

ZkappFailure == Fields({"index"}, orNull(number)) \union Fields({"failures"}, list)

Interval == Fields({"lower", "upper"}, unknown)
Intervals(names) == UNION {Beneath(<<n>>, Interval) : n \in names}
EpochDataPrecondition ==
  Fields({"seed", "startCheckpoint", "lockCheckpoint"}, maybe(unknown))
  \union Intervals({"epochLength"})
  \union Beneath(<<"ledger">>, Fields({"hash"}, maybe(unknown)) \union Intervals({"totalCurrency"}))

AccountUpdate ==
  Beneath(<<"authorization">>, Fields({"signature", "proof"}, maybe(unknown)))
  \union Beneath(<<"body">>,
    Fields({"publicKey", "tokenId", "callDepth", "callData", "actions", "events",
            "incrementNonce", "useFullCommitment", "implicitAccountCreationFee"}, unknown)
    \union Beneath(<<"balanceChange">>, Fields({"magnitude", "sgn"}, unknown))
    \union Beneath(<<"mayUseToken">>, Fields({"parentsOwnToken", "inheritFromParent"}, unknown))
    \union Beneath(<<"authorizationKind">>,
             Fields({"isSigned", "isProved", "verificationKeyHash"}, unknown))
    \union Beneath(<<"update">>,
      Fields({"appState"}, unknown)
      \union Fields({"delegate", "zkappUri", "votingFor", "tokenSymbol"}, maybe(unknown))
      \union Beneath(<<"verificationKey">>, Fields({"hash", "data"}, unknown))
      \union Beneath(<<"timing">>, AccountTiming(unknown))
      \union Beneath(<<"permissions">>, AccountPermissions))
    \union Beneath(<<"preconditions">>,
      Intervals({"validWhile"})
      \union Beneath(<<"network">>,
        Fields({"snarkedLedgerHash"}, maybe(unknown))
        \union Intervals({"blockchainLength", "minWindowDensity", "totalCurrency",
                          "globalSlotSinceGenesis"})
        \union Beneath(<<"stakingEpochData">>, EpochDataPrecondition)
        \union Beneath(<<"nextEpochData">>, EpochDataPrecondition))
      \union Beneath(<<"account">>,
        Intervals({"balance", "nonce"}) \union Fields({"state"}, unknown)
        \union Fields({"receiptChainHash", "delegate", "actionState", "provedState", "isNew"},
                      maybe(unknown)))))

BlockZkappCommand ==
  Fields({"id", "hash"}, string)
  \union Nested(<<"failureReason">>, maybe(orNull(list)),
       Fields({"index"}, maybe(orNull(number))) \union Fields({"failures"}, list))
  \union Beneath(<<"zkappCommand">>,
       Fields({"memo"}, string)
       \union Beneath(<<"feePayer">>,
            Fields({"authorization"}, string)
            \union Beneath(<<"body">>, Fields({"publicKey", "fee", "nonce"}, string)
                                       \union Fields({"validUntil"}, maybe(orNull(string)))))
       \union Beneath(<<"accountUpdates">>, AccountUpdate))

BlockInfo ==
  Fields({"stateHash", "creatorPublicKey"}, string)
  \union Fields({"height", "globalSlotSinceHardFork", "globalSlotSinceGenesis",
                 "commandTransactionCount"}, number)
  \union Fields({"epoch"}, maybe(number))
  \union Fields({"previousStateHash", "blockCreator", "coinbaseReceiver", "date", "utcDate",
                 "snarkedLedgerHash", "stagedLedgerHash", "coinbase"}, maybe(string))
  \union Fields({"coinbaseReceiverAccount"}, maybe(orNull(string)))
  \union Nested(<<"stakingEpochData">>, maybe(object), StakingEpochData)
  \union Nested(<<"nextEpochData">>, maybe(object), NextEpochData)
  \union Nested(<<"feeTransfers">>, maybe(list), FeeTransfer)
  \union Nested(<<"userCommands">>, maybe(list), BlockTransaction)
  \union Nested(<<"zkappCommands">>, maybe(list), BlockZkappCommand)
  \union Nested(<<"snarkJobs">>, maybe(list), CompletedWork)

Block ==
  Just({"{}", "throws"})
  \union Fields({"stateHash", "previousStateHash", "creatorPublicKey", "blockCreator", "date",
                 "utcDate", "snarkedLedgerHash", "stagedLedgerHash", "coinbase"}, string)
  \union Fields({"commandTransactionCount", "blockHeight", "epoch", "slot", "slotSinceGenesis"},
                number)
  \union Fields({"coinbaseReceiverConsensus"}, maybe(string))
  \union Fields({"coinbaseReceiver"}, orNull(string))
  \union Nested(<<"feeTransfers">>, list, FeeTransfer)
  \union Nested(<<"userCommands">>, list, BlockTransaction)
  \union Nested(<<"zkappCommands">>, maybe(list), BlockZkappCommand)
  \union Nested(<<"snarkJobs">>, maybe(list), CompletedWork)
  \union Nested(<<"stakingEpochData">>, object, StakingEpochData)
  \union Nested(<<"nextEpochData">>, object, NextEpochData)

-----------------------------------------------------------------------------
(* Commands and the rest.                                                  *)

PooledUserCommand ==
  Fields({"id", "hash", "kind", "nonce", "amount", "fee", "from", "to"}, string)
  \union Fields({"validUntil", "failureReason"}, maybe(orNull(string)))
  \union Fields({"token", "feeToken", "source", "receiver", "memo"}, maybe(string))

SubmittedCommand ==
  Fields({"id", "hash"}, string) \union Fields({"nonce"}, number)
  \union Fields({"kind", "source", "receiver", "amount", "fee", "memo"}, maybe(string))

ZkappFeePayer == Fields({"publicKey"}, string) \union Fields({"fee"}, currency)
                   \union Fields({"nonce"}, number) \union Fields({"validUntil"}, orNull(number))

ZkappCommandResult ==
  Fields({"id", "hash", "memo"}, string) \union Beneath(<<"feePayer">>, ZkappFeePayer)
  \union Nested(<<"failureReason">>, orNull(list), ZkappFailure)

GenesisConstants == Fields({"genesisTimestamp", "coinbase", "accountCreationFee"}, string)
TrackedAccount   == Fields({"publicKey", "balance"}, string)

-----------------------------------------------------------------------------
(* The ITN client; what its auth refuses throws.                           *)

ItnAuth ==
  Just({"{}", "throws"})
  \union Fields({"serverUuid"}, string \union {"throws"})
  \union Fields({"signerSequenceNumber", "libp2pPort"}, number \union {"throws"})
  \union Fields({"peerId"}, orNull(string)) \union Fields({"isBlockProducer"}, boolean)

ItnLog ==
  Fields({"id"}, number) \union Fields({"timestamp", "message"}, string)
  \union Nested(<<"metadata">>, list, Fields({"item"}, string) \union Fields({"value"}, unknown))
  \union Fields({"process"}, orNull(string))

CreatedAccount  == Fields({"publicKey", "privateKey"}, string)
CreatedAccounts == Fields({"handle"}, string) \union Nested(<<"accounts">>, list, CreatedAccount)
=============================================================================
