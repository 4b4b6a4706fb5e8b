------------------------------ MODULE Requests ------------------------------
(***************************************************************************)
(* What each method sends: for each of its parameters, or the fields of    *)
(* its parameter object, the variable or the field of the input that it    *)
(* becomes.                                                                *)
(***************************************************************************)
EXTENDS Conversions

\* maxLength && maxLength > 0 ? maxLength : null
IfPositive == [v \in Values |-> IF v = "1" THEN v ELSE "null"]

Input(rules) == Inside(<<>>, <<"input">>, rules)

-----------------------------------------------------------------------------
(* The daemon client.                                                      *)

getAccount == Move("publicKey", "publicKey", Name, AsIs)
                \union Move("tokenId", "token", Optional(Text), NullIfFalsy)

getBestChain == Move("maxLength", "maxLength", Optional(Wire("1", {"0", "-1"})), IfPositive)

ofPublicKey == Move("publicKey", "publicKey", Optional(Text), NullIfFalsy)

getBlock == Move("stateHash", "stateHash", Optional(Text), Else("null"))
              \union Move("height", "height", Optional(Num), Else("null"))

getTransactionStatus == Take({"payment", "zkappTransaction"}, Optional(Text), Else("null"))

\* The fields that payments and delegations share; a nonce may be 0.
commandInput ==
  Move("sender", "from", Name, AsIs) \union Move("fee", "fee", Amount, Nanomina)
  \union Take({"memo"}, Optional(Text), IfTruthy(AsIs))
  \union Take({"nonce", "validUntil"}, Optional(Num), UnlessUndefined(String))

signature == Take({"signature"}, Nullable(Optional(Object)), Else("null"))

sendPayment == signature \union Input(commandInput
                 \union Move("receiver", "to", Name, AsIs)
                 \union Move("amount", "amount", Amount, Nanomina))

\* A plausible slip: a nonce is tested like a memo, so that 0 gets lost.
delegationByTruth == signature \union Input({r \in commandInput : r.from # <<"nonce">>}
                 \union Take({"nonce"}, Optional(Num), IfTruthy(String))
                 \union Move("delegateTo", "to", Name, AsIs))

sendDelegation == signature \union Input(commandInput
                    \union Move("delegateTo", "to", Name, AsIs))

sendZkapp == Input(Take({"zkappCommand"}, Unseen, AsIs))

unlockAccount == Input(Take({"publicKey"}, Name, AsIs) \union Take({"password"}, Text, AsIs))

setSnarkWorker == Move("publicKey", "input", Optional(Text), NullIfFalsy)

setSnarkWorkFee == Move("fee", "fee", Amount, Nanomina)

-----------------------------------------------------------------------------
(* The ITN client.                                                         *)

logIds(name) == Take({name}, Num, AsIs)

paymentsInput ==
  Take({"durationMin", "tps"}, Num, AsIs) \union Take({"memoPrefix"}, Text, AsIs)
  \union Take({"receiver"}, Name, AsIs)
  \union Take({"maxFee", "minFee", "amount"}, Amount, Nanomina)
  \union Take({"senders"}, Optional(List), Else("[]"))

zkappInput ==
  Take({"accountQueueSize", "durationMin", "tps", "numNewAccounts", "numZkappsToDeploy"}, Num, AsIs)
  \union Take({"maxCost", "noPrecondition"}, Flag, AsIs)
  \union Take({"memoPrefix"}, Text, AsIs)
  \union Take({"deploymentFee", "maxFee", "minFee", "initBalance", "maxNewZkappBalance",
               "minNewZkappBalance", "maxBalanceChange", "minBalanceChange"}, Amount, Nanomina)
  \union Take({"feePayers"}, Optional(List), Else("[]"))
  \union Take({"maxAccountUpdates"}, Optional(Num), Else("null"))
  \union Take({"nonDefaultToken"}, Optional(Flag), UnlessUndefined(AsIs))

handle == Take({"handle"}, Text, AsIs)

updateGating ==
  Input(Take({"addedPeers", "bannedPeers", "trustedPeers"}, Optional(List), Else("[]"))
        \union Take({"cleanAddedPeers", "isolate"}, Flag, AsIs))

stopDaemon == Take({"delaySeconds"}, Optional(Num), Else("null"))
                \union Take({"cleanConfig"}, Optional(Flag), Else("null"))

setZkappCommandLimit == Take({"limit"}, Nullable(Num), AsIs)

\* A plausible slip: the handle is not sent when it is omitted.
accountsWithoutHandle ==
  Input(Take({"feePayer"}, Name, AsIs) \union Take({"numAccounts"}, Num, AsIs)
        \union Take({"fee", "amount"}, Amount, Nanomina))
  \union Take({"handle"}, Optional(Text), AsIs)

createAccounts ==
  Input(Take({"feePayer"}, Name, AsIs) \union Take({"numAccounts"}, Num, AsIs)
        \union Take({"fee", "amount"}, Amount, Nanomina))
  \union Take({"handle"}, Optional(Text), Else("null"))
=============================================================================
