---------------------------- MODULE QueryBuilder ----------------------------
(***************************************************************************)
(* The chains of calls that build a statement: X.dao.eq(..).in(..).set(..) *)
(* (Dao, ConditionalDao, and CacheableDao where X is cached in Redis).     *)
(* The dao objects are shared; what a chain has built so far is in         *)
(* thread-local buffers common to all of them: the WHERE and FROM texts,   *)
(* the values bound to the places of the texts, and the id by which the    *)
(* cache is asked.  A chain ends with a statement, which takes the buffers *)
(* as they are and clears them, or it ends before: the cache has the       *)
(* answer, a call refuses, an argument cannot be computed.  A thread of    *)
(* the web server then goes on with other chains.                          *)
(***************************************************************************)
EXTENDS Naturals, Sequences

CONSTANTS Thread, MaxChain,  \* bound on the chains of a thread
          MaxCalls           \* bound on the building calls of a chain

ASSUME BoundsAssumption == MaxChain \in Nat /\ MaxCalls \in Nat

VARIABLES
  chain,     \* thread -> the number of its chain, whether it is being built,
             \*           the dao's class and the building calls made so far
  where,     \* thread -> the pieces of the WHERE text
  from,      \* thread -> the chains whose join or table the FROM text holds
  bindings,  \* thread -> the chains whose values are bound
  key,       \* thread -> the chain that set the id, or NoKey
  residue,   \* thread -> the ends that left their pieces in the buffers
  sent       \* thread -> the statement its last chain sent

buffers == <<where, from, bindings>>
vars == <<chain, where, from, bindings, key, residue, sent>>

(* A chain is known by its thread and its number there.                    *)
Chain == Thread \X (1..MaxChain)
Current(t) == <<t, chain[t].number>>
NoKey == <<>>

Kind == {"condition",  \* "and column op ?"
         "null",       \* "and column is null": restricts without a value
         "order",      \* ORDER BY, GROUP BY
         "limit",      \* "limit", "offset": binds a value, has no place for it
         "sql"}        \* or(new Expr(sql)): binds null, its text has no place
Piece == [chain : Chain, kind : Kind]
End == {"hit", "refused", "failed", "abandoned", "setByObject"}
Dao == {"ConditionalDao", "CacheableDao"}

(* What an UPDATE writes before the WHERE text: nothing (the statement is  *)
(* none), columns with a value for each place, or, set(Expr...) with a     *)
(* null, a place whose value it skips.                                     *)
SetText == {"none", "bound", "unbound"}

(* A statement: what it is made of, the chain that sent it and the calls   *)
(* of that chain, and what had been left in the buffers before.            *)
Statement(t, op, set) ==
  [op |-> op, set |-> set, where |-> where[t], from |-> from[t],
   bindings |-> bindings[t], chain |-> Current(t), calls |-> chain[t].calls,
   residue |-> residue[t]]

NoStatement == [op |-> "none"]

Init ==
  /\ chain = [t \in Thread |-> [number |-> 0, open |-> FALSE,
                                dao |-> "ConditionalDao", calls |-> 0]]
  /\ where = [t \in Thread |-> <<>>] /\ from = [t \in Thread |-> <<>>]
  /\ bindings = [t \in Thread |-> <<>>] /\ key = [t \in Thread |-> NoKey]
  /\ residue = [t \in Thread |-> {}]
  /\ sent = [t \in Thread |-> NoStatement]

(* X.dao: the object is there already, nothing is cleared.                 *)
Begin(t, d) ==
  /\ ~ chain[t].open /\ chain[t].number < MaxChain
  /\ chain' = [chain EXCEPT ![t] = [number |-> @.number + 1, open |-> TRUE,
                                    dao |-> d, calls |-> 0]]
  /\ sent' = [sent EXCEPT ![t] = NoStatement]
  /\ UNCHANGED <<where, from, bindings, key, residue>>

(***************************************************************************)
(* The building calls.                                                     *)
(***************************************************************************)
Building(t) == chain[t].open /\ chain[t].calls < MaxCalls
Called(t) == chain' = [chain EXCEPT ![t].calls = @ + 1]

AppendPiece(t, kind) ==
  where' = [where EXCEPT ![t] =
              Append(@, [chain |-> Current(t), kind |-> kind])]
Bind(t) == bindings' = [bindings EXCEPT ![t] = Append(@, Current(t))]

(* Wrong variant of And: a null value is not bound.                        *)
AndSkipsNull(t) ==
  /\ Building(t) /\ AppendPiece(t, "condition") /\ Called(t)
  /\ Bind(t) \/ UNCHANGED bindings
  /\ UNCHANGED <<from, key, residue, sent>>

(* and, and the calls made of it (eq, gt, in, partitionId, ...); a list of *)
(* values counts as one.                                                   *)
And(t) ==
  /\ Building(t) /\ AppendPiece(t, "condition") /\ Bind(t) /\ Called(t)
  /\ UNCHANGED <<from, key, residue, sent>>

(* or: every alternative, here a call of its own, has its value bound, the *)
(* one that is plain SQL too: its value is null and its text has no place. *)
Or(t, kind) ==
  /\ Building(t) /\ AppendPiece(t, kind) /\ Bind(t) /\ Called(t)
  /\ UNCHANGED <<from, key, residue, sent>>

IsNull(t) ==
  /\ Building(t) /\ AppendPiece(t, "null") /\ Called(t)
  /\ UNCHANGED <<from, bindings, key, residue, sent>>

OrderBy(t) ==
  /\ Building(t) /\ AppendPiece(t, "order") /\ Called(t)
  /\ UNCHANGED <<from, bindings, key, residue, sent>>

Limit(t) ==
  /\ Building(t) /\ AppendPiece(t, "limit") /\ Bind(t) /\ Called(t)
  /\ UNCHANGED <<from, key, residue, sent>>

Join(t) ==
  /\ Building(t) /\ Called(t)
  /\ from' = [from EXCEPT ![t] = Append(@, Current(t))]
  /\ UNCHANGED <<where, bindings, key, residue, sent>>

(* CacheableDao.id: the id is also kept for the cache.                     *)
IdOfCached(t) ==
  /\ Building(t) /\ chain[t].dao = "CacheableDao"
  /\ key' = [key EXCEPT ![t] = Current(t)]
  /\ AppendPiece(t, "condition") /\ Bind(t) /\ Called(t)
  /\ UNCHANGED <<from, residue, sent>>

(***************************************************************************)
(* The ends of a chain.                                                    *)
(***************************************************************************)
Close(t) == chain' = [chain EXCEPT ![t].open = FALSE]

(* Wrong variant of clear: the join stays.                                 *)
clearWhere(t) ==
  /\ where' = [where EXCEPT ![t] = <<>>]
  /\ bindings' = [bindings EXCEPT ![t] = <<>>]
  /\ residue' = [residue EXCEPT ![t] = {}]
  /\ UNCHANGED from

clear(t) ==
  /\ where' = [where EXCEPT ![t] = <<>>]
  /\ from' = [from EXCEPT ![t] = <<>>]
  /\ bindings' = [bindings EXCEPT ![t] = <<>>]
  /\ residue' = [residue EXCEPT ![t] = {}]

Leave(t, end) ==
  /\ chain[t].open /\ Close(t)
  /\ residue' = [residue EXCEPT ![t] = @ \union
                   (IF where[t] = <<>> /\ from[t] = <<>> THEN {} ELSE {end})]
  /\ UNCHANGED <<where, from, bindings, key, sent>>

(* getWhere: a chain without conditions is refused.                        *)
HasWhere(t) == where[t] # <<>>

(* A cached object is found by its id, and a chain that never set one is   *)
(* refused, unless an earlier chain of the thread did.                     *)
HasKey(t) == chain[t].dao = "CacheableDao" => key[t] # NoKey

(* The operations that end in a statement: the buffers are cleared before  *)
(* it is executed, so a statement that fails leaves nothing.  selectOne is *)
(* also the way of a CacheableDao whose cache has no answer; of its forms  *)
(* of set, only the one with pairs asks for the key.  set(Expr...) writes  *)
(* the place of every expression and binds the values that are not null.   *)
Send(t, op, set) ==
  /\ chain[t].open /\ HasWhere(t)
  /\ op \in {"selectOne", "remove"} => HasKey(t)
  /\ op = "set" <=> set # "none"
  /\ sent' = [sent EXCEPT ![t] = Statement(t, op, set)]
  /\ clear(t) /\ Close(t)
  /\ UNCHANGED key

(* CacheableDao.setByObject does not ask getWhere, and clears all but the  *)
(* FROM text.                                                              *)
SetCachedByObject(t) ==
  /\ chain[t].open /\ chain[t].dao = "CacheableDao" /\ key[t] # NoKey
  /\ sent' = [sent EXCEPT ![t] = Statement(t, "setByObject", "bound")]
  /\ where' = [where EXCEPT ![t] = <<>>]
  /\ bindings' = [bindings EXCEPT ![t] = <<>>]
  /\ residue' = [residue EXCEPT ![t] = IF from[t] = <<>> THEN {} ELSE {"setByObject"}]
  /\ Close(t)
  /\ UNCHANGED <<from, key>>

(* setByObject with nothing to set clears and sends nothing.               *)
SetNothing(t) ==
  /\ chain[t].open /\ chain[t].dao = "ConditionalDao" /\ HasWhere(t)
  /\ clear(t) /\ Close(t)
  /\ UNCHANGED <<key, sent>>

(* An operation that throws before it clears: no condition, no key, a list *)
(* of columns and values of odd length.                                    *)
Refuse(t) == Leave(t, "refused")

(* selectByPagination counts first, and clears after the count: a count    *)
(* that fails leaves the buffers as they are, the name of its own table in *)
(* a FROM text that was empty.                                             *)
CountFails(t) ==
  /\ chain[t].open /\ HasWhere(t) /\ Close(t)
  /\ from' = [from EXCEPT ![t] = IF @ = <<>> THEN <<Current(t)>> ELSE @]
  /\ residue' = [residue EXCEPT ![t] = @ \union {"failed"}]
  /\ UNCHANGED <<where, bindings, key, sent>>

(* CacheableDao.selectOne finds the object of the key in the cache.        *)
Hit(t) ==
  /\ chain[t].dao = "CacheableDao" /\ key[t] # NoKey
  /\ Leave(t, "hit")

(* An exception of the caller between two calls of the chain.              *)
Abandon(t) == Leave(t, "abandoned")

Next ==
  \E t \in Thread :
    \/ \E d \in Dao : Begin(t, d)
    \/ And(t) \/ IsNull(t) \/ OrderBy(t) \/ Limit(t) \/ Join(t) \/ IdOfCached(t)
    \/ \E kind \in {"condition", "sql"} : Or(t, kind)
    \/ \E op \in {"selectOne", "select", "set", "remove"}, set \in SetText :
         Send(t, op, set)
    \/ SetCachedByObject(t) \/ SetNothing(t) \/ Refuse(t) \/ CountFails(t)
    \/ Hit(t) \/ Abandon(t)

Spec == Init /\ [][Next]_vars
-----------------------------------------------------------------------------
Selects == {"selectOne", "select"}
Writes == {"set", "remove", "setByObject"}

Sent == [op : Selects \union Writes, set : SetText, where : Seq(Piece),
         from : Seq(Chain), bindings : Seq(Chain), chain : Chain,
         calls : 0..MaxCalls, residue : SUBSET End]

TypeOK ==
  /\ chain \in [Thread -> [number : 0..MaxChain, open : BOOLEAN, dao : Dao,
                           calls : 0..MaxCalls]]
  /\ \A t \in Thread : chain[t].open => chain[t].number # 0
  /\ where \in [Thread -> Seq(Piece)]
  /\ from \in [Thread -> Seq(Chain)]
  /\ bindings \in [Thread -> Seq(Chain)]
  /\ key \in [Thread -> Chain \union {NoKey}]
  /\ residue \in [Thread -> SUBSET End]
  /\ sent \in [Thread -> Sent \union {NoStatement}]

(* A statement is made of its own chain's calls, all of them and no others,*)
(* unless an earlier chain of the thread ended without clearing: the       *)
(* thread-local buffers outlive the chain and the request.                 *)
OwnPiecesOnly ==
  \A t \in Thread : sent[t] # NoStatement /\ sent[t].residue = {} =>
    LET s == sent[t]
    IN  /\ \A i \in DOMAIN s.where : s.where[i].chain = s.chain
        /\ \A i \in DOMAIN s.from : s.from[i] = s.chain
        /\ \A i \in DOMAIN s.bindings : s.bindings[i] = s.chain
        /\ Len(s.where) + Len(s.from) = s.calls

(* The values stand for the pieces of these kinds: one for each, in order, *)
(* given by the chain of the piece.                                        *)
ValuesAt(text, values, kinds) ==
  \E at \in [DOMAIN values -> DOMAIN text] :
    /\ \A i, j \in DOMAIN values : i < j => at[i] < at[j]
    /\ \A p \in DOMAIN text : text[p].kind \in kinds <=> \E i \in DOMAIN values : at[i] = p
    /\ \A i \in DOMAIN values : values[i] = text[at[i]].chain

(* The values of a statement stand at the places they were given for,      *)
(* whatever was left behind, unless its WHERE has a piece that binds a     *)
(* value and has no place for it (limit, offset, an or of plain SQL), or   *)
(* its SET a place without a value (set(Expr...) with a null).             *)
ValuesFitPlaces ==
  \A t \in Thread : sent[t] # NoStatement =>
    LET s == sent[t]
    IN  /\ s.set # "unbound"
        /\ \A i \in DOMAIN s.where : s.where[i].kind \notin {"limit", "sql"}
        => ValuesAt(s.where, s.bindings, {"condition"})

(* "You should have where conditions": an UPDATE or DELETE is restricted   *)
(* by a condition.  getWhere only looks at the length of the text, which   *)
(* ORDER BY or limit alone would satisfy, and CacheableDao.setByObject     *)
(* does not ask it.                                                        *)
WritesAreRestricted ==
  \A t \in Thread : sent[t] # NoStatement =>
    LET s == sent[t]
        kinds == {s.where[i].kind : i \in DOMAIN s.where}
    IN  s.op \in {"set", "remove"} /\ kinds \intersect {"order", "limit"} = {} =>
          kinds \intersect {"condition", "null", "sql"} # {}

(***************************************************************************)
(* What the buffers hold between two calls, from which the above follow.   *)
(***************************************************************************)
Own(t) ==
  /\ \A i \in DOMAIN where[t] : where[t][i].chain = Current(t)
  /\ \A i \in DOMAIN from[t] : from[t][i] = Current(t)
  /\ \A i \in DOMAIN bindings[t] : bindings[t][i] = Current(t)
  /\ Len(where[t]) + Len(from[t]) = chain[t].calls

(* A buffer with no residue holds what the open chain has built; a value   *)
(* never comes without a piece of text.                                    *)
BuffersInv ==
  \A t \in Thread :
    /\ residue[t] = {} /\ chain[t].open => Own(t)
    /\ residue[t] = {} /\ ~ chain[t].open => where[t] = <<>> /\ from[t] = <<>>
    /\ Len(bindings[t]) <= Len(where[t])

(* The statement that removes or sets has some WHERE text.                 *)
WhereInv ==
  \A t \in Thread : sent[t] # NoStatement /\ sent[t].op \in {"set", "remove"} =>
    sent[t].where # <<>>

IInv == TypeOK /\ BuffersInv /\ WhereInv /\ OwnPiecesOnly

(* The values bound are those of the conditions, limits and alternatives   *)
(* of the text, in order: in the buffers, and in the statement made of     *)
(* them.                                                                   *)
Binding == {"condition", "limit", "sql"}
FInv == \A t \in Thread :
  /\ ValuesAt(where[t], bindings[t], Binding)
  /\ sent[t] # NoStatement => ValuesAt(sent[t].where, sent[t].bindings, Binding)
=============================================================================
