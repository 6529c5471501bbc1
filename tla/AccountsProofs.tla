-------------------------- MODULE AccountsProofs --------------------------
(***************************************************************************)
(* Proofs about Accounts, for any requests, names, addresses, passwords    *)
(* and bounds: users stay unique, whoever was accepted can log in, tokens  *)
(* name users, and a conflict has a cause.                                 *)
(***************************************************************************)
EXTENDS Accounts, FiniteSetTheorems, TLAPS

Begun == {r \in Requests : pc[r] # "idle"}

Pending(r) == pc[r] \in {"begun", "saved"}

(* The shape of the state, with what bounds the counter. *)
TypeInv ==
  /\ TypeOK
  /\ userSeq <= Cardinality(Begun)
  /\ \A r \in Begun : user[r] \in User /\ began[r] \in Lives

(* Nothing is of a later life than this one, and what is pending is of this *)
(* one.                                                                     *)
LifeInv ==
  /\ \A r \in Begun : began[r].number <= restarts
  /\ \A t \in tokens : t.life.number <= restarts
  /\ \A r \in Requests : Pending(r) => began[r] = Life
  /\ storage # "memory" => memory = {}

(* IDs are not repeated in a life; the table has those of former lives. *)
IDInv ==
  /\ \A u \in memory : u.id <= userSeq
  /\ restarts = 0 => \A u \in table : u.id <= userSeq
  /\ \A r \in Requests : Pending(r) => user[r].id <= userSeq
  /\ \A r, q \in Requests :
       pc[r] = "begun" /\ pc[q] = "begun" /\ r # q => user[r].id # user[q].id
  /\ \A r \in Requests : pc[r] = "begun" =>
       /\ \A u \in memory : u.id # user[r].id
       /\ restarts = 0 => \A u \in table : u.id # user[r].id

(* Why AcceptedCanLogIn holds: who was accepted stays in storage that lasts. *)
SavedInv ==
  \A r \in Requests : pc[r] \in {"saved", "created"} /\ Lasting(began[r]) =>
    user[r] \in Kept(began[r])

(* Why r may have been answered 409. *)
Cause(r) ==
  \/ \E u \in Kept(began[r]) \ {user[r]} : Clash(u, user[r])
  \/ /\ began[r].storage = "postgres"
     /\ \/ /\ began[r].number > 0
           /\ \E u \in table : u.id = user[r].id
        \/ ~Fits(user[r])
        \/ r \in failed

Named(t) == \E u \in Kept(t.life) : u.id = t.id /\ u.name = t.name

Inv ==
  /\ TypeInv /\ LifeInv /\ IDInv
  /\ UniqueUsers /\ SavedInv /\ TokensNameUsers /\ ConflictMeansTaken

LEMMA Counts ==
  /\ Cardinality(Requests) \in Nat
  /\ IsFiniteSet(Begun) /\ Cardinality(Begun) \in Nat
  /\ Cardinality(Begun) <= Cardinality(Requests)
BY FiniteRequests, FS_CardinalityType, FS_Subset DEF Begun

LEMMA InitInv == Init => Inv
<1> SUFFICES ASSUME Init PROVE Inv
  OBVIOUS
<1>1. Begun = {} /\ memory = {} /\ table = {} /\ tokens = {}
  BY DEF Init, Begun
<1>2. TypeOK
  BY <1>1, Counts, Bounds DEF Init, TypeOK, Storages
<1>3. TypeInv
  BY <1>1, <1>2, FS_EmptySet DEF TypeInv, Init
<1>4. \A r \in Requests : pc[r] = "idle"
  BY DEF Init
<1>5. LifeInv /\ IDInv /\ UniqueUsers /\ SavedInv /\ TokensNameUsers
      /\ ConflictMeansTaken
  BY <1>1, <1>4 DEF LifeInv, IDInv, UniqueUsers, SavedInv, TokensNameUsers,
     ConflictMeansTaken, Pending
<1>6. QED
  BY <1>3, <1>5 DEF Inv

-----------------------------------------------------------------------------
(* What is stored stays stored, in a life.                                 *)

Grows ==
  /\ memory \subseteq memory' /\ table \subseteq table'
  /\ failed \subseteq failed'
  /\ UNCHANGED <<storage, restarts>>

LEMMA GrowingKept ==
  ASSUME Grows, NEW life
  PROVE  Kept(life) \subseteq Kept(life)' /\ (Lasting(life)' <=> Lasting(life))
BY DEF Grows, Kept, Lasting, Life

(* A request that the step leaves alone keeps its place in the invariants. *)
LEMMA GrowingOther ==
  ASSUME Grows, NEW r \in Requests,
         pc'[r] = pc[r], user'[r] = user[r], began'[r] = began[r]
  PROVE  /\ (/\ pc[r] \in {"saved", "created"} /\ Lasting(began[r])
               => user[r] \in Kept(began[r]))
            => (/\ pc[r] \in {"saved", "created"} /\ Lasting(began[r])
                  => user[r] \in Kept(began[r]))'
         /\ (pc[r] = "conflict" /\ Lasting(began[r]) => Cause(r))
            => (pc[r] = "conflict" /\ Lasting(began[r]) => Cause(r))'
<1> DEFINE life == began[r]
<1>1. life' = life
  OBVIOUS
<1>2. Kept(life) \subseteq Kept(life)' /\ (Lasting(life)' <=> Lasting(life))
  BY GrowingKept, <1>1 DEF Grows, Kept, Lasting, Life
<1>3. Cause(r) => Cause(r)'
  BY <1>2 DEF Cause, Grows, Clash
<1>4. QED
  BY <1>2, <1>3

LEMMA GrowingTokens ==
  ASSUME Grows, TokensNameUsers, tokens' = tokens
  PROVE  TokensNameUsers'
<1> SUFFICES ASSUME NEW t \in tokens, Lasting(t.life)'
             PROVE  Named(t)'
  BY DEF TokensNameUsers, Named
<1>1. Kept(t.life) \subseteq Kept(t.life)' /\ Lasting(t.life)
  BY GrowingKept
<1>2. Named(t)
  BY <1>1 DEF TokensNameUsers, Named
<1>3. QED
  BY <1>1, <1>2 DEF Named

-----------------------------------------------------------------------------
(* Begin.                                                                  *)

LEMMA BeginCounts ==
  ASSUME TypeInv, NEW r \in Requests, Begin(r)
  PROVE  /\ Begun' = Begun \cup {r}
         /\ userSeq' <= Cardinality(Begun')
         /\ userSeq' \in 1 .. Cardinality(Requests)
<1>1. pc \in [Requests -> {"idle", "begun", "saved", "conflict", "created",
                           "error", "lost"}]
  BY DEF TypeInv, TypeOK
<1>2. r \notin Begun /\ pc' = [pc EXCEPT ![r] = "begun"] /\ userSeq' = userSeq + 1
  BY DEF Begin, Begun
<1>3. Begun' = Begun \cup {r}
  BY <1>1, <1>2 DEF Begun
<1>4. Cardinality(Begun') = Cardinality(Begun) + 1
  BY <1>2, <1>3, Counts, FS_AddElement
<1>5. Begun' \subseteq Requests
  BY DEF Begun
<1>6. Cardinality(Begun') <= Cardinality(Requests)
  BY <1>5, FiniteRequests, FS_Subset
<1>7. userSeq \in Nat /\ userSeq <= Cardinality(Begun)
  BY Counts DEF TypeInv, TypeOK
<1>8. QED
  BY <1>2, <1>3, <1>4, <1>6, <1>7, Counts

(* What Begin makes of r. *)
LEMMA BeginEffect ==
  ASSUME TypeInv, NEW r \in Requests, Begin(r)
  PROVE  /\ user'[r] \in User /\ user'[r].id = userSeq + 1
         /\ user' = [user EXCEPT ![r] = user'[r]]
         /\ began' = [began EXCEPT ![r] = Life] /\ began'[r] = Life
         /\ Life \in Lives /\ Life' = Life
         /\ pc' = [pc EXCEPT ![r] = "begun"] /\ pc'[r] = "begun"
<1>1. PICK name \in Names, email \in Emails, password \in Passwords :
        user' = [user EXCEPT ![r] =
                  [id |-> NextID, name |-> name, email |-> email,
                   password |-> hashPassword(password)]]
  BY DEF Begin
<1> DEFINE new == [id |-> NextID, name |-> name, email |-> email,
                   password |-> hashPassword(password)]
<1>2. userSeq + 1 \in 1 .. Cardinality(Requests)
  BY BeginCounts DEF Begin
<1>3. new \in User /\ new.id = userSeq + 1
  BY <1>2 DEF User, NextID, hashPassword
<1> HIDE DEF new
<1>4. user' = [user EXCEPT ![r] = new]
  BY <1>1 DEF new
<1>5. DOMAIN user = Requests /\ DOMAIN began = Requests /\ DOMAIN pc = Requests
  BY DEF TypeInv, TypeOK
<1>6. user'[r] = new
  BY <1>4, <1>5
<1>7. Life \in Lives
  BY DEF Life, Lives, TypeInv, TypeOK
<1>8. Life' = Life
  BY DEF Begin, Life
<1>9. QED
  BY <1>3, <1>4, <1>5, <1>6, <1>7, <1>8 DEF Begin

LEMMA BeginType ==
  ASSUME TypeInv, NEW r \in Requests, Begin(r)
  PROVE  TypeInv'
<1>1. /\ user'[r] \in User
      /\ user' = [user EXCEPT ![r] = user'[r]]
      /\ began' = [began EXCEPT ![r] = Life] /\ Life \in Lives
      /\ pc' = [pc EXCEPT ![r] = "begun"]
  BY BeginEffect
<1>2. Begun' = Begun \cup {r} /\ userSeq' <= Cardinality(Begun')
      /\ userSeq' \in 1 .. Cardinality(Requests)
  BY BeginCounts
<1>3. user' \in [Requests -> User \cup {Nil}]
  BY <1>1 DEF TypeInv, TypeOK
<1>4. began' \in [Requests -> Lives \cup {Nil}]
  BY <1>1 DEF TypeInv, TypeOK
<1>5. pc' \in [Requests -> {"idle", "begun", "saved", "conflict", "created",
                            "error", "lost"}]
  BY <1>1 DEF TypeInv, TypeOK
<1>6. UNCHANGED <<storage, memory, table, tokens, restarts, failed>>
  BY DEF Begin
<1>7. userSeq' \in 0 .. Cardinality(Requests)
  BY <1>2, Counts
<1>8. User' = User /\ Lives' = Lives
  BY DEF User, Lives
<1>9. TypeOK'
  BY <1>3, <1>4, <1>5, <1>6, <1>7, <1>8 DEF TypeInv, TypeOK
<1>10. \A q \in Begun' : user'[q] \in User /\ began'[q] \in Lives
  <2> SUFFICES ASSUME NEW q \in Begun'
               PROVE  user'[q] \in User /\ began'[q] \in Lives
    OBVIOUS
  <2>1. CASE q = r
    BY <2>1, <1>1, BeginEffect
  <2>2. CASE q # r
    BY <2>2, <1>1, <1>2 DEF TypeInv, TypeOK, Begun
  <2>3. QED
    BY <2>1, <2>2
<1>11. QED
  BY <1>2, <1>8, <1>9, <1>10 DEF TypeInv

LEMMA BeginLife ==
  ASSUME TypeInv, LifeInv, NEW r \in Requests, Begin(r)
  PROVE  LifeInv'
<1>1. /\ began' = [began EXCEPT ![r] = Life] /\ began'[r] = Life
      /\ Life' = Life
      /\ pc' = [pc EXCEPT ![r] = "begun"]
      /\ Begun' = Begun \cup {r}
  BY BeginEffect, BeginCounts
<1>2. UNCHANGED <<storage, memory, tokens, restarts>>
  BY DEF Begin
<1>3. restarts \in Nat /\ Life.number = restarts
  BY Bounds DEF TypeInv, TypeOK, Life
<1>4. \A q \in Begun' : began'[q].number <= restarts
  <2> SUFFICES ASSUME NEW q \in Begun' PROVE began'[q].number <= restarts
    OBVIOUS
  <2>1. CASE q = r
    BY <2>1, <1>1, <1>3
  <2>2. CASE q # r
    BY <2>2, <1>1 DEF LifeInv, TypeInv, TypeOK, Begun
  <2>3. QED
    BY <2>1, <2>2
<1>5. \A q \in Requests : Pending(q)' => began'[q] = Life'
  BY <1>1 DEF LifeInv, Pending, TypeInv, TypeOK
<1>6. QED
  BY <1>2, <1>4, <1>5 DEF LifeInv

LEMMA BeginID ==
  ASSUME TypeInv, LifeInv, IDInv, NEW r \in Requests, Begin(r)
  PROVE  IDInv'
<1>1. /\ user'[r].id = userSeq + 1 /\ userSeq' = userSeq + 1
      /\ \A q \in Requests \ {r} : user'[q] = user[q] /\ pc'[q] = pc[q]
      /\ pc'[r] = "begun"
  BY BeginEffect DEF Begin, TypeInv, TypeOK
<1>2. UNCHANGED <<memory, table, restarts>>
  BY DEF Begin
<1>3. userSeq \in Nat
  BY Counts DEF TypeInv, TypeOK
<1>4. \A u \in memory \cup table : u.id \in Nat
  BY Counts DEF TypeInv, TypeOK, User
<1>5. \A q \in Requests : pc[q] # "idle" => user[q].id \in Nat
  BY Counts DEF TypeInv, Begun, User
<1>6. \A u \in memory : u.id <= userSeq'
  BY <1>1, <1>3, <1>4 DEF IDInv
<1>7. restarts = 0 => \A u \in table : u.id <= userSeq'
  BY <1>1, <1>3, <1>4 DEF IDInv
<1>8. \A q \in Requests : Pending(q)' => user'[q].id <= userSeq'
  BY <1>1, <1>3, <1>5 DEF IDInv, Pending
<1>9. \A q \in Requests : pc[q] = "begun" => user[q].id # userSeq + 1
  BY <1>3, <1>5 DEF IDInv, Pending
<1>10. \A p, q \in Requests : pc'[p] = "begun" /\ pc'[q] = "begun" /\ p # q
         => user'[p].id # user'[q].id
  BY <1>1, <1>9 DEF IDInv
<1>11. \A q \in Requests : pc'[q] = "begun" =>
         /\ \A u \in memory : u.id # user'[q].id
         /\ restarts = 0 => \A u \in table : u.id # user'[q].id
  <2> SUFFICES ASSUME NEW q \in Requests, pc'[q] = "begun"
               PROVE  /\ \A u \in memory : u.id # user'[q].id
                      /\ restarts = 0 => \A u \in table : u.id # user'[q].id
    OBVIOUS
  <2>1. CASE q = r
    BY <2>1, <1>1, <1>3, <1>4 DEF IDInv
  <2>2. CASE q # r
    BY <2>2, <1>1 DEF IDInv
  <2>3. QED
    BY <2>1, <2>2
<1>12. QED
  BY <1>2, <1>6, <1>7, <1>8, <1>10, <1>11 DEF IDInv

LEMMA BeginStep ==
  ASSUME Inv, NEW r \in Requests, Begin(r)
  PROVE  Inv'
<1>1. TypeInv' /\ LifeInv' /\ IDInv'
  BY BeginType, BeginLife, BeginID DEF Inv
<1>2. Grows
  BY DEF Begin, Grows
<1>3. /\ pc'[r] = "begun"
      /\ \A q \in Requests \ {r} :
           user'[q] = user[q] /\ pc'[q] = pc[q] /\ began'[q] = began[q]
  BY BeginEffect DEF Inv, TypeInv, TypeOK
<1>4. SavedInv'
  BY <1>2, <1>3, GrowingOther DEF Inv, SavedInv
<1>5. ConflictMeansTaken'
  BY <1>2, <1>3, GrowingOther DEF Inv, ConflictMeansTaken, Cause
<1>6. UniqueUsers'
  BY DEF Begin, Inv, UniqueUsers
<1>7. TokensNameUsers'
  BY <1>2, GrowingTokens DEF Begin, Inv
<1>8. QED
  BY <1>1, <1>4, <1>5, <1>6, <1>7 DEF Inv

-----------------------------------------------------------------------------
(* Save.                                                                   *)

(* What the three ways of saving have in common. *)
Saving(r, to) ==
  /\ pc[r] = "begun" /\ pc' = [pc EXCEPT ![r] = to]
  /\ UNCHANGED <<storage, userSeq, user, began, tokens, restarts>>
  /\ failed \subseteq failed' /\ failed' \subseteq Requests
  /\ \/ memory' = memory
     \/ /\ storage = "memory" /\ ~Taken(user[r], memory)
        /\ memory' = memory \cup {user[r]}
  /\ \/ table' = table
     \/ ~Violates(user[r], table) /\ table' = table \cup {user[r]}

LEMMA SavingPlaces ==
  ASSUME TypeInv, NEW r \in Requests, NEW to \in {"saved", "conflict"},
         Saving(r, to)
  PROVE  /\ r \in Begun /\ Begun' = Begun /\ user[r] \in User
         /\ pc'[r] = to
         /\ \A q \in Requests \ {r} : pc'[q] = pc[q]
         /\ pc' \in [Requests -> {"idle", "begun", "saved", "conflict",
                                  "created", "error", "lost"}]
BY DEF Saving, TypeInv, TypeOK, Begun

LEMMA SavingType ==
  ASSUME TypeInv, NEW r \in Requests, NEW to \in {"saved", "conflict"},
         Saving(r, to)
  PROVE  TypeInv'
<1>1. Begun' = Begun /\ user[r] \in User
      /\ pc' \in [Requests -> {"idle", "begun", "saved", "conflict",
                               "created", "error", "lost"}]
  BY SavingPlaces
<1>2. memory' \subseteq User /\ table' \subseteq User
  BY <1>1 DEF Saving, TypeInv, TypeOK
<1>3. User' = User /\ Lives' = Lives
  BY DEF User, Lives
<1>4. UNCHANGED <<storage, userSeq, user, began, tokens, restarts>>
      /\ failed' \subseteq Requests
  BY DEF Saving
<1>5. QED
  BY <1>1, <1>2, <1>3, <1>4 DEF TypeInv, TypeOK

LEMMA SavingLife ==
  ASSUME TypeInv, LifeInv, NEW r \in Requests, NEW to \in {"saved", "conflict"},
         Saving(r, to)
  PROVE  LifeInv'
<1>1. /\ Begun' = Begun /\ pc'[r] = to
      /\ \A q \in Requests \ {r} : pc'[q] = pc[q]
  BY SavingPlaces
<1>2. UNCHANGED <<storage, began, tokens, restarts>> /\ Life' = Life
      /\ pc[r] = "begun"
  BY DEF Saving, Life
<1>3. \A q \in Requests : Pending(q)' => Pending(q)
  BY <1>1, <1>2 DEF Pending
<1>4. storage # "memory" => memory' = {}
  BY DEF Saving, LifeInv
<1>5. QED
  BY <1>1, <1>2, <1>3, <1>4 DEF LifeInv

LEMMA SavingID ==
  ASSUME TypeInv, IDInv, NEW r \in Requests, NEW to \in {"saved", "conflict"},
         Saving(r, to)
  PROVE  IDInv'
<1>1. /\ pc'[r] = to
      /\ \A q \in Requests \ {r} : pc'[q] = pc[q]
  BY SavingPlaces
<1>2. UNCHANGED <<userSeq, user, restarts>> /\ pc[r] = "begun"
      /\ memory' \subseteq memory \cup {user[r]}
      /\ table' \subseteq table \cup {user[r]}
  BY DEF Saving
<1>3. user[r].id <= userSeq
  BY <1>2 DEF IDInv, Pending
<1>4. \A u \in memory' : u.id <= userSeq
  BY <1>2, <1>3 DEF IDInv
<1>5. restarts = 0 => \A u \in table' : u.id <= userSeq
  BY <1>2, <1>3 DEF IDInv
<1>6. \A q \in Requests : Pending(q)' => user[q].id <= userSeq
  BY <1>1, <1>2 DEF IDInv, Pending
<1>7. \A q \in Requests : pc'[q] = "begun" =>
        q # r /\ pc[q] = "begun" /\ user[q].id # user[r].id
  BY <1>1, <1>2 DEF IDInv
<1>8. \A p, q \in Requests : pc'[p] = "begun" /\ pc'[q] = "begun" /\ p # q
        => user[p].id # user[q].id
  BY <1>7 DEF IDInv
<1>9. \A q \in Requests : pc'[q] = "begun" =>
        /\ \A u \in memory' : u.id # user[q].id
        /\ restarts = 0 => \A u \in table' : u.id # user[q].id
  BY <1>2, <1>7 DEF IDInv
<1>10. QED
  BY <1>2, <1>4, <1>5, <1>6, <1>8, <1>9 DEF IDInv

(* Only the in-memory repository needs the IDs of a life to differ: the     *)
(* table tests them.                                                        *)
LEMMA SavingUnique ==
  ASSUME IDInv, UniqueUsers, NEW r \in Requests,
         NEW to \in {"saved", "conflict"}, Saving(r, to)
  PROVE  UniqueUsers'
<1> DEFINE One(users) == \A u, v \in users :
             u.id = v.id \/ u.name = v.name \/ u.email = v.email => u = v
<1>1. One(memory) /\ One(table)
  BY DEF UniqueUsers
<1>2. \A u \in memory : u.id # user[r].id
  BY DEF Saving, IDInv
<1>3. One(memory')
  BY <1>1, <1>2 DEF Saving, Taken, Clash
<1>4. One(table')
  BY <1>1 DEF Saving, Violates, Taken, Clash
<1>5. QED
  BY <1>3, <1>4 DEF UniqueUsers

LEMMA SavingStep ==
  ASSUME Inv, NEW r \in Requests, NEW to \in {"saved", "conflict"},
         Saving(r, to),
         to = "saved" => (user[r] \in Kept(began[r]))',
         to = "conflict" => Cause(r)'
  PROVE  Inv'
<1>1. TypeInv' /\ LifeInv' /\ IDInv' /\ UniqueUsers'
  BY SavingType, SavingLife, SavingID, SavingUnique DEF Inv
<1>2. Grows
  BY DEF Saving, Grows
<1>3. UNCHANGED <<user, began, tokens>>
  BY DEF Saving
<1>4. /\ pc'[r] = to
      /\ \A q \in Requests \ {r} : pc'[q] = pc[q]
  BY SavingPlaces DEF Inv
<1>5. SavedInv'
  BY <1>2, <1>3, <1>4, GrowingOther DEF Inv, SavedInv
<1>6. ConflictMeansTaken'
  BY <1>2, <1>3, <1>4, GrowingOther DEF Inv, ConflictMeansTaken, Cause
<1>7. TokensNameUsers'
  BY <1>2, <1>3, GrowingTokens DEF Inv
<1>8. QED
  BY <1>1, <1>5, <1>6, <1>7 DEF Inv

LEMMA SaveInMemoryStep ==
  ASSUME Inv, NEW r \in Requests, SaveInMemory(r)
  PROVE  Inv'
<1> DEFINE to == IF Taken(user[r], memory) THEN "conflict" ELSE "saved"
<1>1. /\ pc[r] = "begun" /\ storage = "memory"
      /\ memory' = IF Taken(user[r], memory) THEN memory
                   ELSE memory \cup {user[r]}
      /\ pc' = [pc EXCEPT ![r] = to]
      /\ UNCHANGED <<storage, userSeq, table, user, began, tokens, restarts,
                     failed>>
  BY DEF SaveInMemory, AfterSave, Insert
<1>2. to \in {"saved", "conflict"}
  OBVIOUS
<1>3. failed \subseteq Requests
  BY DEF Inv, TypeInv, TypeOK
<1>4. Saving(r, to)
  BY <1>1, <1>3 DEF Saving
<1>5. began[r] = Life /\ Life.storage = "memory"
  BY <1>1 DEF Inv, LifeInv, Pending, Life
<1>6. Kept(began[r])' = memory'
  BY <1>1, <1>5 DEF Kept, Life
<1>7. to = "saved" => (user[r] \in Kept(began[r]))'
  BY <1>1, <1>6
<1>8. to = "conflict" => Cause(r)'
  <2> SUFFICES ASSUME Taken(user[r], memory) PROVE Cause(r)'
    OBVIOUS
  <2>1. PICK u \in memory : Clash(u, user[r])
    BY DEF Taken, Clash
  <2>2. u # user[r]
    BY <1>1 DEF Inv, IDInv
  <2>3. u \in Kept(began[r])'
    BY <1>1, <1>6
  <2>4. QED
    BY <1>1, <2>1, <2>2, <2>3 DEF Cause, Clash
<1> HIDE DEF to
<1>9. QED
  BY <1>2, <1>4, <1>7, <1>8, SavingStep

(* Why the table refuses the user of a pending registration. *)
LEMMA Refused ==
  ASSUME Inv, NEW r \in Requests, pc[r] = "begun", storage = "postgres",
         Violates(user[r], table)
  PROVE  Cause(r)
<1>1. began[r] = Life /\ Life.storage = "postgres" /\ Life.number = restarts
  BY DEF Inv, LifeInv, Pending, Life
<1>2. Kept(began[r]) = table
  BY <1>1 DEF Kept
<1>3. restarts \in Nat
  BY Bounds DEF Inv, TypeInv, TypeOK
<1>4. (\E u \in table : u.id = user[r].id) => restarts > 0
  BY <1>3 DEF Inv, IDInv
<1>5. CASE \E u \in table : u.id = user[r].id
  BY <1>1, <1>4, <1>5 DEF Cause
<1>6. CASE /\ Taken(user[r], table)
           /\ ~\E u \in table : u.id = user[r].id
  BY <1>2, <1>6 DEF Taken, Cause, Clash
<1>7. CASE ~Fits(user[r])
  BY <1>1, <1>7 DEF Cause
<1>8. QED
  BY <1>5, <1>6, <1>7 DEF Violates

LEMMA SaveInPostgresStep ==
  ASSUME Inv, NEW r \in Requests, SaveInPostgres(r)
  PROVE  Inv'
<1> DEFINE to == IF Violates(user[r], table) THEN "conflict" ELSE "saved"
<1>1. /\ pc[r] = "begun" /\ storage = "postgres"
      /\ table' = IF Violates(user[r], table) THEN table
                  ELSE table \cup {user[r]}
      /\ pc' = [pc EXCEPT ![r] = to]
      /\ UNCHANGED <<storage, userSeq, memory, user, began, tokens, restarts,
                     failed>>
  BY DEF SaveInPostgres, AfterSave, Insert
<1>2. to \in {"saved", "conflict"}
  OBVIOUS
<1>3. failed \subseteq Requests
  BY DEF Inv, TypeInv, TypeOK
<1>4. Saving(r, to)
  BY <1>1, <1>3 DEF Saving
<1>5. began[r] = Life /\ Life.storage = "postgres"
  BY <1>1 DEF Inv, LifeInv, Pending, Life
<1>6. to = "saved" => (user[r] \in Kept(began[r]))'
  BY <1>1, <1>5 DEF Kept
<1>7. to = "conflict" => Cause(r)'
  <2> SUFFICES ASSUME Violates(user[r], table) PROVE Cause(r)'
    OBVIOUS
  <2>1. Cause(r)
    BY <1>1, Refused
  <2>2. UNCHANGED <<memory, table, failed, user, began, storage, restarts>>
    BY <1>1
  <2>3. QED
    BY <2>1, <2>2 DEF Cause, Kept, Life, Clash
<1> HIDE DEF to
<1>8. QED
  BY <1>2, <1>4, <1>6, <1>7, SavingStep

LEMMA SaveFailsStep ==
  ASSUME Inv, NEW r \in Requests, SaveFails(r)
  PROVE  Inv'
<1>1. /\ pc[r] = "begun" /\ storage = "postgres"
      /\ table' \in {table, IF Violates(user[r], table) THEN table
                            ELSE table \cup {user[r]}}
      /\ pc' = [pc EXCEPT ![r] = "conflict"]
      /\ failed' = failed \cup {r}
      /\ UNCHANGED <<storage, userSeq, memory, user, began, tokens, restarts>>
  BY DEF SaveFails, AfterSave, Insert
<1>2. failed \subseteq Requests
  BY DEF Inv, TypeInv, TypeOK
<1>3. Saving(r, "conflict")
  BY <1>1, <1>2 DEF Saving
<1>4. began[r].storage = "postgres"
  BY <1>1 DEF Inv, LifeInv, Pending, Life
<1>5. Cause(r)'
  BY <1>1, <1>4 DEF Cause
<1>6. QED
  BY <1>3, <1>5, SavingStep

-----------------------------------------------------------------------------
(* Answer and Login.                                                       *)

LEMMA AnswerStep ==
  ASSUME Inv, NEW r \in Requests, Answer(r)
  PROVE  Inv'
<1> DEFINE token == GenerateToken(user[r])
<1>1. /\ pc[r] = "saved"
      /\ \/ tokens' = tokens \cup {token} /\ pc' = [pc EXCEPT ![r] = "created"]
         \/ tokens' = tokens /\ pc' = [pc EXCEPT ![r] = "error"]
      /\ UNCHANGED <<storage, userSeq, memory, table, user, began, restarts,
                     failed>>
  BY DEF Answer
<1>2. /\ pc'[r] \in {"created", "error"}
      /\ \A q \in Requests \ {r} : pc'[q] = pc[q]
      /\ pc' \in [Requests -> {"idle", "begun", "saved", "conflict", "created",
                               "error", "lost"}]
      /\ tokens' \subseteq tokens \cup {token}
  BY <1>1 DEF Inv, TypeInv, TypeOK
<1>3. r \in Begun /\ Begun' = Begun
  BY <1>1, <1>2 DEF Begun
<1>4. user[r] \in User /\ began[r] = Life /\ Life \in Lives
  BY <1>1, <1>3 DEF Inv, TypeInv, LifeInv, Pending
<1>5. /\ token.id = user[r].id /\ token.name = user[r].name
      /\ token.life = Life
      /\ token \in [id : 1 .. Cardinality(Requests), name : Names, life : Lives]
  BY <1>4 DEF GenerateToken, User
<1> HIDE DEF token
<1>6. User' = User /\ Lives' = Lives /\ Life' = Life
  BY <1>1 DEF User, Lives, Life
<1>7. TypeOK'
  BY <1>1, <1>2, <1>5, <1>6 DEF Inv, TypeInv, TypeOK
<1>8. TypeInv'
  BY <1>1, <1>3, <1>6, <1>7 DEF Inv, TypeInv
<1>9. \A q \in Requests : Pending(q)' => Pending(q)
  BY <1>2 DEF Pending
<1>10. restarts \in Nat /\ token.life.number <= restarts
  BY <1>5, Bounds DEF Inv, TypeInv, TypeOK, Life
<1>11. LifeInv'
  BY <1>1, <1>2, <1>3, <1>6, <1>9, <1>10 DEF Inv, LifeInv
<1>12. \A q \in Requests : pc'[q] = "begun" => pc[q] = "begun"
  BY <1>2
<1>13. IDInv'
  BY <1>1, <1>9, <1>12 DEF Inv, IDInv
<1>14. UniqueUsers'
  BY <1>1 DEF Inv, UniqueUsers
<1>16. SavedInv'
  BY <1>1, <1>2, <1>6 DEF Inv, SavedInv, Kept, Lasting
<1>17. ConflictMeansTaken'
  BY <1>1, <1>2, <1>6 DEF Inv, ConflictMeansTaken, Kept, Lasting, Clash
<1>18. TokensNameUsers'
  <2> SUFFICES ASSUME NEW t \in tokens', Lasting(t.life)'
               PROVE  Named(t)'
    BY DEF TokensNameUsers, Named
  <2>1. Lasting(t.life)
    BY <1>6 DEF Lasting
  <2>2. Named(t)
    <3>1. CASE t \in tokens
      BY <2>1, <3>1 DEF Inv, TokensNameUsers, Named
    <3>2. CASE t = token
      BY <1>1, <1>4, <1>5, <2>1, <3>2 DEF Inv, SavedInv, Named
    <3>3. QED
      BY <1>2, <3>1, <3>2
  <2>3. Kept(t.life)' = Kept(t.life)
    BY <1>1, <1>6 DEF Kept
  <2>4. QED
    BY <2>2, <2>3 DEF Named
<1>19. QED
  BY <1>8, <1>11, <1>13, <1>14, <1>16, <1>17, <1>18 DEF Inv

LEMMA LoginStep ==
  ASSUME Inv, NEW name \in Names, NEW password \in Passwords,
         Login(name, password)
  PROVE  Inv'
<1>1. PICK u \in Users :
        /\ tokens' = tokens \cup {GenerateToken(u)}
        /\ UNCHANGED <<storage, userSeq, memory, table, pc, user, began,
                       restarts, failed>>
  BY DEF Login, requests
<1> DEFINE token == GenerateToken(u)
<1>2. Users \subseteq User /\ Users = Kept(Life)
  <2>1. memory \subseteq User /\ table \subseteq User /\ storage \in Storages
    BY DEF Inv, TypeInv, TypeOK
  <2>2. CASE storage = "memory"
    BY <2>1, <2>2 DEF Users, Kept, Life
  <2>3. CASE storage = "postgres"
    BY <2>1, <2>3 DEF Users, Kept, Life
  <2>4. QED
    BY <2>1, <2>2, <2>3 DEF Storages
<1>3. Life \in Lives
  BY DEF Inv, TypeInv, TypeOK, Life, Lives
<1>4. /\ token.id = u.id /\ token.name = u.name /\ token.life = Life
      /\ token \in [id : 1 .. Cardinality(Requests), name : Names, life : Lives]
  BY <1>2, <1>3 DEF GenerateToken, User
<1>5. tokens' = tokens \cup {token}
  BY <1>1
<1> HIDE DEF token
<1>6. User' = User /\ Lives' = Lives /\ Life' = Life /\ Begun' = Begun
  BY <1>1 DEF User, Lives, Life, Begun
<1>7. TypeOK'
  BY <1>1, <1>4, <1>5, <1>6 DEF Inv, TypeInv, TypeOK
<1>8. TypeInv'
  BY <1>1, <1>6, <1>7 DEF Inv, TypeInv
<1>9. restarts \in Nat /\ token.life.number <= restarts
  BY <1>4, Bounds DEF Inv, TypeInv, TypeOK, Life
<1>10. LifeInv'
  BY <1>1, <1>5, <1>6, <1>9 DEF Inv, LifeInv, Pending
<1>11. IDInv'
  BY <1>1 DEF Inv, IDInv, Pending
<1>12. UniqueUsers'
  BY <1>1 DEF Inv, UniqueUsers
<1>13. SavedInv'
  BY <1>1, <1>6 DEF Inv, SavedInv, Kept, Lasting
<1>14. ConflictMeansTaken'
  BY <1>1, <1>6 DEF Inv, ConflictMeansTaken, Kept, Lasting, Clash
<1>15. TokensNameUsers'
  <2> SUFFICES ASSUME NEW t \in tokens', Lasting(t.life)'
               PROVE  Named(t)'
    BY DEF TokensNameUsers, Named
  <2>1. Lasting(t.life)
    BY <1>6, <1>1 DEF Lasting
  <2>2. Named(t)
    <3>1. CASE t \in tokens
      BY <2>1, <3>1 DEF Inv, TokensNameUsers, Named
    <3>2. CASE t = token
      BY <1>2, <1>4, <3>2 DEF Named
    <3>3. QED
      BY <1>5, <3>1, <3>2
  <2>3. Kept(t.life)' = Kept(t.life)
    BY <1>1, <1>6 DEF Kept
  <2>4. QED
    BY <2>2, <2>3 DEF Named
<1>16. QED
  BY <1>8, <1>10, <1>11, <1>12, <1>13, <1>14, <1>15 DEF Inv

-----------------------------------------------------------------------------
(* A restart: a life that kept its users in memory no longer lasts.        *)

LEMMA RestartStep ==
  ASSUME Inv, Restart
  PROVE  Inv'
<1>1. /\ restarts \in Nat /\ restarts < MaxRestarts /\ restarts' = restarts + 1
      /\ storage' \in Storages /\ userSeq' = 0 /\ memory' = {}
      /\ pc' = [r \in Requests |->
                  IF pc[r] \in {"begun", "saved"} THEN "lost" ELSE pc[r]]
      /\ UNCHANGED <<table, user, began, tokens, failed>>
  BY Bounds DEF Restart, Inv, TypeInv, TypeOK
<1>2. /\ \A r \in Requests : ~Pending(r)'
      /\ \A r \in Requests : pc'[r] \in {"created", "conflict"} => pc'[r] = pc[r]
      /\ pc' \in [Requests -> {"idle", "begun", "saved", "conflict", "created",
                               "error", "lost"}]
      /\ Begun' = Begun
  BY <1>1 DEF Pending, Begun, Inv, TypeInv, TypeOK
<1>3. User' = User /\ Lives' = Lives
  BY DEF User, Lives
<1>4. restarts' \in 0 .. MaxRestarts /\ userSeq' \in 0 .. Cardinality(Requests)
  BY <1>1, Bounds, Counts
<1>5. TypeOK'
  BY <1>1, <1>2, <1>3, <1>4 DEF Inv, TypeInv, TypeOK
<1>6. TypeInv'
  BY <1>1, <1>2, <1>3, <1>5, Counts DEF Inv, TypeInv
<1>7. \A r \in Begun : began[r].number \in Nat /\ began[r].number <= restarts
  BY Bounds DEF Inv, TypeInv, LifeInv, Lives
<1>8. \A t \in tokens : t.life.number \in Nat /\ t.life.number <= restarts
  BY Bounds DEF Inv, TypeInv, TypeOK, LifeInv, Lives
<1>9. LifeInv'
  BY <1>1, <1>2, <1>7, <1>8 DEF LifeInv
<1>10. IDInv'
  BY <1>1, <1>2 DEF IDInv, Pending
<1>11. UniqueUsers'
  BY <1>1 DEF Inv, UniqueUsers
<1>12. Life'.number = restarts + 1
  BY <1>1 DEF Life
<1>13. \A r \in Begun : Lasting(began[r])' =>
         Lasting(began[r]) /\ began[r].storage = "postgres"
  BY <1>1, <1>7, <1>12 DEF Lasting
<1>14. \A t \in tokens : Lasting(t.life)' =>
         Lasting(t.life) /\ t.life.storage = "postgres"
  <2> SUFFICES ASSUME NEW t \in tokens, Lasting(t.life)'
               PROVE  t.life.storage = "postgres"
    BY DEF Lasting
  <2>1. t.life # Life'
    BY <1>1, <1>8, <1>12
  <2>2. QED
    BY <2>1 DEF Lasting
<1>15. SavedInv'
  BY <1>1, <1>2, <1>13 DEF Inv, SavedInv, Kept, Begun
<1>16. ConflictMeansTaken'
  BY <1>1, <1>2, <1>13 DEF Inv, ConflictMeansTaken, Kept, Begun, Clash
<1>17. TokensNameUsers'
  BY <1>1, <1>14 DEF Inv, TokensNameUsers, Kept
<1>18. QED
  BY <1>6, <1>9, <1>10, <1>11, <1>15, <1>16, <1>17 DEF Inv

LEMMA StutterStep ==
  ASSUME Inv, UNCHANGED vars
  PROVE  Inv'
<1>1. UNCHANGED <<storage, userSeq, memory, table, pc, user, began, tokens,
                  restarts, failed>>
  BY DEF vars, requests
<1>2. TypeInv' /\ LifeInv' /\ IDInv'
  BY <1>1 DEF Inv, TypeInv, TypeOK, User, Lives, Begun, LifeInv, Pending, Life,
     IDInv
<1>3. UniqueUsers' /\ SavedInv' /\ TokensNameUsers' /\ ConflictMeansTaken'
  BY <1>1 DEF Inv, UniqueUsers, SavedInv, TokensNameUsers, ConflictMeansTaken,
     Kept, Lasting, Life, Clash
<1>4. QED
  BY <1>2, <1>3 DEF Inv

LEMMA NextStep == Inv /\ [Next]_vars => Inv'
<1> SUFFICES ASSUME Inv, [Next]_vars PROVE Inv'
  OBVIOUS
<1>1. ASSUME NEW r \in Requests, Register(r) PROVE Inv'
  BY <1>1, BeginStep, SaveInMemoryStep, SaveInPostgresStep, SaveFailsStep,
     AnswerStep DEF Register
<1>2. ASSUME NEW name \in Names, NEW password \in Passwords,
             Login(name, password)
      PROVE  Inv'
  BY <1>2, LoginStep
<1>3. QED
  BY <1>1, <1>2, RestartStep, StutterStep DEF Next

-----------------------------------------------------------------------------
(* However registrations, logins, failing calls and restarts interleave,   *)
(* Inv holds.                                                               *)
THEOREM Invariance == Spec => []Inv
BY InitInv, NextStep, PTL DEF Spec

(* Every reachable state has the declared shape. *)
THEOREM TypeCorrect == Spec => []TypeOK
<1>1. Inv => TypeOK
  BY DEF Inv, TypeInv
<1>2. QED
  BY <1>1, Invariance, PTL

(* In either repository a name, an address and an ID belong to one user. *)
THEOREM UsersUnique == Spec => []UniqueUsers
<1>1. Inv => UniqueUsers
  BY DEF Inv
<1>2. QED
  BY <1>1, Invariance, PTL

(* The login finds the user that was registered and no other. *)
LEMMA LogsInAsHimself ==
  ASSUME Inv, NEW r \in Requests, NEW password \in Passwords,
         pc[r] = "created", InUse(began[r]),
         user[r].password = hashPassword(password)
  PROVE  /\ \E u \in Users : Accepts(u, user[r].name, password)
         /\ \A u \in Users : Accepts(u, user[r].name, password) => u = user[r]
<1>1. storage \in Storages
  BY DEF Inv, TypeInv, TypeOK
<1>2. Lasting(began[r]) /\ Kept(began[r]) = Users
  <2>1. CASE began[r] = Life
    BY <1>1, <2>1 DEF Lasting, Kept, Users, Life, Storages
  <2>2. CASE began[r].storage = "postgres" /\ storage = "postgres"
    BY <2>2 DEF Lasting, Kept, Users
  <2>3. QED
    BY <2>1, <2>2 DEF InUse
<1>3. user[r] \in Users
  BY <1>2 DEF Inv, SavedInv
<1>4. \A u, v \in Users : u.name = v.name => u = v
  BY DEF Inv, UniqueUsers, Users
<1>5. QED
  BY <1>3, <1>4 DEF Accepts

(* Who was answered 201 can log in, and as nobody else. *)
THEOREM AcceptedAreKept == Spec => []AcceptedCanLogIn
<1>1. Inv => AcceptedCanLogIn
  BY LogsInAsHimself DEF AcceptedCanLogIn
<1>2. QED
  BY <1>1, Invariance, PTL

(* A token names a user that is stored. *)
THEOREM TokensAreNames == Spec => []TokensNameUsers
<1>1. Inv => TokensNameUsers
  BY DEF Inv
<1>2. QED
  BY <1>1, Invariance, PTL

(* Nobody is answered 409 without one of the causes listed. *)
THEOREM ConflictsHaveCauses == Spec => []ConflictMeansTaken
<1>1. Inv => ConflictMeansTaken
  BY DEF Inv
<1>2. QED
  BY <1>1, Invariance, PTL
=============================================================================
