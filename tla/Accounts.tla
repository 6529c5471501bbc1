----------------------------- MODULE Accounts -----------------------------
(***************************************************************************)
(* Registration and login.  A registration draws a user ID from a counter  *)
(* of the process, saves the user and is given a token; registrations run  *)
(* concurrently.  The repository of the first kind keeps users in memory   *)
(* and tests and stores under one lock; the other kind is a Postgres table *)
(* with unique keys, one INSERT a registration.  Which of the two is used  *)
(* is settled anew whenever the process starts: without the database it    *)
(* goes on in memory.                                                      *)
(*                                                                         *)
(* Requests that fail validation change nothing and are left out, as is    *)
(* the expiry of tokens.                                                   *)
(***************************************************************************)
EXTENDS Naturals, FiniteSets

CONSTANTS
  Requests,     \* the POST /api/register requests
  Names,
  Emails,
  Unfit,        \* the names and addresses that their column does not take,
                \* because they are too long or hold a NUL character
  Passwords,
  Nil,
  MaxRestarts,
  MaxFailures   \* how many database calls may fail

ASSUME FiniteRequests == IsFiniteSet(Requests)
ASSUME SomeAreUnfit == Unfit \subseteq Names \cup Emails
ASSUME Bounds == MaxRestarts \in Nat /\ MaxFailures \in Nat

VARIABLES
  storage,   \* the kind of repository this process uses
  userSeq,   \* the user ID counter
  memory,    \* the users in the memory of this process
  table,     \* the users in the database
  pc,        \* where each registration is
  user,      \* the user it is about, or Nil
  began,     \* the life of the process in which it began, and its storage
  tokens,    \* the tokens given out
  restarts,  \* history
  failed     \* history: registrations whose database call failed

requests == <<pc, user, began>>
vars == <<storage, userSeq, memory, table, requests, tokens, restarts, failed>>

Storages == {"memory", "postgres"}

Life == [storage |-> storage, number |-> restarts]

Init ==
  /\ storage \in Storages
  /\ userSeq = 0
  /\ memory = {} /\ table = {}
  /\ pc = [r \in Requests |-> "idle"]
  /\ user = [r \in Requests |-> Nil]
  /\ began = [r \in Requests |-> Nil]
  /\ tokens = {}
  /\ restarts = 0 /\ failed = {}

-----------------------------------------------------------------------------
(* The repositories.                                                       *)

Users == IF storage = "memory" THEN memory ELSE table

\* Mutant: only the name is looked up.
SameName(u, v) == u.name = v.name

\* What keeps two users from being stored together.
Clash(u, v) == u.name = v.name \/ u.email = v.email

\* Mutant: the row goes in without its ID.
InsertUnnumbered(u, users) == users \cup {[u EXCEPT !.id = Nil]}

Insert(u, users) == users \cup {u}

Taken(u, users) == \E v \in users : Clash(u, v)

Fits(u) == {u.name, u.email} \cap Unfit = {}

\* The constraints of the table: its keys and the types of the two columns
\* that Register stores as they came.
Violates(u, users) ==
  \/ Taken(u, users)
  \/ \E v \in users : v.id = u.id
  \/ ~Fits(u)

-----------------------------------------------------------------------------
(* AuthHandler.Register.                                                   *)

\* Stands for a hash: equal for equal passwords only.
hashPassword(password) == [sha256 |-> password]

\* Mutant: users are counted instead.
CountUsers == Cardinality(Users) + 1

NextID == userSeq + 1

Begin(r) ==
  /\ pc[r] = "idle"
  /\ userSeq' = userSeq + 1
  /\ \E name \in Names, email \in Emails, password \in Passwords :
       user' = [user EXCEPT ![r] =
                  [id |-> NextID, name |-> name, email |-> email,
                   password |-> hashPassword(password)]]
  /\ began' = [began EXCEPT ![r] = Life]
  /\ pc' = [pc EXCEPT ![r] = "begun"]
  /\ UNCHANGED <<storage, memory, table, tokens, restarts, failed>>

\* Mutant: the error is not looked at.
IgnoreError(saved) == "saved"

\* Every error of Save is answered 409.
AfterSave(saved) == IF saved THEN "saved" ELSE "conflict"

\* In memory a map by ID is assigned, too; IDs are not repeated in a life.
SaveInMemory(r) ==
  /\ pc[r] = "begun" /\ storage = "memory"
  /\ LET refused == Taken(user[r], memory)
     IN  /\ memory' = IF refused THEN memory ELSE Insert(user[r], memory)
         /\ pc' = [pc EXCEPT ![r] = AfterSave(~refused)]
  /\ UNCHANGED <<storage, userSeq, table, user, began, tokens, restarts, failed>>

SaveInPostgres(r) ==
  /\ pc[r] = "begun" /\ storage = "postgres"
  /\ LET refused == Violates(user[r], table)
     IN  /\ table' = IF refused THEN table ELSE Insert(user[r], table)
         /\ pc' = [pc EXCEPT ![r] = AfterSave(~refused)]
  /\ UNCHANGED <<storage, userSeq, memory, user, began, tokens, restarts, failed>>

\* The call fails: before the row is in the table, or after that.
SaveFails(r) ==
  /\ pc[r] = "begun" /\ storage = "postgres"
  /\ Cardinality(failed) < MaxFailures
  /\ table' \in {table, IF Violates(user[r], table) THEN table
                        ELSE Insert(user[r], table)}
  /\ pc' = [pc EXCEPT ![r] = AfterSave(FALSE)]
  /\ failed' = failed \cup {r}
  /\ UNCHANGED <<storage, userSeq, memory, user, began, tokens, restarts>>

\* Mutant: the counter is read again instead of the user's ID.
TokenOfCounter(u) == [id |-> userSeq, name |-> u.name, life |-> Life]

GenerateToken(u) == [id |-> u.id, name |-> u.name, life |-> Life]

\* The answer is 201 with a token; if the token cannot be made it is 500 and
\* the user stays.
Answer(r) ==
  /\ pc[r] = "saved"
  /\ \/ /\ tokens' = tokens \cup {GenerateToken(user[r])}
        /\ pc' = [pc EXCEPT ![r] = "created"]
     \/ /\ pc' = [pc EXCEPT ![r] = "error"]
        /\ UNCHANGED tokens
  /\ UNCHANGED <<storage, userSeq, memory, table, user, began, restarts, failed>>

-----------------------------------------------------------------------------
(* AuthHandler.Login.                                                      *)

Accepts(u, name, password) ==
  u.name = name /\ u.password = hashPassword(password)

Login(name, password) ==
  \E u \in Users :
    /\ Accepts(u, name, password)
    /\ tokens' = tokens \cup {GenerateToken(u)}
    /\ UNCHANGED <<storage, userSeq, memory, table, requests, restarts, failed>>

-----------------------------------------------------------------------------
\* The process ends where it is and starts again; the database may be out of
\* reach then.
Restart ==
  /\ restarts < MaxRestarts
  /\ restarts' = restarts + 1
  /\ storage' \in Storages
  /\ userSeq' = 0
  /\ memory' = {}
  /\ pc' = [r \in Requests |-> IF pc[r] \in {"begun", "saved"} THEN "lost" ELSE pc[r]]
  /\ UNCHANGED <<table, user, began, tokens, failed>>

Register(r) ==
  \/ Begin(r)
  \/ SaveInMemory(r)
  \/ SaveInPostgres(r)
  \/ SaveFails(r)
  \/ Answer(r)

Next ==
  \/ \E r \in Requests : Register(r)
  \/ \E name \in Names, password \in Passwords : Login(name, password)
  \/ Restart

Spec == Init /\ [][Next]_vars

-----------------------------------------------------------------------------
(* Properties.                                                             *)

User ==
  [id : 1 .. Cardinality(Requests), name : Names, email : Emails,
   password : [sha256 : Passwords]]

Lives == [storage : Storages, number : 0 .. MaxRestarts]

\* The shape of the state.
TypeOK ==
  /\ storage \in Storages
  /\ userSeq \in 0 .. Cardinality(Requests)
  /\ memory \subseteq User /\ table \subseteq User
  /\ pc \in [Requests -> {"idle", "begun", "saved", "conflict", "created",
                          "error", "lost"}]
  /\ user \in [Requests -> User \cup {Nil}]
  /\ began \in [Requests -> Lives \cup {Nil}]
  /\ tokens \subseteq [id : 1 .. Cardinality(Requests), name : Names, life : Lives]
  /\ restarts \in 0 .. MaxRestarts
  /\ failed \subseteq Requests

\* However registrations interleave, in either repository a name, an email
\* address and an ID each belong to one user.
UniqueUsers ==
  \A users \in {memory, table} : \A u, v \in users :
    u.id = v.id \/ u.name = v.name \/ u.email = v.email => u = v

\* What a life of the process has stored is there: for ever in the database,
\* in memory until the process ends.
Kept(life) ==
  IF life.storage = "postgres" THEN table
  ELSE IF life = Life THEN memory ELSE {}

Lasting(life) == life.storage = "postgres" \/ life = Life

\* The repository in use has what that life stored: it is the same life, or
\* both use the database.
InUse(life) ==
  life = Life \/ (life.storage = "postgres" /\ storage = "postgres")

\* Whoever was told 201 can log in with the name and the password chosen, and
\* is logged in as the user registered, whatever others register afterwards;
\* over restarts, too, for as long as both processes reach the database.
AcceptedCanLogIn ==
  \A r \in Requests, password \in Passwords :
    /\ pc[r] = "created" /\ InUse(began[r])
    /\ user[r].password = hashPassword(password)
    => /\ \E u \in Users : Accepts(u, user[r].name, password)
       /\ \A u \in Users : Accepts(u, user[r].name, password) => u = user[r]

\* A token names a stored user by ID and name, and with UniqueUsers exactly
\* one; only tokens from a former process that kept its users in memory
\* outlive the user.
TokensNameUsers ==
  \A t \in tokens : Lasting(t.life) =>
    \E u \in Kept(t.life) : u.id = t.id /\ u.name = t.name

\* A registration is answered 409 because another user has the name or the
\* address; or, with Postgres, because a restart has put the counter back to
\* IDs that are taken, because the name or the address does not fit its
\* column, or because the call failed.
ConflictMeansTaken ==
  \A r \in Requests : pc[r] = "conflict" /\ Lasting(began[r]) =>
    \/ \E u \in Kept(began[r]) \ {user[r]} : Clash(u, user[r])
    \/ /\ began[r].storage = "postgres"
       /\ \/ /\ began[r].number > 0
             /\ \E u \in table : u.id = user[r].id
          \/ ~Fits(user[r])
          \/ r \in failed
=============================================================================
