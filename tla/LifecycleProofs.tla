-------------------------- MODULE LifecycleProofs --------------------------
(***************************************************************************)
(* What is proved of Lifecycle, for every number of programs and tenants:  *)
(* nothing is left by a base module that is out, the page outlives its     *)
(* users, and a program that returned holds nothing.                       *)
(*                                                                         *)
(* The inductive invariant says which resources each step of init and each *)
(* position of a program may hold, and that only a base module that is not *)
(* out has users.                                                          *)
(***************************************************************************)
EXTENDS Lifecycle, TLAPS

Program_record ==
  [pc : Label, file : BOOLEAN, mapped : BOOLEAN, ctx : BOOLEAN, ppos : BOOLEAN,
   page_buf : BOOLEAN]

\* Those who hold the module may use it: it is neither out nor on its way there.
Serving == init \notin {"out", "exit"}

\* What is left to give back is exactly what is still held, at every call of every path.
Owed ==
  \/ undo = <<"page">> /\ held = {"page"}
  \/ undo = <<"region", "page">> /\ held = {"region", "page"}
  \/ undo = <<"cdev", "region", "page">> /\ held = {"cdev", "region", "page"}
  \/ undo = <<"class", "cdev", "region", "page">> /\ held = Resource \ {"nodes"}
  \/ undo = <<"nodes", "class", "cdev", "region", "page">> /\ held = Resource

\* What the base module holds at each step of its init and of its end.
Stages ==
  /\ init = "out" => held = {}
  /\ init = "region" => held = {"page"}
  /\ init = "cdev" => held = {"page", "region"}
  /\ init = "class" => held = {"page", "region", "cdev"}
  /\ init = "nodes" => held = Resource \ {"nodes"}
  /\ init = "live" => held = Resource
  /\ IF init \in {"failing", "exit"} THEN Owed ELSE undo = <<>>

\* Tenants live inside the life of the base module, callbacks inside that of theirs.
Tenancy ==
  /\ \A t \in Tenants : tenant[t] # "out" => init = "live"
  /\ \A t \in inside : tenant[t] \in {"live", "exit"}

\* What a program with record r may hold, by its position.
Custody(u, r) ==
  /\ r.file => r.pc \notin {"idle", "create", "open", "destroy"}
  /\ r.mapped => r.pc \in {"spawn", "run", "unmap", "lost"} /\ u \in Clients \cup ZeroCopies
  /\ r.ctx => r.pc \notin {"idle", "create"} /\ u \in Clients
  /\ r.ppos => r.pc \in {"read", "format", "end", "lost"}
  /\ r.page_buf => r.pc \in {"format", "lost"}
  /\ r.pc \in {"map", "unmap"} => u \in Clients \cup ZeroCopies
  /\ r.pc \in {"spawn", "destroy", "create"} => u \in Clients
  /\ r.pc \in {"run", "close"} => u \notin Cats
  /\ r.pc \in {"read", "format", "end"} => u \in Cats

\* Program u with record r makes the base module be in use.
Uses(r) == r.pc # "lost" /\ (r.file \/ r.mapped)

Custodies == \A u \in Users : Custody(u, user[u]) /\ (Uses(user[u]) => Serving)

IInv == TypeOK /\ Stages /\ Tenancy /\ Custodies

-----------------------------------------------------------------------------
\* A step of one program that leaves the kernel alone keeps the invariant when it takes
\* the program to a record that may be had where it is.
LEMMA UserStep ==
  ASSUME IInv, UNCHANGED kernel, NEW u \in Users,
         user' \in [Users -> Program_record],
         \A v \in Users \ {u} : user'[v] = user[v],
         Custody(u, user'[u]), Uses(user'[u]) => Serving
  PROVE  IInv'
<1>1. TypeOK'
  BY DEF IInv, TypeOK, kernel, base, Program_record
<1>2. Stages' /\ Tenancy'
  BY DEF IInv, Stages, Owed, Tenancy, kernel, base
<1>3. Custodies'
  <2> SUFFICES ASSUME NEW v \in Users
               PROVE  Custody(v, user'[v]) /\ (Uses(user'[v]) => Serving')
    BY DEF Custodies, Custody, Uses
  <2>1. Serving' = Serving
    BY DEF kernel, base, Serving
  <2>2. CASE v = u
    BY <2>1, <2>2
  <2>3. CASE v # u
    BY <2>1, <2>3 DEF IInv, Custodies
  <2> QED BY <2>2, <2>3
<1> QED BY <1>1, <1>2, <1>3 DEF IInv

\* After the last call there is nothing left to give back.
LEMMA LastCall ==
  /\ Head(<<"page">>) = "page" /\ Tail(<<"page">>) = <<>>
  /\ <<"page">> \in Seq(Resource)
BY DEF Resource

\* A step of init acquires the next resource; a failure or an exit starts to give back
\* what has been acquired; each call gives back one resource that is held.
LEMMA BaseStep == IInv /\ Base => IInv'
<1> SUFFICES ASSUME IInv, Base PROVE IInv'
  OBVIOUS
<1> USE DEF IInv, TypeOK, Resource, Stages, Tenancy
<1>1. ASSUME init' \in {"region", "cdev", "class", "nodes", "live", "failing", "exit"},
             undo' \in Seq(Resource), held' \subseteq Resource,
             init # "live" \/ \A t \in Tenants : tenant[t] = "out",
             init' = "exit" => \A u \in Users : ~Uses(user[u]),
             UNCHANGED <<tenant, hooked, inside, user>>
      PROVE  TypeOK' /\ Tenancy' /\ Custodies'
  <2>1. TypeOK' /\ Tenancy'
    BY <1>1
  <2>2. Custodies'
    BY <1>1 DEF Custodies, Custody, Uses, Serving
  <2> QED BY <2>1, <2>2
<1>2. CASE InitPage \/ InitRegion \/ InitCdev \/ InitClass \/ InitNodes
  <2>1. /\ init \notin {"live", "failing", "exit"} /\ undo' = <<>>
        /\ init' \in {"region", "cdev", "class", "nodes", "live"}
        /\ held' \subseteq Resource /\ UNCHANGED <<undo, tenant, hooked, inside, user>>
    BY <1>2 DEF InitPage, InitRegion, InitCdev, InitClass, InitNodes, Acquire
  <2>2. Stages'
    BY <1>2, <2>1 DEF InitPage, InitRegion, InitCdev, InitClass, InitNodes, Acquire
  <2> QED BY <1>1, <2>1, <2>2
<1>3. CASE RegionFails \/ CdevFails \/ ClassFails
  <2>1. /\ init # "live" /\ init' = "failing" /\ undo' \in Seq(Resource)
        /\ UNCHANGED <<held, tenant, hooked, inside, user>>
    <3>1. CASE RegionFails
      BY <3>1, LastCall DEF RegionFails, GiveBack
    <3>2. CASE CdevFails
      BY <3>2 DEF CdevFails, GiveBack
    <3>3. CASE ClassFails
      BY <3>3 DEF ClassFails, GiveBack
    <3> QED BY <1>3, <3>1, <3>2, <3>3
  <2>2. Stages'
    BY <1>3, <2>1 DEF RegionFails, CdevFails, ClassFails, GiveBack, Owed
  <2> QED BY <1>1, <2>1, <2>2
<1>4. CASE Exit
  <2>1. /\ init' = "exit" /\ undo' \in Seq(Resource)
        /\ UNCHANGED <<held, tenant, hooked, inside, user>>
    BY <1>4 DEF Exit, GiveBack
  <2>2. /\ \A t \in Tenants : tenant[t] = "out"
        /\ \A u \in Users : ~Uses(user[u])
    BY <1>4 DEF Exit, Pinned, Lost, Uses
  <2>3. Stages'
    BY <1>4, <2>1 DEF Exit, GiveBack, Owed
  <2> QED BY <1>1, <2>1, <2>2, <2>3
<1>5. CASE Undo
  <2>1. init \in {"failing", "exit"} /\ Owed
    BY <1>5 DEF Undo
  <2>2. \A t \in Tenants : tenant[t] = "out"
    BY <2>1
  <2>3. \/ undo' = <<>> /\ held' = {} /\ init' = "out" /\ Head(undo) = "page"
        \/ init' = init /\ Owed' /\ Head(undo) # "page" /\ undo' \in Seq(Resource)
    <3>1. CASE undo = <<"page">> /\ held = {"page"}
      BY <1>5, <3>1, LastCall DEF Undo
    <3>2. CASE undo = <<"region", "page">> /\ held = {"region", "page"}
      BY <1>5, <3>2 DEF Undo, Owed
    <3>3. CASE undo = <<"cdev", "region", "page">> /\ held = {"cdev", "region", "page"}
      BY <1>5, <3>3 DEF Undo, Owed
    <3>4. CASE undo = <<"class", "cdev", "region", "page">> /\ held = Resource \ {"nodes"}
      BY <1>5, <3>4 DEF Undo, Owed
    <3>5. CASE undo = <<"nodes", "class", "cdev", "region", "page">> /\ held = Resource
      BY <1>5, <3>5 DEF Undo, Owed
    <3> QED BY <2>1, <3>1, <3>2, <3>3, <3>4, <3>5 DEF Owed
  <2>4. TypeOK'
    <3>1. user' \in [Users -> [pc : Label, file : BOOLEAN, mapped : BOOLEAN,
                               ctx : BOOLEAN, ppos : BOOLEAN, page_buf : BOOLEAN]]
      <4> HIDE DEF Stages, Resource
      <4> QED BY <1>5 DEF Undo, Label
    <3>2. /\ held' \subseteq Resource /\ undo' \in Seq(Resource)
          /\ init' \in {"out", "failing", "exit"}
      BY <1>5, <2>1, <2>3 DEF Undo
    <3> QED BY <1>5, <3>1, <3>2 DEF Undo
  <2>5. Stages' /\ Tenancy'
    BY <1>5, <2>1, <2>2, <2>3 DEF Undo
  <2>6. Custodies'
    <3> SUFFICES ASSUME NEW u \in Users
                 PROVE  Custody(u, user'[u]) /\ (Uses(user'[u]) => Serving')
      BY DEF Custodies, Custody, Uses
    <3>1. Custody(u, user[u]) /\ (Uses(user[u]) => Serving)
      BY DEF Custodies
    <3>2. CASE init = "failing" /\ Head(undo) = "page" /\ (user[u].file \/ user[u].mapped)
      <4>1. user'[u] = [user[u] EXCEPT !.pc = "lost"]
        BY <1>5, <3>2 DEF Undo
      <4> QED BY <3>1, <3>2, <4>1 DEF Custody, Uses
    <3>3. CASE ~(init = "failing" /\ Head(undo) = "page" /\ (user[u].file \/ user[u].mapped))
      <4>1. user'[u] = user[u]
        BY <1>5, <3>3 DEF Undo
      <4>2. Uses(user[u]) => Serving'
        BY <2>1, <2>3, <3>1, <3>3 DEF Uses, Serving
      <4> QED BY <3>1, <4>1, <4>2
    <3> QED BY <3>2, <3>3
  <2> QED BY <2>4, <2>5, <2>6
<1> QED BY <1>2, <1>3, <1>4, <1>5 DEF Base

\* A tenant moves only while it pins the base module, and is not gone before its
\* callback has left.
LEMMA TenantStep == ASSUME IInv, NEW t \in Tenants, Tenant(t) PROVE IInv'
<1> USE DEF IInv, TypeOK, Stages, Tenancy, Moves
<1>1. UNCHANGED <<base, user>>
  BY DEF Tenant, TLoad, TRegister, TRegisterFails, TExit, TGone, TEnter, TLeave
<1>2. Stages'
  BY <1>1 DEF base, Owed
<1>3. Custodies'
  BY <1>1 DEF Custodies, Custody, Uses, Serving, base
<1>4. TypeOK' /\ Tenancy'
  <2>1. CASE TLoad(t)
    BY <1>1, <2>1 DEF TLoad, base
  <2>2. CASE TRegister(t)
    BY <1>1, <2>2 DEF TRegister, base
  <2>3. CASE TRegisterFails(t)
    BY <1>1, <2>3 DEF TRegisterFails, base
  <2>4. CASE TExit(t)
    BY <1>1, <2>4 DEF TExit, base
  <2>5. CASE TGone(t)
    BY <1>1, <2>5 DEF TGone, base
  <2>6. CASE TEnter(t)
    BY <1>1, <2>6 DEF TEnter, base
  <2>7. CASE TLeave(t)
    BY <1>1, <2>7 DEF TLeave, base
  <2> QED BY <2>1, <2>2, <2>3, <2>4, <2>5, <2>6, <2>7 DEF Tenant
<1> QED BY <1>2, <1>3, <1>4

\* Every step of a program takes it from a record it may have to another.
LEMMA ProgramStep ==
  ASSUME IInv, NEW u \in Users, Program(u) \/ Kill(u) \/ (u \in Cats /\ Cat(u))
  PROVE  IInv'
<1>1. user \in [Users -> Program_record] /\ Custody(u, user[u])
      /\ (Uses(user[u]) => Serving)
  BY DEF IInv, TypeOK, Custodies, Program_record
<1>2. "cdev" \in held /\ init # "exit" => Serving
  BY DEF IInv, Stages, Serving
<1> DEFINE Becomes(r) == user' = [user EXCEPT ![u] = r]
<1>3. ASSUME UNCHANGED kernel, NEW r \in Program_record, Becomes(r),
             Custody(u, r), Uses(r) => Serving
      PROVE  IInv'
  BY <1>1, <1>3, UserStep
<1>4. CASE UStart(u)
  <2>1. ASSUME NEW r, Becomes(r),
           r = [user[u] EXCEPT !.pc = IF u \in Clients THEN "create" ELSE "open"]
      PROVE IInv'
    <3>1. r \in Program_record
      BY <1>1, <2>1 DEF Program_record, Label
    <3>2. Custody(u, r)
      BY <1>1, <1>4, <2>1, UsersAssumption
      DEF UStart, At, Custody, Program_record, Users
    <3>3. Uses(r) => Serving
      BY <1>1, <1>2, <1>4, <2>1 DEF UStart, At, Uses, Custody, Program_record
    <3> QED BY <1>3, <1>4, <2>1, <3>1, <3>2, <3>3 DEF UStart
  <2> QED BY <1>1, <1>4, <2>1 DEF UStart, Program_record
<1>5. CASE UCreate(u)
  <2>1. ASSUME NEW r, Becomes(r),
           r = [user[u] EXCEPT !.pc = "open", !.ctx = TRUE]
      PROVE IInv'
    <3>1. r \in Program_record
      BY <1>1, <2>1 DEF Program_record, Label
    <3>2. Custody(u, r)
      BY <1>1, <1>5, <2>1, UsersAssumption
      DEF UCreate, At, Custody, Program_record, Users
    <3>3. Uses(r) => Serving
      BY <1>1, <1>2, <1>5, <2>1 DEF UCreate, At, Uses, Custody, Program_record
    <3> QED BY <1>3, <1>5, <2>1, <3>1, <3>2, <3>3 DEF UCreate
  <2>2. ASSUME NEW r, Becomes(r),
           r = [user[u] EXCEPT !.pc = "idle"]
      PROVE IInv'
    <3>1. r \in Program_record
      BY <1>1, <2>2 DEF Program_record, Label
    <3>2. Custody(u, r)
      BY <1>1, <1>5, <2>2, UsersAssumption
      DEF UCreate, At, Custody, Program_record, Users
    <3>3. Uses(r) => Serving
      BY <1>1, <1>2, <1>5, <2>2 DEF UCreate, At, Uses, Custody, Program_record
    <3> QED BY <1>3, <1>5, <2>2, <3>1, <3>2, <3>3 DEF UCreate
  <2> QED BY <1>1, <1>5, <2>1, <2>2 DEF UCreate, Program_record
<1>6. CASE UOpen(u)
  <2>1. ASSUME NEW r, Becomes(r), "cdev" \in held, init # "exit",
           r = [user[u] EXCEPT !.pc = Opened(u), !.file = TRUE]
      PROVE IInv'
    <3>1. r \in Program_record
      BY <1>1, <2>1 DEF Program_record, Label, Opened, Failed
    <3>2. Custody(u, r)
      BY <1>1, <1>6, <2>1, UsersAssumption
      DEF UOpen, At, Custody, Program_record, Users, Opened, Failed
    <3>3. Uses(r) => Serving
      BY <1>1, <1>2, <1>6, <2>1 DEF UOpen, At, Uses, Custody, Program_record, Opened, Failed
    <3> QED BY <1>3, <1>6, <2>1, <3>1, <3>2, <3>3 DEF UOpen
  <2>2. ASSUME NEW r, Becomes(r),
           r = [user[u] EXCEPT !.pc = Failed(u)]
      PROVE IInv'
    <3>1. r \in Program_record
      BY <1>1, <2>2 DEF Program_record, Label, Opened, Failed
    <3>2. Custody(u, r)
      BY <1>1, <1>6, <2>2, UsersAssumption
      DEF UOpen, At, Custody, Program_record, Users, Opened, Failed
    <3>3. Uses(r) => Serving
      BY <1>1, <1>2, <1>6, <2>2 DEF UOpen, At, Uses, Custody, Program_record, Opened, Failed
    <3> QED BY <1>3, <1>6, <2>2, <3>1, <3>2, <3>3 DEF UOpen
  <2> QED BY <1>1, <1>6, <2>1, <2>2 DEF UOpen, Program_record
<1>7. CASE UMapFails(u)
  <2>1. ASSUME NEW r, Becomes(r),
           r = [user[u] EXCEPT !.pc = Failed(u), !.file = FALSE]
      PROVE IInv'
    <3>1. r \in Program_record
      BY <1>1, <2>1 DEF Program_record, Label, Failed
    <3>2. Custody(u, r)
      BY <1>1, <1>7, <2>1, UsersAssumption
      DEF UMapFails, At, Custody, Program_record, Users, Failed
    <3>3. Uses(r) => Serving
      BY <1>1, <1>2, <1>7, <2>1 DEF UMapFails, At, Uses, Custody, Program_record, Failed
    <3> QED BY <1>3, <1>7, <2>1, <3>1, <3>2, <3>3 DEF UMapFails
  <2> QED BY <1>1, <1>7, <2>1 DEF UMapFails, Program_record
<1>8. CASE UMap(u)
  <2>1. ASSUME NEW r, Becomes(r),
           r = [user[u] EXCEPT !.pc = IF u \in Clients THEN "spawn" ELSE "run",
                    !.mapped = TRUE]
      PROVE IInv'
    <3>1. r \in Program_record
      BY <1>1, <2>1 DEF Program_record, Label
    <3>2. Custody(u, r)
      BY <1>1, <1>8, <2>1, UsersAssumption
      DEF UMap, At, Custody, Program_record, Users
    <3>3. Uses(r) => Serving
      BY <1>1, <1>2, <1>8, <2>1 DEF UMap, At, Uses, Custody, Program_record
    <3> QED BY <1>3, <1>8, <2>1, <3>1, <3>2, <3>3 DEF UMap
  <2> QED BY <1>1, <1>8, <2>1 DEF UMap, Program_record
<1>9. CASE USpawn(u)
  <2>1. ASSUME NEW r, Becomes(r),
           r = [user[u] EXCEPT !.pc = "run"]
      PROVE IInv'
    <3>1. r \in Program_record
      BY <1>1, <2>1 DEF Program_record, Label
    <3>2. Custody(u, r)
      BY <1>1, <1>9, <2>1, UsersAssumption
      DEF USpawn, At, Custody, Program_record, Users
    <3>3. Uses(r) => Serving
      BY <1>1, <1>2, <1>9, <2>1 DEF USpawn, At, Uses, Custody, Program_record
    <3> QED BY <1>3, <1>9, <2>1, <3>1, <3>2, <3>3 DEF USpawn
  <2>2. ASSUME NEW r, Becomes(r),
           r = [user[u] EXCEPT !.pc = "unmap"]
      PROVE IInv'
    <3>1. r \in Program_record
      BY <1>1, <2>2 DEF Program_record, Label
    <3>2. Custody(u, r)
      BY <1>1, <1>9, <2>2, UsersAssumption
      DEF USpawn, At, Custody, Program_record, Users
    <3>3. Uses(r) => Serving
      BY <1>1, <1>2, <1>9, <2>2 DEF USpawn, At, Uses, Custody, Program_record
    <3> QED BY <1>3, <1>9, <2>2, <3>1, <3>2, <3>3 DEF USpawn
  <2> QED BY <1>1, <1>9, <2>1, <2>2 DEF USpawn, Program_record
<1>10. CASE UStop(u)
  <2>1. ASSUME NEW r, Becomes(r),
           r = [user[u] EXCEPT !.pc = IF u \in Streams THEN "close" ELSE "unmap"]
      PROVE IInv'
    <3>1. r \in Program_record
      BY <1>1, <2>1 DEF Program_record, Label
    <3>2. Custody(u, r)
      BY <1>1, <1>10, <2>1, UsersAssumption
      DEF UStop, At, Custody, Program_record, Users
    <3>3. Uses(r) => Serving
      BY <1>1, <1>2, <1>10, <2>1 DEF UStop, At, Uses, Custody, Program_record
    <3> QED BY <1>3, <1>10, <2>1, <3>1, <3>2, <3>3 DEF UStop
  <2> QED BY <1>1, <1>10, <2>1 DEF UStop, Program_record
<1>11. CASE UUnmap(u)
  <2>1. ASSUME NEW r, Becomes(r),
           r = [user[u] EXCEPT !.pc = "close", !.mapped = FALSE]
      PROVE IInv'
    <3>1. r \in Program_record
      BY <1>1, <2>1 DEF Program_record, Label
    <3>2. Custody(u, r)
      BY <1>1, <1>11, <2>1, UsersAssumption
      DEF UUnmap, At, Custody, Program_record, Users
    <3>3. Uses(r) => Serving
      BY <1>1, <1>2, <1>11, <2>1 DEF UUnmap, At, Uses, Custody, Program_record
    <3> QED BY <1>3, <1>11, <2>1, <3>1, <3>2, <3>3 DEF UUnmap
  <2> QED BY <1>1, <1>11, <2>1 DEF UUnmap, Program_record
<1>12. CASE UClose(u)
  <2>1. ASSUME NEW r, Becomes(r),
           r = [user[u] EXCEPT !.pc = IF u \in Clients THEN "destroy" ELSE "idle",
                    !.file = FALSE]
      PROVE IInv'
    <3>1. r \in Program_record
      BY <1>1, <2>1 DEF Program_record, Label
    <3>2. Custody(u, r)
      BY <1>1, <1>12, <2>1, UsersAssumption
      DEF UClose, At, Custody, Program_record, Users
    <3>3. Uses(r) => Serving
      BY <1>1, <1>2, <1>12, <2>1 DEF UClose, At, Uses, Custody, Program_record
    <3> QED BY <1>3, <1>12, <2>1, <3>1, <3>2, <3>3 DEF UClose
  <2> QED BY <1>1, <1>12, <2>1 DEF UClose, Program_record
<1>13. CASE UDestroy(u)
  <2>1. ASSUME NEW r, Becomes(r),
           r = [user[u] EXCEPT !.pc = "idle", !.ctx = FALSE]
      PROVE IInv'
    <3>1. r \in Program_record
      BY <1>1, <2>1 DEF Program_record, Label
    <3>2. Custody(u, r)
      BY <1>1, <1>13, <2>1, UsersAssumption
      DEF UDestroy, At, Custody, Program_record, Users
    <3>3. Uses(r) => Serving
      BY <1>1, <1>2, <1>13, <2>1 DEF UDestroy, At, Uses, Custody, Program_record
    <3> QED BY <1>3, <1>13, <2>1, <3>1, <3>2, <3>3 DEF UDestroy
  <2> QED BY <1>1, <1>13, <2>1 DEF UDestroy, Program_record
<1>14. CASE Kill(u)
  <2>1. ASSUME NEW r, Becomes(r),
           r = Idle
      PROVE IInv'
    <3>1. r \in Program_record
      BY <1>1, <2>1 DEF Program_record, Label, Idle, Lost
    <3>2. Custody(u, r)
      BY <1>1, <1>14, <2>1, UsersAssumption
      DEF Kill, At, Custody, Program_record, Users, Idle, Lost
    <3>3. Uses(r) => Serving
      BY <1>1, <1>2, <1>14, <2>1 DEF Kill, At, Uses, Custody, Program_record, Idle, Lost
    <3> QED BY <1>3, <1>14, <2>1, <3>1, <3>2, <3>3 DEF Kill
  <2> QED BY <1>1, <1>14, <2>1 DEF Kill, Program_record
<1>15. CASE CatRead(u)
  <2>1. ASSUME NEW r, Becomes(r),
           r = [user[u] EXCEPT !.pc = "end"]
      PROVE IInv'
    <3>1. r \in Program_record
      BY <1>1, <2>1 DEF Program_record, Label
    <3>2. Custody(u, r)
      BY <1>1, <1>15, <2>1, UsersAssumption
      DEF CatRead, At, Custody, Program_record, Users
    <3>3. Uses(r) => Serving
      BY <1>1, <1>2, <1>15, <2>1 DEF CatRead, At, Uses, Custody, Program_record
    <3> QED BY <1>3, <1>15, <2>1, <3>1, <3>2, <3>3 DEF CatRead
  <2>2. ASSUME NEW r, Becomes(r),
           r = [user[u] EXCEPT !.pc = "format", !.page_buf = TRUE]
      PROVE IInv'
    <3>1. r \in Program_record
      BY <1>1, <2>2 DEF Program_record, Label
    <3>2. Custody(u, r)
      BY <1>1, <1>15, <2>2, UsersAssumption
      DEF CatRead, At, Custody, Program_record, Users
    <3>3. Uses(r) => Serving
      BY <1>1, <1>2, <1>15, <2>2 DEF CatRead, At, Uses, Custody, Program_record
    <3> QED BY <1>3, <1>15, <2>2, <3>1, <3>2, <3>3 DEF CatRead
  <2> QED BY <1>1, <1>15, <2>1, <2>2 DEF CatRead, Program_record
<1>16. CASE CatCopy(u)
  <2>1. ASSUME NEW r, Becomes(r),
           r = [user[u] EXCEPT !.pc = "end", !.page_buf = FALSE]
      PROVE IInv'
    <3>1. r \in Program_record
      BY <1>1, <2>1 DEF Program_record, Label
    <3>2. Custody(u, r)
      BY <1>1, <1>16, <2>1, UsersAssumption
      DEF CatCopy, At, Custody, Program_record, Users
    <3>3. Uses(r) => Serving
      BY <1>1, <1>2, <1>16, <2>1 DEF CatCopy, At, Uses, Custody, Program_record
    <3> QED BY <1>3, <1>16, <2>1, <3>1, <3>2, <3>3 DEF CatCopy
  <2>2. ASSUME NEW r, Becomes(r),
           r = [user[u] EXCEPT !.pc = "read", !.page_buf = FALSE, !.ppos = TRUE]
      PROVE IInv'
    <3>1. r \in Program_record
      BY <1>1, <2>2 DEF Program_record, Label
    <3>2. Custody(u, r)
      BY <1>1, <1>16, <2>2, UsersAssumption
      DEF CatCopy, At, Custody, Program_record, Users
    <3>3. Uses(r) => Serving
      BY <1>1, <1>2, <1>16, <2>2 DEF CatCopy, At, Uses, Custody, Program_record
    <3> QED BY <1>3, <1>16, <2>2, <3>1, <3>2, <3>3 DEF CatCopy
  <2> QED BY <1>1, <1>16, <2>1, <2>2 DEF CatCopy, Program_record
<1>17. CASE CatEnd(u)
  <2>1. ASSUME NEW r, Becomes(r),
           r = [user[u] EXCEPT !.pc = "idle", !.file = FALSE, !.ppos = FALSE]
      PROVE IInv'
    <3>1. r \in Program_record
      BY <1>1, <2>1 DEF Program_record, Label
    <3>2. Custody(u, r)
      BY <1>1, <1>17, <2>1, UsersAssumption
      DEF CatEnd, At, Custody, Program_record, Users
    <3>3. Uses(r) => Serving
      BY <1>1, <1>2, <1>17, <2>1 DEF CatEnd, At, Uses, Custody, Program_record
    <3> QED BY <1>3, <1>17, <2>1, <3>1, <3>2, <3>3 DEF CatEnd
  <2> QED BY <1>1, <1>17, <2>1 DEF CatEnd, Program_record
<1> QED
  BY <1>4, <1>5, <1>6, <1>7, <1>8, <1>9, <1>10,
     <1>11, <1>12, <1>13, <1>14, <1>15, <1>16, <1>17
  DEF Program, Cat

-----------------------------------------------------------------------------
\* The invariant is inductive.
THEOREM LifecycleSafe == Spec => []IInv
<1>1. Init => IInv
  BY DEF Init, IInv, TypeOK, Stages, Tenancy, Custodies, Custody, Uses, Serving, Idle, Label, Resource
<1>2. IInv /\ [Next]_vars => IInv'
  <2> SUFFICES ASSUME IInv, [Next]_vars PROVE IInv'
    OBVIOUS
  <2>1. CASE Base
    BY <2>1, BaseStep
  <2>2. CASE \E t \in Tenants : Tenant(t)
    BY <2>2, TenantStep
  <2>3. CASE \E u \in Users : Program(u) \/ Kill(u)
    BY <2>3, ProgramStep
  <2>4. CASE \E u \in Cats : Cat(u)
    BY <2>4, ProgramStep DEF Users
  <2>5. CASE UNCHANGED vars
    BY <2>5 DEF IInv, TypeOK, Stages, Owed, Tenancy, Custodies, Custody, Uses, Serving, vars, kernel, base
  <2> QED BY <2>1, <2>2, <2>3, <2>4, <2>5 DEF Next
<1> QED BY <1>1, <1>2, PTL DEF Spec

\* The page outlives everybody who may touch it, for every set of programs and tenants.
THEOREM PageOutlivesUsers == Spec => []UsersHavePage
<1>1. IInv => UsersHavePage
  BY DEF IInv, TypeOK, Stages, Owed, Tenancy, Custodies, Uses, Serving, UsersHavePage, Lost, Resource
<1> QED BY <1>1, LifecycleSafe, PTL

\* Every position a program, a module or the init of the base can get to is one the code
\* has, and a callback is registered only while its module is live.
THEOREM TypeCorrect == Spec => []TypeOK
<1>1. IInv => TypeOK
  BY DEF IInv
<1> QED BY <1>1, LifecycleSafe, PTL

\* The three error paths of telemetry_base_init and telemetry_base_exit give back what was
\* acquired before them, all of it and nothing else.
THEOREM InitUnwinds == Spec => []NothingLeft
<1>1. IInv => NothingLeft
  BY DEF IInv, Stages, Owed, NothingLeft, Resource
<1> QED BY <1>1, LifecycleSafe, PTL

\* A program that returned, by whatever error path, holds no file, mapping or memory.
THEOREM NoLeak == Spec => []ReleasedOnReturn
<1>1. IInv => ReleasedOnReturn
  BY DEF IInv, TypeOK, Custodies, Custody, ReleasedOnReturn, At, Idle
<1> QED BY <1>1, LifecycleSafe, PTL
=============================================================================
