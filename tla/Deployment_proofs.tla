--------------------------- MODULE Deployment_proofs ---------------------------
(***************************************************************************)
(* Theorems about .env and Deployment, for any number of processes and any *)
(* scripts, requests and settings.                                         *)
(***************************************************************************)
EXTENDS Deployment, SequenceTheorems, TLAPS

-----------------------------------------------------------------------------
(* What writeToEnvFile does to the lines it has read.                      *)

\* It writes a line for its key and leaves every other setting what it was.
LEMMA UpdatedValues ==
    ASSUME NEW d \in Seq(Line), NEW k \in Key, NEW v \in Value
    PROVE  /\ Updated(d, k, v) \in Seq(Line)
           /\ Values(Updated(d, k, v), k) = {v}
           /\ \A j \in Key \ {k} : Values(Updated(d, k, v), j) = Values(d, j)
<1> DEFINE u == Updated(d, k, v)
           l == [key |-> k, value |-> v]
<1>1. l \in Line /\ \A i \in DOMAIN d : d[i] \in Line
  <2>1. l \in Line
    BY DEF Line
  <2> QED
    BY <2>1
<1>2. CASE HasKey(d, k)
  <2>1. u = [i \in 1 .. Len(d) |-> IF d[i].key = k THEN l ELSE d[i]] /\ DOMAIN d = 1 .. Len(d)
    BY <1>2 DEF Updated
  <2>2. u \in Seq(Line) /\ DOMAIN u = DOMAIN d
    BY <2>1, <1>1
  <2>3. \A i \in DOMAIN d : u[i] = IF d[i].key = k THEN l ELSE d[i]
    BY <2>1
  <2>4. Values(u, k) = {v}
    BY <2>2, <2>3, <1>2, <1>1 DEF Values, HasKey, Line
  <2>5. ASSUME NEW j \in Key \ {k} PROVE Values(u, j) = Values(d, j)
    BY <2>2, <2>3 DEF Values
  <2> QED
    BY <2>2, <2>4, <2>5
<1>3. CASE ~HasKey(d, k)
  <2>1. u = Append(d, l)
    BY <1>3 DEF Updated
  <2>2. /\ u \in Seq(Line) /\ u[Len(d) + 1] = l
        /\ DOMAIN u = 1 .. Len(d) + 1 /\ DOMAIN d = 1 .. Len(d)
    BY <2>1, <1>1
  <2>3. \A i \in DOMAIN d : u[i] = d[i]
    BY <2>1
  <2>4. Values(u, k) = {v}
    BY <2>2, <2>3, <1>3 DEF Values, HasKey
  <2>5. ASSUME NEW j \in Key \ {k} PROVE Values(u, j) = Values(d, j)
    <3>1. \A i \in DOMAIN u : u[i].key = j => i \in DOMAIN d
      BY <2>2
    <3>2. DOMAIN d \subseteq DOMAIN u
      BY <2>2
    <3> QED
      BY <2>3, <3>1, <3>2 DEF Values
  <2> QED
    BY <2>2, <2>4, <2>5
<1> QED
  BY <1>2, <1>3

\* It makes no second line for a key.
LEMMA UpdatedOneLine ==
    ASSUME NEW d \in Seq(Line), NEW k \in Key, NEW v \in Value, OneLinePer(d)
    PROVE  OneLinePer(Updated(d, k, v))
<1> DEFINE u == Updated(d, k, v)
           l == [key |-> k, value |-> v]
<1>1. CASE HasKey(d, k)
  <2>1. u = [i \in DOMAIN d |-> IF d[i].key = k THEN l ELSE d[i]]
    BY <1>1 DEF Updated
  <2>2. \A i \in DOMAIN d : u[i].key = d[i].key
    BY <2>1
  <2> QED
    BY <2>1, <2>2 DEF OneLinePer
<1>2. CASE ~HasKey(d, k)
  <2>1. u = Append(d, l)
    BY <1>2 DEF Updated
  <2>2. DOMAIN u = 1 .. Len(d) + 1 /\ DOMAIN d = 1 .. Len(d) /\ u[Len(d) + 1].key = k
    BY <2>1
  <2>3. \A i \in DOMAIN d : u[i] = d[i] /\ d[i].key # k
    BY <2>1, <1>2 DEF HasKey
  <2>4. \A i \in DOMAIN u : i \in DOMAIN d \/ i = Len(d) + 1
    BY <2>2
  <2> QED
    BY <2>2, <2>3, <2>4 DEF OneLinePer
<1> QED
  BY <1>1, <1>2

-----------------------------------------------------------------------------
(* The state of the deployment.                                            *)

\* a was created under the name k.
IsFor(a, k) == a \in DOMAIN made /\ made[a] = k

Genuine(d) == \A i \in DOMAIN d : d[i].key # "PRIVATE_KEY" => IsFor(d[i].value, d[i].key)

\* What process.env has was created under that name.
EnvGenuine(e) == \A k \in Key : k # "PRIVATE_KEY" /\ e[k] # Unset => IsFor(e[k], k)

\* What a process has read is as good as the file was, and the address it has
\* in hand belongs to the name it is working on.
ProcInv(r) ==
    r # Stopped =>
        /\ OneLinePer(r.data) /\ Genuine(r.data)
        /\ EnvGenuine(r.env)
        /\ r.at # "next" => IsFor(r.addr, Head(r.todo).key)

DeployInv ==
    /\ TypeOK
    /\ OneLinePerKey
    /\ EntriesAreGenuine
    /\ EnvGenuine(server.env)
    /\ \A p \in Procs : ProcInv(proc[p])

\* What was created stays.
MadeStays == \A a \in DOMAIN made : a \in DOMAIN made' /\ made'[a] = made[a]

\* Fields of a process
LEMMA ProcFields ==
    ASSUME NEW r \in Proc, r # Stopped
    PROVE  /\ r \in Active
           /\ r.at \in {"next", "read", "truncate", "write"}
           /\ r.env \in Env
           /\ r.todo \in Script /\ r.all \in Script
           /\ Head(r.todo).key \in Key \ {"PRIVATE_KEY"}
           /\ r.addr \in Value /\ r.data \in Seq(Line) /\ r.alone \in BOOLEAN
<1>1. r \in Active /\ r.todo \in Script
  BY DEF Proc, Active
<1>2. Head(r.todo) \in Command
  BY <1>1 DEF Script
<1>3. Head(r.todo).key \in Key \ {"PRIVATE_KEY"}
  BY <1>2 DEF Command
<1> QED
  BY <1>1, <1>3 DEF Active

\* A process that did not change is fine after any step.
LEMMA StaysFine ==
    ASSUME MadeStays, NEW r, ProcInv(r), NEW r2,
           r = Stopped => r2 = Stopped,
           r2 # Stopped => /\ r2.data = r.data /\ r2.env = r.env /\ r2.at = r.at
                           /\ r2.addr = r.addr /\ r2.todo = r.todo
    PROVE  ProcInv(r2)'
BY DEF ProcInv, MadeStays, Genuine, EnvGenuine, IsFor

\* Writing a genuine address keeps lines genuine.
LEMMA UpdatedGenuine ==
    ASSUME NEW d \in Seq(Line), NEW k \in Key, NEW v \in Value, Genuine(d), IsFor(v, k)
    PROVE  Genuine(Updated(d, k, v))
<1> DEFINE u == Updated(d, k, v)
           l == [key |-> k, value |-> v]
<1>1. CASE HasKey(d, k)
  <2>1. u = [i \in DOMAIN d |-> IF d[i].key = k THEN l ELSE d[i]]
    BY <1>1 DEF Updated
  <2> QED
    BY <2>1 DEF Genuine
<1>2. CASE ~HasKey(d, k)
  <2>1. u = Append(d, l)
    BY <1>2 DEF Updated
  <2>2. DOMAIN u = 1 .. Len(d) + 1 /\ DOMAIN d = 1 .. Len(d) /\ u[Len(d) + 1] = l
    BY <2>1
  <2>3. \A i \in DOMAIN d : u[i] = d[i]
    BY <2>1
  <2>4. \A i \in DOMAIN u : i \in DOMAIN d \/ i = Len(d) + 1
    BY <2>2
  <2> QED
    BY <2>2, <2>3, <2>4 DEF Genuine
<1> QED
  BY <1>1, <1>2

\* dotenv gives values the file has.
LEMMA EnvFromFile ==
    ASSUME file \in Seq(Line), Genuine(file)
    PROVE  /\ ProcessEnv(file) \in Env
           /\ EnvGenuine(ProcessEnv(file))
<1>1. \A i \in DOMAIN file : file[i].value \in Value
  <2>1. \A i \in DOMAIN file : file[i] \in Line
    OBVIOUS
  <2> QED
    BY <2>1 DEF Line
<1>2. ASSUME NEW k \in Key, HasKey(file, k)
      PROVE  /\ ProcessEnv(file)[k] \in Value
             /\ k # "PRIVATE_KEY" => IsFor(ProcessEnv(file)[k], k)
  <2> DEFINE x == CHOOSE v \in Values(file, k) : TRUE
  <2>1. x \in Values(file, k)
    <3>1. \E v : v \in Values(file, k)
      BY <1>2 DEF HasKey, Values
    <3> QED
      BY <3>1
  <2>2. PICK i \in DOMAIN file : file[i].key = k /\ x = file[i].value
    BY <2>1 DEF Values
  <2>3. ProcessEnv(file)[k] = x
    BY <1>2 DEF ProcessEnv
  <2> QED
    BY <1>1, <2>2, <2>3 DEF Genuine
<1>3. ASSUME NEW k \in Key, ~HasKey(file, k) PROVE ProcessEnv(file)[k] = Unset
  BY <1>3 DEF ProcessEnv
<1>4. ProcessEnv(file) = [k \in Key |-> ProcessEnv(file)[k]]
  BY DEF ProcessEnv
<1>5. ProcessEnv(file) \in Env
  BY <1>2, <1>3, <1>4 DEF Env
<1> QED
  BY <1>2, <1>3, <1>5 DEF EnvGenuine

-----------------------------------------------------------------------------
(* The invariant is kept.                                                  *)

\* One process goes on as n, the others do not change.
LEMMA GoFine ==
    ASSUME DeployInv, MadeStays, NEW p \in Procs, NEW n \in Proc, Go(p, n), ProcInv(n)'
    PROVE  proc' \in [Procs -> Proc] /\ \A q \in Procs : ProcInv(proc[q])'
<1>1. proc' \in [Procs -> Proc] /\ proc'[p] = n
  BY DEF Go, DeployInv, TypeOK
<1>2. ASSUME NEW q \in Procs, q # p PROVE ProcInv(proc[q])'
  <2>1. proc'[q] = proc[q]
    BY <1>2 DEF Go, DeployInv, TypeOK
  <2>2. ProcInv(proc[q])
    BY DEF DeployInv
  <2> QED
    BY <2>1, <2>2, StaysFine
<1>3. ProcInv(proc[p])'
  BY <1>1
<1> QED
  BY <1>1, <1>2, <1>3

\* A process that has done its first command is fine.
LEMMA AfterFine ==
    ASSUME DeployInv, MadeStays, NEW p \in Running, NEW b \in BOOLEAN, After(p, b)
    PROVE  proc' \in [Procs -> Proc] /\ \A q \in Procs : ProcInv(proc[q])'
<1>1. PICK r : r = proc[p]
  OBVIOUS
<1>2. p \in Procs /\ r \in Proc /\ r # Stopped /\ ProcInv(r)
  BY <1>1 DEF Running, DeployInv, TypeOK
<1>3. CASE Len(r.todo) = 1
  <2>1. Go(p, Stopped) /\ Stopped \in Proc /\ ProcInv(Stopped)'
    BY <1>1, <1>3 DEF After, Proc, ProcInv
  <2> QED
    BY <1>2, <2>1, GoFine
<1>4. CASE Len(r.todo) # 1
  <2>1. PICK m : m = [r EXCEPT !.at = "next", !.todo = Tail(@), !.addr = 0, !.data = <<>>,
                               !.alone = b]
    OBVIOUS
  <2>2. Go(p, m)
    BY <1>1, <1>4, <2>1 DEF After
  <2>3. r.todo \in Seq(Command) /\ r.todo # <<>>
    BY <1>2, ProcFields DEF Script
  <2>4. Tail(r.todo) \in Script
    <3>1. Len(r.todo) \in Nat \ {0} /\ Tail(r.todo) \in Seq(Command)
             /\ Len(Tail(r.todo)) = Len(r.todo) - 1
      BY <2>3, EmptySeq, HeadTailProperties
    <3>2. Len(Tail(r.todo)) # 0 /\ Len(<<>>) = 0
      BY <1>4, <3>1, EmptySeq
    <3> QED
      BY <3>1, <3>2 DEF Script
  <2>5. 0 \in Value
    BY DeployAssumption
  <2>6. r \in Active
    BY <1>2, ProcFields
  <2>7. m \in Active
    <3>1. m = [at |-> "next", env |-> r.env, todo |-> Tail(r.todo), all |-> r.all,
               addr |-> 0, data |-> <<>>, alone |-> b]
      BY <2>1, <2>6 DEF Active
    <3>2. r.env \in Env /\ r.all \in Script
      BY <2>6 DEF Active
    <3>3. <<>> \in Seq(Line)
      BY EmptySeq
    <3> QED
      BY <2>4, <2>5, <3>1, <3>2, <3>3 DEF Active
  <2>8. m.data = <<>> /\ m.env = r.env /\ m.at = "next"
    BY <2>1, <2>6 DEF Active
  <2>9. OneLinePer(m.data) /\ Genuine(m.data)'
    <3>1. DOMAIN m.data = {}
      BY <2>8
    <3> QED
      BY <3>1 DEF OneLinePer, Genuine
  <2>10. EnvGenuine(m.env)'
    BY <1>2, <2>8 DEF ProcInv, EnvGenuine, IsFor, MadeStays
  <2>11. ProcInv(m)'
    BY <2>8, <2>9, <2>10 DEF ProcInv
  <2>12. m \in Proc
    BY <2>7 DEF Proc
  <2> QED
    BY <1>2, <2>2, <2>11, <2>12, GoFine
<1> QED
  BY <1>3, <1>4

\* A step that leaves .env and what was created alone, and whose registry is
\* genuine, keeps what the invariant says of them.
LEMMA SameFile ==
    ASSUME DeployInv, file' = file, made' = made,
           registry' \in [Value -> Env],
           \A m \in Value, k \in Key : registry'[m][k] # Unset =>
               IsFor(registry'[m][k], k) /\ IsFor(m, "Lib_AddressManager"),
           server' \in [up : BOOLEAN, env : Env], EnvGenuine(server'.env),
           quiet' \in BOOLEAN, fails' \in 0 .. MaxFails, starts' \in 0 .. MaxStarts,
           proc' \in [Procs -> Proc], \A q \in Procs : ProcInv(proc[q])'
    PROVE  DeployInv'
BY DEF DeployInv, TypeOK, OneLinePerKey, EntriesAreGenuine, EnvGenuine, IsFor

\* The part of EntriesAreGenuine about the registry
LEMMA RegistryGenuine ==
    ASSUME DeployInv
    PROVE  \A m \in Value, k \in Key : registry[m][k] # Unset =>
               IsFor(registry[m][k], k) /\ IsFor(m, "Lib_AddressManager")
BY DEF DeployInv, EntriesAreGenuine, IsFor

\* The part about .env
LEMMA FileGenuine == DeployInv => Genuine(file) /\ file \in Seq(Line) /\ OneLinePer(file)
BY DEF DeployInv, EntriesAreGenuine, Genuine, IsFor, TypeOK, OneLinePerKey

\* What there is at first: line i names contract i - 1.
LEMMA FirstFile ==
    ASSUME Init
    PROVE  /\ file \in Seq(Line) /\ DOMAIN file = DOMAIN Settings /\ made \in Seq(Key)
           /\ \A i \in DOMAIN Settings : file[i].key = Settings[i] /\ file[i].value = i - 1
           /\ \A i \in DOMAIN Settings :
                 i # 1 => i - 1 \in DOMAIN made /\ made[i - 1] = Settings[i]
<1>1. PICK n \in Nat : n = Len(Settings) /\ n \in 1 .. MaxMade + 1
  BY SettingsAssumption
<1>2. DOMAIN Settings = 1 .. n /\ Settings \in Seq(Key) /\ Settings # <<>>
  BY <1>1, SettingsAssumption
<1>3. file = [i \in 1 .. n |-> [key |-> Settings[i], value |-> i - 1]]
  BY <1>2 DEF Init
<1>4. ASSUME NEW i \in 1 .. n PROVE [key |-> Settings[i], value |-> i - 1] \in Line
  <2>1. Settings[i] \in Key
    BY <1>2
  <2>2. i - 1 \in Value
    BY <1>1, DeployAssumption
  <2> QED
    BY <2>1, <2>2 DEF Line
<1>5. file \in Seq(Line) /\ DOMAIN file = 1 .. n
  BY <1>3, <1>4
<1>6. made = Tail(Settings)
  BY DEF Init
<1>7. /\ made \in Seq(Key) /\ DOMAIN made = 1 .. n - 1
      /\ \A i \in 1 .. n - 1 : made[i] = Settings[i + 1]
  BY <1>1, <1>2, <1>6
<1>8. ASSUME NEW i \in 1 .. n, i # 1 PROVE i - 1 \in DOMAIN made /\ made[i - 1] = Settings[i]
  <2>1. i - 1 \in 1 .. n - 1 /\ (i - 1) + 1 = i
    BY <1>1, <1>8
  <2> QED
    BY <1>7, <2>1
<1>9. \A i \in 1 .. n : file[i].key = Settings[i] /\ file[i].value = i - 1
  BY <1>3
<1> QED
  BY <1>2, <1>5, <1>7, <1>8, <1>9

\* The invariant holds at first.
LEMMA DeployInit == Init => DeployInv
<1> SUFFICES ASSUME Init PROVE DeployInv
  OBVIOUS
<1>1. file \in Seq(Line) /\ made \in Seq(Key)
  BY FirstFile
<1>2. OneLinePerKey
  BY FirstFile, SettingsAssumption DEF OneLinePerKey, OneLinePer
<1>3. EntriesAreGenuine
  <2>1. ASSUME NEW i \in DOMAIN file, file[i].key # "PRIVATE_KEY"
        PROVE  file[i].value \in DOMAIN made /\ made[file[i].value] = file[i].key
    <3>1. i \in DOMAIN Settings /\ file[i].key = Settings[i] /\ file[i].value = i - 1
      BY FirstFile
    <3>2. i # 1
      BY <2>1, <3>1, SettingsAssumption
    <3> QED
      BY <3>1, <3>2, FirstFile
  <2>2. \A m \in Value, k \in Key : registry[m][k] = Unset
    BY DEF Init
  <2> QED
    BY <2>1, <2>2 DEF EntriesAreGenuine
<1>4. proc \in [Procs -> Proc] /\ \A p \in Procs : ProcInv(proc[p])
  BY DEF Init, Proc, ProcInv
<1>5. [k \in Key |-> Unset] \in Env
  BY DEF Env
<1>6. registry \in [Value -> Env] /\ server \in [up : BOOLEAN, env : Env]
  BY <1>5 DEF Init
<1>7. EnvGenuine(server.env)
  BY DEF Init, EnvGenuine
<1>8. fails \in 0 .. MaxFails /\ starts \in 0 .. MaxStarts /\ quiet \in BOOLEAN
  BY DeployAssumption DEF Init
<1> QED
  BY <1>1, <1>2, <1>3, <1>4, <1>6, <1>7, <1>8 DEF DeployInv, TypeOK

\* The counts stay in their bounds.
LEMMA Counts ==
    ASSUME DeployInv
    PROVE  /\ CountStart => starts' \in 0 .. MaxStarts
           /\ CountFail => fails' \in 0 .. MaxFails
BY DeployAssumption DEF CountStart, CountFail, DeployInv, TypeOK

\* A script starts with the settings of the file.
LEMMA StartStep ==
    ASSUME DeployInv, NEW p \in Procs, NEW s \in Scripts[p], Start(p, s)
    PROVE  DeployInv'
<1>1. MadeStays /\ file' = file /\ made' = made /\ registry' = registry
  BY DEF Start, MadeStays
<1> DEFINE e == IF p \in Requests THEN server.env ELSE ProcessEnv(file)
<1>a. e \in Env /\ EnvGenuine(e)
  <2>1. server.env \in Env /\ EnvGenuine(server.env)
    BY DEF DeployInv, TypeOK
  <2> QED
    BY <2>1, FileGenuine, EnvFromFile
<1>2. PICK n : n = [at |-> "next", env |-> e, todo |-> s, all |-> s,
                    addr |-> 0, data |-> <<>>, alone |-> Running = {}]
  OBVIOUS
<1>3. n \in Active
  <2>1. 0 \in Value /\ s \in Script /\ <<>> \in Seq(Line)
    BY DeployAssumption, EmptySeq
  <2> QED
    BY <1>a, <1>2, <2>1 DEF Active
<1>4. ProcInv(n)'
  <2>1. DOMAIN n.data = {} /\ n.at = "next" /\ n.env = e
    BY <1>2
  <2>2. OneLinePer(n.data) /\ Genuine(n.data)'
    BY <2>1 DEF OneLinePer, Genuine
  <2>3. EnvGenuine(n.env)'
    BY <1>a, <1>1, <2>1 DEF EnvGenuine, IsFor
  <2> QED
    BY <2>1, <2>2, <2>3 DEF ProcInv
<1>5. proc' = [q \in Procs |-> IF q = p THEN n
                 ELSE IF q \in Running THEN [proc[q] EXCEPT !.alone = FALSE] ELSE proc[q]]
  BY <1>2 DEF Start
<1>6. ASSUME NEW q \in Procs PROVE proc'[q] \in Proc /\ ProcInv(proc[q])'
  <2>1. CASE q = p
    BY <1>3, <1>4, <1>5, <2>1 DEF Proc
  <2>2. CASE q # p /\ q \in Running
    <3>1. PICK r : r = proc[q]
      OBVIOUS
    <3>2. r \in Active /\ ProcInv(r)
      BY <2>2, <3>1, ProcFields DEF Running, DeployInv, TypeOK
    <3>3. PICK m : m = [r EXCEPT !.alone = FALSE]
      OBVIOUS
    <3>4. m \in Active /\ m.data = r.data /\ m.env = r.env /\ m.at = r.at
          /\ m.addr = r.addr /\ m.todo = r.todo
      BY <3>2, <3>3 DEF Active
    <3>5. ProcInv(m)'
      <4>1. r # Stopped
        BY <2>2, <3>1 DEF Running
      <4> QED
        BY <1>1, <3>2, <3>4, <4>1 DEF ProcInv, Genuine, EnvGenuine, IsFor
    <3>6. proc'[q] = m
      BY <1>5, <2>2, <3>1, <3>3
    <3> QED
      BY <3>4, <3>5, <3>6 DEF Proc
  <2>3. CASE q # p /\ q \notin Running
    <3>1. proc'[q] = Stopped /\ Stopped \in Proc
      BY <1>5, <2>3 DEF Running, Proc
    <3> QED
      BY <3>1 DEF ProcInv
  <2> QED
    BY <2>1, <2>2, <2>3
<1>7. proc' \in [Procs -> Proc]
  BY <1>5, <1>6
<1>8. quiet' \in BOOLEAN /\ fails' \in 0 .. MaxFails /\ starts' \in 0 .. MaxStarts
      /\ registry' \in [Value -> Env] /\ server' = server
      /\ server' \in [up : BOOLEAN, env : Env] /\ EnvGenuine(server.env)
  BY Counts DEF Start, DeployInv, TypeOK
<1> QED
  BY <1>1, <1>6, <1>7, <1>8, RegistryGenuine, SameFile

\* The running process of a step
LEMMA Acting ==
    ASSUME DeployInv, NEW p \in Procs, proc[p] # Stopped
    PROVE  proc[p] \in Active /\ ProcInv(proc[p]) /\ Key1(p) \in Key \ {"PRIVATE_KEY"}
BY ProcFields DEF DeployInv, TypeOK, Key1

\* A running process that keeps its settings and data goes on with a genuine
\* address.
LEMMA SameData ==
    ASSUME MadeStays, NEW r \in Active, r # Stopped, ProcInv(r), NEW n \in Active,
           n.env = r.env, n.data = r.data, n.todo = r.todo,
           n.at # "next" => IsFor(n.addr, Head(n.todo).key)'
    PROVE  ProcInv(n)'
BY DEF ProcInv, Genuine, EnvGenuine, IsFor, MadeStays

\* What is made has the name that is worked on.
LEMMA MakeStep ==
    ASSUME DeployInv, NEW p \in Procs, Send(p) \/ DeployElsewhere(p)
    PROVE  DeployInv'
<1>1. PICK r : r = proc[p]
  OBVIOUS
<1>2. r.at = "next" /\ Makes(p)
  BY <1>1 DEF Send, DeployElsewhere
<1>3. r # Stopped
  BY <1>2 DEF Stopped
<1>4. r \in Active /\ ProcInv(r) /\ Key1(p) \in Key
  BY <1>1, <1>3, Acting
<1>5. PICK k : k = Key1(p) /\ k = Head(r.todo).key
  BY <1>1 DEF Key1
<1>6. /\ made' = Append(made, k) /\ made \in Seq(Key) /\ Len(made) \in Nat /\ Len(made) < MaxMade
      /\ UNCHANGED <<file, registry, server, quiet, fails, starts>>
  BY <1>2, <1>5 DEF Makes, DeployInv, TypeOK
<1>7. made' \in Seq(Key) /\ DOMAIN made = 1 .. Len(made) /\ DOMAIN made' = 1 .. Len(made) + 1
      /\ made'[Len(made) + 1] = k /\ \A i \in DOMAIN made : made'[i] = made[i]
  BY <1>4, <1>5, <1>6
<1>8. MadeStays
  BY <1>6, <1>7 DEF MadeStays
<1>9. PICK n : n = [r EXCEPT !.at = "read", !.addr = Len(made) + 1]
  OBVIOUS
<1>10. Len(made) + 1 \in Value
  BY <1>6, DeployAssumption
<1>11. n \in Active /\ n.env = r.env /\ n.data = r.data /\ n.todo = r.todo
       /\ n.addr = Len(made) + 1
  BY <1>4, <1>9, <1>10 DEF Active
<1>12. Go(p, n)
  BY <1>1, <1>2, <1>9 DEF Makes
<1>13. IsFor(n.addr, Head(n.todo).key)'
  BY <1>5, <1>6, <1>7, <1>11 DEF IsFor
<1>14. ProcInv(n)'
  BY <1>3, <1>4, <1>8, <1>11, <1>13, SameData
<1>15. proc' \in [Procs -> Proc] /\ \A q \in Procs : ProcInv(proc[q])'
  BY <1>8, <1>11, <1>12, <1>14, GoFine DEF Proc
<1>16. EntriesAreGenuine'
  BY <1>6, <1>8 DEF DeployInv, EntriesAreGenuine, MadeStays
<1>17. EnvGenuine(server.env)'
  BY <1>6, <1>8 DEF DeployInv, EnvGenuine, IsFor, MadeStays
<1> QED
  BY <1>6, <1>7, <1>15, <1>16, <1>17 DEF DeployInv, TypeOK, OneLinePerKey

\* An address is registered under its name with the manager of process.env.
LEMMA Registering ==
    ASSUME DeployInv, NEW p \in Procs, proc[p] # Stopped, NEW k \in Key, NEW a \in Value,
           IsFor(a, k), Registers(p, k, a),
           proc' \in [Procs -> Proc], \A q \in Procs : ProcInv(proc[q])'
    PROVE  DeployInv'
<1>0. server' = server /\ EnvGenuine(server.env)
  BY DEF Registers, DeployInv
<1>1. PICK m : m = proc[p].env["Lib_AddressManager"]
  OBVIOUS
<1>2. m \in Value /\ IsFor(m, "Lib_AddressManager")
  <2>1. "Lib_AddressManager" \in Key /\ proc[p].env \in Env
    BY Acting, DeployAssumption DEF Active
  <2> QED
    BY <1>1, <2>1, Acting, DeployAssumption DEF Registers, ProcInv, EnvGenuine, Env
<1>3. registry \in [Value -> Env]
  BY DEF DeployInv, TypeOK
<1>4. registry' = [registry EXCEPT ![m][k] = a]
  BY <1>1 DEF Registers
<1>5. registry' \in [Value -> Env]
  BY <1>2, <1>3, <1>4 DEF Env
<1>6. ASSUME NEW x \in Value, NEW j \in Key, registry'[x][j] # Unset
      PROVE  IsFor(registry'[x][j], j) /\ IsFor(x, "Lib_AddressManager")
  <2>1. CASE x = m /\ j = k
    BY <1>2, <1>3, <1>4, <2>1 DEF Env
  <2>2. CASE ~(x = m /\ j = k)
    <3>1. registry'[x][j] = registry[x][j]
      BY <1>3, <1>4, <2>2 DEF Env
    <3> QED
      BY <1>6, <3>1, RegistryGenuine
  <2> QED
    BY <2>1, <2>2
<1> QED
  BY <1>0, <1>5, <1>6, SameFile DEF Registers, DeployInv, TypeOK

\* Registering an address keeps the invariant.
LEMMA SetAddressStep == ASSUME DeployInv, NEW p \in Procs, SetAddress(p) PROVE DeployInv'
<1>1. PICK r : r = proc[p]
  OBVIOUS
<1>2. r.at = "next" /\ made' = made /\ Done(p)
  BY <1>1 DEF SetAddress, Registers
<1>3. r # Stopped
  BY <1>2 DEF Stopped
<1>4. r \in Active /\ ProcInv(r) /\ Key1(p) \in Key \ {"PRIVATE_KEY"}
  BY <1>1, <1>3, Acting
<1>5. PICK a : a = r.env[Key1(p)]
  OBVIOUS
<1>6. a # Unset
  BY <1>1, <1>5 DEF SetAddress
<1>7. a \in Value /\ IsFor(a, Key1(p))
  BY <1>3, <1>4, <1>5, <1>6 DEF Active, ProcInv, EnvGenuine, Env
<1>8. MadeStays /\ p \in Running /\ r.alone \in BOOLEAN
  BY <1>1, <1>2, <1>3, <1>4 DEF MadeStays, Running, Active
<1>9. proc' \in [Procs -> Proc] /\ \A q \in Procs : ProcInv(proc[q])'
  BY <1>1, <1>2, <1>8, AfterFine DEF Done
<1>10. Registers(p, Key1(p), a)
  BY <1>1, <1>5 DEF SetAddress
<1> QED
  BY <1>1, <1>3, <1>4, <1>7, <1>9, <1>10, Registering

\* So does reading the lines,
LEMMA ReadFileStep == ASSUME DeployInv, NEW p \in Procs, ReadFile(p) PROVE DeployInv'
<1>1. PICK r : r = proc[p]
  OBVIOUS
<1>2. /\ r.at = "read" /\ UNCHANGED <<file, made, registry, server, fails, starts>>
      /\ quiet' = (quiet /\ \A q \in Running : proc[q].at # "write")
  BY <1>1 DEF ReadFile
<1>3. r # Stopped
  BY <1>2 DEF Stopped
<1>4. r \in Active /\ ProcInv(r) /\ Genuine(file) /\ file \in Seq(Line) /\ OneLinePer(file)
  BY <1>1, <1>3, Acting, FileGenuine
<1>5. PICK n : n = [r EXCEPT !.at = "truncate", !.data = file]
  OBVIOUS
<1>6. n \in Active /\ n.env = r.env /\ n.data = file /\ n.todo = r.todo /\ n.addr = r.addr
  BY <1>4, <1>5 DEF Active
<1>7. MadeStays
  BY <1>2 DEF MadeStays
<1>8. ProcInv(n)'
  BY <1>2, <1>3, <1>4, <1>6 DEF ProcInv, Genuine, EnvGenuine, IsFor
<1>9. Go(p, n)
  BY <1>1, <1>5 DEF ReadFile
<1>10. proc' \in [Procs -> Proc] /\ \A q \in Procs : ProcInv(proc[q])'
  BY <1>6, <1>7, <1>8, <1>9, GoFine DEF Proc
<1>11. quiet' \in BOOLEAN /\ fails' \in 0 .. MaxFails /\ starts' \in 0 .. MaxStarts
       /\ registry' \in [Value -> Env]
       /\ server' \in [up : BOOLEAN, env : Env] /\ EnvGenuine(server'.env)
  BY <1>2 DEF DeployInv, TypeOK
<1> QED
  BY <1>2, <1>10, <1>11, RegistryGenuine, SameFile

\* A step that writes genuine lines to .env and leaves the rest
LEMMA Writes ==
    ASSUME DeployInv, file' \in Seq(Line), OneLinePer(file'), Genuine(file'),
           UNCHANGED <<made, registry, server, quiet, fails, starts>>,
           proc' \in [Procs -> Proc], \A q \in Procs : ProcInv(proc[q])'
    PROVE  DeployInv'
<1>1. TypeOK' /\ OneLinePerKey'
  BY DEF DeployInv, TypeOK, OneLinePerKey
<1>2. EntriesAreGenuine'
  BY DEF DeployInv, EntriesAreGenuine, Genuine, IsFor
<1>3. EnvGenuine(server.env)'
  BY DEF DeployInv, EnvGenuine, IsFor
<1> QED
  BY <1>1, <1>2, <1>3 DEF DeployInv

\* emptying the file,
LEMMA TruncateStep == ASSUME DeployInv, NEW p \in Procs, TruncateFile(p) PROVE DeployInv'
<1>1. PICK r : r = proc[p]
  OBVIOUS
<1>2. /\ r.at = "truncate" /\ file' = <<>>
      /\ UNCHANGED <<made, registry, server, quiet, fails, starts>>
  BY <1>1 DEF TruncateFile
<1>3. r # Stopped
  BY <1>2 DEF Stopped
<1>4. r \in Active /\ ProcInv(r)
  BY <1>1, <1>3, Acting
<1>5. PICK n : n = [r EXCEPT !.at = "write"]
  OBVIOUS
<1>6. n \in Active /\ n.env = r.env /\ n.data = r.data /\ n.todo = r.todo /\ n.addr = r.addr
  BY <1>4, <1>5 DEF Active
<1>7. MadeStays
  BY <1>2 DEF MadeStays
<1>8. ProcInv(n)'
  BY <1>2, <1>3, <1>4, <1>6 DEF ProcInv, Genuine, EnvGenuine, IsFor
<1>9. Go(p, n)
  BY <1>1, <1>5 DEF TruncateFile
<1>10. proc' \in [Procs -> Proc] /\ \A q \in Procs : ProcInv(proc[q])'
  BY <1>6, <1>7, <1>8, <1>9, GoFine DEF Proc
<1>11. file' \in Seq(Line) /\ OneLinePer(file') /\ Genuine(file')
  BY <1>2, EmptySeq DEF OneLinePer, Genuine
<1> QED
  BY <1>2, <1>10, <1>11, Writes

\* and writing the lines that were read, with the new one.
LEMMA WriteStep == ASSUME DeployInv, NEW p \in Procs, WriteFile(p) PROVE DeployInv'
<1>1. PICK r : r = proc[p]
  OBVIOUS
<1>2. r.at = "write" /\ Done(p) /\ UNCHANGED <<made, registry, server, quiet, fails, starts>>
  BY <1>1 DEF WriteFile
<1>3. r # Stopped
  BY <1>2 DEF Stopped
<1>4. r \in Active /\ ProcInv(r) /\ Key1(p) \in Key
  BY <1>1, <1>3, Acting
<1>5. PICK k : k = Key1(p)
  OBVIOUS
<1>6. /\ r.addr \in Value /\ r.data \in Seq(Line) /\ k \in Key
      /\ OneLinePer(r.data) /\ Genuine(r.data) /\ IsFor(r.addr, k)
  BY <1>1, <1>2, <1>3, <1>4, <1>5 DEF Active, ProcInv, Key1
<1>7. PICK u : u = Updated(r.data, k, r.addr)
  OBVIOUS
<1>8. u \in Seq(Line) /\ OneLinePer(u) /\ Genuine(u)
  BY <1>6, <1>7, UpdatedValues, UpdatedOneLine, UpdatedGenuine
<1>9. file' = u
  BY <1>1, <1>5, <1>7 DEF WriteFile
<1>10. MadeStays /\ p \in Running /\ r.alone \in BOOLEAN
  BY <1>1, <1>2, <1>3, <1>4 DEF MadeStays, Running, Active
<1>11. proc' \in [Procs -> Proc] /\ \A q \in Procs : ProcInv(proc[q])'
  BY <1>1, <1>2, <1>10, AfterFine DEF Done
<1> QED
  BY <1>2, <1>8, <1>9, <1>11, Writes

\* A process that fails or is stopped changes neither .env nor the registry.
LEMMA FailStep ==
    ASSUME DeployInv, NEW p \in Procs, WriteFails(p) \/ Exit(p)
    PROVE  DeployInv'
<1>1. UNCHANGED <<file, made, registry, server, starts>> /\ CountFail
      /\ quiet' = (quiet /\ proc[p].at # "write")
  BY DEF WriteFails, Exit
<1>2. MadeStays
  BY <1>1 DEF MadeStays
<1>3. proc' \in [Procs -> Proc] /\ \A q \in Procs : ProcInv(proc[q])'
  <2>1. CASE WriteFails(p)
    <3>1. proc[p].at \in {"read", "truncate", "write"} /\ After(p, FALSE)
      BY <2>1 DEF WriteFails
    <3>2. p \in Running
      BY <3>1 DEF Running, Stopped
    <3> QED
      BY <1>2, <3>1, <3>2, AfterFine
  <2>2. CASE Exit(p)
    <3>1. Go(p, Stopped) /\ Stopped \in Proc /\ ProcInv(Stopped)'
      BY <2>2 DEF Exit, Proc, ProcInv
    <3> QED
      BY <1>2, <3>1, GoFine
  <2> QED
    BY <2>1, <2>2
<1>4. quiet' \in BOOLEAN /\ fails' \in 0 .. MaxFails /\ starts' \in 0 .. MaxStarts
      /\ registry' \in [Value -> Env]
      /\ server' \in [up : BOOLEAN, env : Env] /\ EnvGenuine(server'.env)
  BY <1>1, Counts DEF DeployInv, TypeOK
<1> QED
  BY <1>1, <1>3, <1>4, RegistryGenuine, SameFile

\* The server starts from genuine settings; when it stops, its requests do.
LEMMA ServerStep ==
    ASSUME DeployInv, StartServer \/ ServerExit \/ DeployScript
    PROVE  DeployInv'
<1>1. UNCHANGED <<file, made, registry>> /\ MadeStays
  BY DEF StartServer, ServerExit, DeployScript, MadeStays
<1>2. fails' \in 0 .. MaxFails /\ starts' \in 0 .. MaxStarts /\ quiet' \in BOOLEAN
      /\ registry' \in [Value -> Env]
  BY <1>1, Counts DEF StartServer, ServerExit, DeployScript, DeployInv, TypeOK
<1>3. server' \in [up : BOOLEAN, env : Env] /\ EnvGenuine(server'.env)
  <2>1. server \in [up : BOOLEAN, env : Env] /\ EnvGenuine(server.env)
    BY DEF DeployInv, TypeOK
  <2>2. CASE StartServer
    BY <2>2, FileGenuine, EnvFromFile DEF StartServer
  <2>3. CASE ServerExit
    BY <2>1, <2>3 DEF ServerExit
  <2>4. CASE DeployScript
    BY <2>1, <2>4 DEF DeployScript
  <2> QED
    BY <2>2, <2>3, <2>4
<1>4. proc' \in [Procs -> Proc] /\ \A q \in Procs : ProcInv(proc[q])'
  <2>1. ASSUME NEW q \in Procs
        PROVE  proc[q] \in Proc /\ ProcInv(proc[q]) /\ proc'[q] \in {Stopped, proc[q]}
    BY DEF StartServer, ServerExit, DeployScript, DeployInv, TypeOK
  <2>2. Stopped \in Proc /\ ProcInv(Stopped)'
    BY DEF Proc, ProcInv
  <2>3. ASSUME NEW q \in Procs PROVE proc'[q] \in Proc /\ ProcInv(proc[q])'
    <3>1. CASE proc'[q] = Stopped
      BY <2>2, <3>1
    <3>2. CASE proc'[q] = proc[q]
      BY <1>1, <2>1, <3>2, StaysFine
    <3> QED
      BY <2>1, <3>1, <3>2
  <2>4. proc' = [q \in Procs |-> proc'[q]]
    BY DEF StartServer, ServerExit, DeployScript, DeployInv, TypeOK
  <2> QED
    BY <2>3, <2>4
<1> QED
  BY <1>1, <1>2, <1>3, <1>4, RegistryGenuine, SameFile

\* Every step keeps the invariant.
LEMMA DeployStep == DeployInv /\ [Next]_vars => DeployInv'
<1> SUFFICES ASSUME DeployInv, [Next]_vars PROVE DeployInv'
  OBVIOUS
<1>1. ASSUME NEW p \in Procs, NEW s \in Scripts[p], Start(p, s) PROVE DeployInv'
  BY <1>1, StartStep
<1>2. ASSUME NEW p \in Procs, Step(p) PROVE DeployInv'
  BY <1>2, MakeStep, SetAddressStep, ReadFileStep, TruncateStep, WriteStep DEF Step
<1>3. ASSUME NEW p \in Procs, WriteFails(p) \/ Exit(p) PROVE DeployInv'
  BY <1>3, FailStep
<1>4. CASE UNCHANGED vars
  BY <1>4 DEF vars, DeployInv, TypeOK, OneLinePerKey, EntriesAreGenuine, ProcInv, Genuine,
              EnvGenuine, IsFor
<1> QED
  BY <1>1, <1>2, <1>3, <1>4, ServerStep DEF Next

\* The invariant holds always.
LEMMA DeployCorrect == Spec => []DeployInv
<1> QED
  BY DeployInit, DeployStep, PTL DEF Spec

-----------------------------------------------------------------------------
\* However many scripts write .env at the same time, and wherever one of them
\* is stopped, no key of .env ever has two lines (writeToEnvFile).
THEOREM OneLineCorrect == Spec => []OneLinePerKey
<1>1. DeployInv => OneLinePerKey
  BY DEF DeployInv
<1> QED
  BY <1>1, DeployCorrect, PTL

\* An address in .env or with an address manager is always that of a contract
\* deployed under the name it stands at (writeToEnvFile, setLib_AddressManager).
THEOREM GenuineCorrect == Spec => []EntriesAreGenuine
<1>1. DeployInv => EntriesAreGenuine
  BY DEF DeployInv
<1> QED
  BY <1>1, DeployCorrect, PTL

-----------------------------------------------------------------------------
(* The names .env came with stay in it.                                    *)

HasSettings(d) == \A i \in DOMAIN Settings : HasKey(d, Settings[i])

\* Until somebody reads or is stopped between a truncation and its write, every
\* process between reading and writing has read all names, and the file has
\* them unless it was truncated.
QuietInv ==
    quiet =>
      /\ \A p \in Writing : HasSettings(proc[p].data)
      /\ (\A p \in Running : proc[p].at # "write") => HasSettings(file)

\* A key is in the lines when they give values for it.
LEMMA HasKeyValues == \A d, k : HasKey(d, k) <=> Values(d, k) # {}
BY DEF HasKey, Values

\* What is written has every key that was read.
LEMMA UpdatedHas ==
    ASSUME NEW d \in Seq(Line), NEW k \in Key, NEW v \in Value, NEW j \in Key,
           HasKey(d, j)
    PROVE  HasKey(Updated(d, k, v), j)
<1>1. Values(d, j) # {}
  BY HasKeyValues
<1>2. CASE j = k
  <2>1. Values(Updated(d, k, v), j) = {v}
    BY <1>2, UpdatedValues
  <2>2. {v} # {}
    OBVIOUS
  <2> QED
    BY <2>1, <2>2, HasKeyValues
<1>3. CASE j # k
  <2>1. Values(Updated(d, k, v), j) = Values(d, j)
    BY <1>3, UpdatedValues
  <2> QED
    BY <1>1, <2>1, HasKeyValues
<1> QED
  BY <1>2, <1>3

\* The processes that write are running.
LEMMA WritingRuns == \A p \in Procs : /\ p \in Writing <=> proc[p].at \in {"truncate", "write"}
                                      /\ p \in Running <=> proc[p] # Stopped
BY DEF Writing, Running, Stopped

\* A step that leaves .env alone and after which nobody writes who did not
LEMMA QuietKept ==
    ASSUME QuietInv, file' = file, quiet' => quiet,
           \A q \in Procs : proc'[q].at \in {"truncate", "write"} =>
                proc'[q].at = proc[q].at /\ proc'[q].data = proc[q].data,
           \A q \in Procs : proc[q].at = "write" => proc'[q].at = "write" \/ ~quiet'
    PROVE  QuietInv'
<1> SUFFICES ASSUME quiet' PROVE QuietInv'
  BY DEF QuietInv
<1>1. ASSUME NEW q \in Writing' PROVE HasSettings(proc[q].data)'
  <2>1. q \in Procs /\ q \in Writing /\ proc'[q].data = proc[q].data
    BY <1>1 DEF Writing, Running, Stopped
  <2> QED
    BY <2>1 DEF QuietInv, HasSettings, HasKey
<1>2. (\A q \in Running' : proc'[q].at # "write") => \A q \in Running : proc[q].at # "write"
  BY DEF Running, Stopped
<1> QED
  BY <1>1, <1>2 DEF QuietInv, HasSettings, HasKey

\* A step of p that leaves .env alone and after which p does not write
LEMMA QuietElsewhere ==
    ASSUME QuietInv, NEW p \in Procs, file' = file, quiet' => quiet,
           \A q \in Procs : q # p => /\ proc'[q].at = proc[q].at
                                     /\ proc[q] # Stopped => proc'[q].data = proc[q].data,
           proc[p].at = "write" => ~quiet',
           proc'[p].at \notin {"truncate", "write"}
    PROVE  QuietInv'
<1>1. \A q \in Procs : proc'[q].at \in {"truncate", "write"} =>
          proc'[q].at = proc[q].at /\ proc'[q].data = proc[q].data
  BY DEF Stopped
<1>2. \A q \in Procs : proc[q].at = "write" => proc'[q].at = "write" \/ ~quiet'
  OBVIOUS
<1> QED
  BY <1>1, <1>2, QuietKept

\* The others in a step of p
LEMMA Others ==
    ASSUME DeployInv, NEW p \in Procs, NEW n, Go(p, n)
    PROVE  proc'[p] = n /\ \A q \in Procs : q # p => proc'[q] = proc[q]
BY DEF Go, DeployInv, TypeOK

\* After a command, p has done nothing of the next.
LEMMA AfterIdle ==
    ASSUME DeployInv, NEW p \in Procs, proc[p] # Stopped, NEW b \in BOOLEAN, After(p, b)
    PROVE  /\ proc'[p].at \in {"stopped", "next"}
           /\ \A q \in Procs : q # p => proc'[q] = proc[q]
<1>1. proc[p] \in Active
  BY Acting
<1>2. CASE Len(proc[p].todo) = 1
  <2>1. Go(p, Stopped) /\ Stopped.at = "stopped"
    BY <1>2 DEF After, Stopped
  <2> QED
    BY <2>1, Others
<1>3. CASE Len(proc[p].todo) # 1
  <2>1. PICK n : n = [proc[p] EXCEPT !.at = "next", !.todo = Tail(@), !.addr = 0,
                                     !.data = <<>>, !.alone = b]
    OBVIOUS
  <2>2. Go(p, n)
    BY <1>3, <2>1 DEF After
  <2>3. n.at = "next"
    BY <1>1, <2>1 DEF Active
  <2> QED
    BY <2>2, <2>3, Others
<1> QED
  BY <1>2, <1>3

\* At first .env has every name and nobody has read it.
LEMMA QuietInit == Init => QuietInv
<1> SUFFICES ASSUME Init PROVE QuietInv
  OBVIOUS
<1>1. HasSettings(file)
  BY FirstFile DEF HasSettings, HasKey
<1>2. Running = {} /\ Writing = {}
  BY DEF Init, Running, Writing
<1> QED
  BY <1>1, <1>2 DEF QuietInv

\* Every step keeps QuietInv.
LEMMA QuietStep == DeployInv /\ QuietInv /\ [Next]_vars => QuietInv'
<1> SUFFICES ASSUME DeployInv, QuietInv, [Next]_vars PROVE QuietInv'
  OBVIOUS
<1>1. ASSUME NEW p \in Procs, NEW s \in Scripts[p], Start(p, s) PROVE QuietInv'
  <2>1. proc[p].at = "stopped" /\ proc'[p].at = "next" /\ file' = file /\ quiet' = quiet
    BY <1>1 DEF Start, Stopped
  <2>2. ASSUME NEW q \in Procs, q # p
        PROVE  /\ proc'[q].at = proc[q].at
               /\ proc[q] # Stopped => proc'[q].data = proc[q].data
    <3>1. CASE q \in Running
      <4>1. proc[q] \in Active /\ proc'[q] = [proc[q] EXCEPT !.alone = FALSE]
        BY <1>1, <2>2, <3>1, Acting DEF Start, Running
      <4> QED
        BY <4>1 DEF Active
    <3>2. CASE q \notin Running
      BY <1>1, <2>2, <3>2 DEF Start, Running
    <3> QED
      BY <3>1, <3>2
  <2> QED
    BY <2>1, <2>2, QuietElsewhere
<1>2. ASSUME NEW p \in Procs, Send(p) \/ DeployElsewhere(p) PROVE QuietInv'
  <2>1. proc[p].at = "next" /\ Makes(p) /\ file' = file /\ quiet' = quiet
    BY <1>2 DEF Send, DeployElsewhere, Makes
  <2>2. proc[p] \in Active
    BY <2>1, Acting DEF Stopped
  <2>3. PICK n : n = [proc[p] EXCEPT !.at = "read", !.addr = Len(made) + 1]
    OBVIOUS
  <2>4. Go(p, n) /\ n.at = "read"
    BY <2>1, <2>2, <2>3 DEF Makes, Active
  <2>5. proc'[p].at \notin {"truncate", "write"}
    BY <2>4, Others
  <2> QED
    BY <2>1, <2>4, <2>5, Others, QuietElsewhere
<1>3. ASSUME NEW p \in Procs, SetAddress(p) \/ WriteFails(p) PROVE QuietInv'
  <2>1. proc[p].at # "stopped" /\ file' = file
        /\ quiet' = (quiet /\ proc[p].at # "write")
    <3>1. quiet \in BOOLEAN
      BY DEF DeployInv, TypeOK
    <3> QED
      BY <1>3, <3>1 DEF SetAddress, Registers, WriteFails
  <2>2. proc[p] # Stopped
    BY <2>1 DEF Stopped
  <2>3. proc[p].alone \in BOOLEAN
    BY <2>2, Acting DEF Active
  <2>4. PICK b \in BOOLEAN : After(p, b)
    BY <1>3, <2>3 DEF SetAddress, Done, WriteFails
  <2>5. proc'[p].at \in {"stopped", "next"} /\ \A q \in Procs : q # p => proc'[q] = proc[q]
    BY <2>2, <2>4, AfterIdle
  <2>6. proc'[p].at \notin {"truncate", "write"}
    BY <2>5
  <2> QED
    BY <2>1, <2>5, <2>6, QuietElsewhere
<1>4. ASSUME NEW p \in Procs, Exit(p) PROVE QuietInv'
  <2>1. file' = file /\ quiet' = (quiet /\ proc[p].at # "write") /\ Go(p, Stopped)
    BY <1>4 DEF Exit
  <2>2. proc'[p].at = "stopped" /\ \A q \in Procs : q # p => proc'[q] = proc[q]
    BY <2>1, Others DEF Stopped
  <2> QED
    BY <2>1, <2>2, QuietElsewhere
<1>5. ASSUME NEW p \in Procs, ReadFile(p), quiet' PROVE QuietInv'
  <2>1. proc[p].at = "read" /\ quiet /\ (\A q \in Running : proc[q].at # "write") /\ file' = file
    BY <1>5 DEF ReadFile
  <2>2. proc[p] \in Active
    BY <2>1, Acting DEF Stopped
  <2>3. PICK n : n = [proc[p] EXCEPT !.at = "truncate", !.data = file]
    OBVIOUS
  <2>4. Go(p, n) /\ n.at = "truncate" /\ n.data = file
    BY <1>5, <2>2, <2>3 DEF ReadFile, Active
  <2>5. proc'[p] = n /\ \A q \in Procs : q # p => proc'[q] = proc[q]
    BY <2>4, Others
  <2>6. HasSettings(file) /\ HasSettings(file)'
    BY <2>1 DEF QuietInv, HasSettings, HasKey
  <2>7. ASSUME NEW q \in Writing' PROVE HasSettings(proc[q].data)'
    <3>1. CASE q = p
      BY <2>4, <2>5, <2>6, <3>1 DEF HasSettings, HasKey
    <3>2. CASE q # p
      <4>1. q \in Writing /\ proc'[q] = proc[q]
        BY <2>5, <2>7, <3>2 DEF Writing, Running
      <4> QED
        BY <2>1, <4>1 DEF QuietInv, HasSettings, HasKey
    <3> QED
      BY <3>1, <3>2
  <2> QED
    BY <2>6, <2>7 DEF QuietInv
<1>6. ASSUME NEW p \in Procs, TruncateFile(p), quiet' PROVE QuietInv'
  <2>1. proc[p].at = "truncate" /\ quiet
    BY <1>6 DEF TruncateFile
  <2>2. proc[p] \in Active
    BY <2>1, Acting DEF Stopped
  <2>3. PICK n : n = [proc[p] EXCEPT !.at = "write"]
    OBVIOUS
  <2>4. Go(p, n) /\ n.at = "write" /\ n.data = proc[p].data
    BY <1>6, <2>2, <2>3 DEF TruncateFile, Active
  <2>5. proc'[p] = n /\ \A q \in Procs : q # p => proc'[q] = proc[q]
    BY <2>4, Others
  <2>6. p \in Running'
    BY <2>4, <2>5 DEF Running, Stopped
  <2>7. ASSUME NEW q \in Writing' PROVE HasSettings(proc[q].data)'
    <3>1. q \in Writing /\ proc'[q].data = proc[q].data
      <4>1. p \in Writing
        BY <2>1, WritingRuns
      <4> QED
        BY <2>4, <2>5, <2>7, <4>1 DEF Writing, Running
    <3> QED
      BY <2>1, <3>1 DEF QuietInv, HasSettings, HasKey
  <2> QED
    BY <2>4, <2>5, <2>6, <2>7 DEF QuietInv
<1>7. ASSUME NEW p \in Procs, WriteFile(p), quiet' PROVE QuietInv'
  <2>1. proc[p].at = "write" /\ quiet /\ file' = Updated(proc[p].data, Key1(p), proc[p].addr)
    BY <1>7 DEF WriteFile
  <2>2. proc[p] # Stopped
    BY <2>1 DEF Stopped
  <2>3. proc[p] \in Active /\ Key1(p) \in Key
    BY <2>2, Acting
  <2>4. proc[p].data \in Seq(Line) /\ proc[p].addr \in Value /\ proc[p].alone \in BOOLEAN
    BY <2>3 DEF Active
  <2>5. HasSettings(proc[p].data)
    BY <2>1, WritingRuns DEF QuietInv
  <2>6. HasSettings(file)'
    <3>1. \A i \in DOMAIN Settings : Settings[i] \in Key
      BY SettingsAssumption
    <3> QED
      BY <2>1, <2>3, <2>4, <2>5, <3>1, UpdatedHas DEF HasSettings
  <2>7. proc'[p].at \in {"stopped", "next"} /\ \A q \in Procs : q # p => proc'[q] = proc[q]
    BY <1>7, <2>2, <2>4, AfterIdle DEF WriteFile, Done
  <2>8. ASSUME NEW q \in Writing' PROVE HasSettings(proc[q].data)'
    <3>1. q \in Writing /\ proc'[q].data = proc[q].data
      BY <2>7, <2>8 DEF Writing, Running
    <3> QED
      BY <2>1, <3>1 DEF QuietInv, HasSettings, HasKey
  <2> QED
    BY <2>6, <2>8 DEF QuietInv
<1>10. CASE ServerExit
  <2>1. file' = file /\ (quiet' => quiet)
        /\ \A q \in Procs : IF q \in Requests THEN proc'[q] = Stopped ELSE proc'[q] = proc[q]
    BY <1>10 DEF ServerExit, DeployInv, TypeOK
  <2>2. ASSUME NEW q \in Procs, proc[q].at = "write" PROVE proc'[q].at = "write" \/ ~quiet'
    <3>1. q \in Running
      BY <2>2 DEF Running, Stopped
    <3> QED
      BY <1>10, <2>1, <2>2, <3>1 DEF ServerExit
  <2>3. \A q \in Procs : proc'[q].at \in {"truncate", "write"} =>
            proc'[q].at = proc[q].at /\ proc'[q].data = proc[q].data
    BY <2>1 DEF Stopped
  <2> QED
    BY <2>1, <2>2, <2>3, QuietKept
<1>11. CASE StartServer \/ DeployScript
  <2>1. file' = file /\ proc' = proc /\ quiet' = quiet
    BY <1>11 DEF StartServer, DeployScript
  <2> QED
    BY <2>1 DEF QuietInv, Writing, Running, HasSettings, HasKey
<1>8. CASE ~quiet'
  BY <1>8 DEF QuietInv
<1>9. CASE UNCHANGED vars
  BY <1>9 DEF vars, QuietInv, Writing, Running, HasSettings, HasKey
<1> QED
  BY <1>1, <1>2, <1>3, <1>4, <1>5, <1>6, <1>7, <1>8, <1>9, <1>10, <1>11 DEF Next, Step

\* As long as nobody reads .env between the truncation and the write of another
\* and nobody is stopped there, it keeps every name it came with, however many
\* writes overlap (writeToEnvFile, which empties the file before it writes).
THEOREM SettingsKept == Spec => []KeepsSettings
<1>1. QuietInv => KeepsSettings
  BY DEF QuietInv, KeepsSettings, HasSettings
<1> QED
  BY <1>1, DeployCorrect, QuietInit, DeployStep, QuietStep, DeployInit, PTL DEF Spec

-----------------------------------------------------------------------------
(* A process that has .env to itself.                                      *)

Unmixed(s) == \A i, j \in DOMAIN s : s[i].key = s[j].key => s[i].op = s[j].op

\* t is what is left of s.
IsRest(t, s) == Len(t) <= Len(s) /\ \A j \in DOMAIN t : t[j] = s[Len(s) - Len(t) + j]

\* The lines a process stands on: what it truncated is in its data.
Lines(r) == IF r.at = "write" THEN r.data ELSE file

\* The lines d have what command i wrote or registered.
Agreed(r, d, i) ==
    LET k == r.all[i].key
    IN  /\ HasKey(d, k)
        /\ \A v \in Values(d, k) :
              IF r.all[i].op = "set" THEN v = registry[r.env["Lib_AddressManager"]][k]
              ELSE Newest(made, v, k)

\* The names to register have the values they had when the process started.
SettingsStand(r, d) ==
    \A i \in DOMAIN r.all :
        r.all[i].op = "set" /\ r.env[r.all[i].key] # Unset
            => Values(d, r.all[i].key) = {r.env[r.all[i].key]}

\* What is in hand is the newest of its name and not yet written.
InHand(r) == r.at \in {"read", "truncate", "write"}

Orderly(r) ==
    /\ Unmixed(r.all) /\ IsRest(r.todo, r.all)
    /\ r.at # "next" => Head(r.todo).op # "set"
    /\ r.at = "truncate" => r.data = file
    /\ InHand(r) => Newest(made, r.addr, Head(r.todo).key)
    /\ SettingsStand(r, Lines(r))
    /\ \A i \in 1 .. Len(r.all) - Len(r.todo) :
          ~(InHand(r) /\ r.all[i].key = Head(r.todo).key) => Agreed(r, Lines(r), i)

AloneInv ==
    \A p \in Procs : proc[p] # Stopped /\ proc[p].alone =>
        /\ \A q \in Procs : q # p => proc[q] = Stopped
        /\ Orderly(proc[p])

\* Where the first command left is in the script
LEMMA FirstLeft ==
    ASSUME NEW r \in Active, IsRest(r.todo, r.all)
    PROVE  /\ DOMAIN r.all = 1 .. Len(r.all)
           /\ \A i \in DOMAIN r.all : r.all[i] \in Command
           /\ \E c \in DOMAIN r.all : /\ c = Len(r.all) - Len(r.todo) + 1
                                      /\ r.all[c] = Head(r.todo)
                                      /\ Len(r.all) - Len(r.todo) = c - 1
                                      /\ Len(r.todo) = 1 => c = Len(r.all)
<1>1. r.all \in Seq(Command) /\ r.todo \in Seq(Command) /\ r.todo # <<>>
  BY DEF Active, Script
<1>2. PICK t \in Seq(Command), s \in Seq(Command) : t = r.todo /\ s = r.all
  BY <1>1
<1>3. IsRest(t, s) /\ t # <<>>
  BY <1>1, <1>2
<1>4. /\ Len(t) \in Nat \ {0} /\ Len(s) \in Nat /\ 1 \in DOMAIN t /\ DOMAIN s = 1 .. Len(s)
      /\ Head(t) = t[1]
  BY <1>3
<1>5. Len(t) <= Len(s) /\ t[1] = s[Len(s) - Len(t) + 1]
  BY <1>3, <1>4 DEF IsRest
<1>6. PICK c \in 1 .. Len(s) : c = Len(s) - Len(t) + 1
  BY <1>4, <1>5
<1>7. Len(s) - Len(t) = c - 1 /\ (Len(t) = 1 => c = Len(s))
  <2>1. Len(s) \in Int /\ Len(t) \in Int
    BY <1>4
  <2>2. Len(s) - Len(t) = c - 1
    BY <1>6, <2>1
  <2>3. ASSUME Len(t) = 1 PROVE c = Len(s)
    <3>1. Len(s) - 1 = c - 1 /\ c \in Int
      BY <2>1, <2>2, <2>3
    <3> QED
      BY <2>1, <3>1
  <2> QED
    BY <2>2, <2>3
<1>8. \A i \in DOMAIN s : s[i] \in Command
  OBVIOUS
<1>9. c \in DOMAIN s /\ s[c] = Head(t)
  BY <1>4, <1>5, <1>6
<1> QED
  BY <1>2, <1>4, <1>6, <1>7, <1>8, <1>9

\* What is left after the first of it
LEMMA RestTail ==
    ASSUME NEW t \in Seq(Command), t # <<>>, NEW s \in Seq(Command), IsRest(t, s)
    PROVE  /\ IsRest(Tail(t), s)
           /\ Len(s) - Len(Tail(t)) = Len(s) - Len(t) + 1
<1>1. /\ Len(s) \in Nat /\ Len(t) \in Nat \ {0} /\ Len(t) <= Len(s)
      /\ Len(Tail(t)) = Len(t) - 1
  BY DEF IsRest
<1>2. ASSUME NEW j \in DOMAIN Tail(t)
      PROVE  Tail(t)[j] = s[Len(s) - Len(Tail(t)) + j]
  <2>1. j \in Nat /\ j + 1 \in DOMAIN t /\ Tail(t)[j] = t[j + 1]
    OBVIOUS
  <2>2. t[j + 1] = s[Len(s) - Len(t) + (j + 1)]
    BY <2>1 DEF IsRest
  <2>3. Len(s) - Len(t) + (j + 1) = Len(s) - Len(Tail(t)) + j
    BY <1>1, <2>1
  <2> QED
    BY <2>1, <2>2, <2>3
<1>3. Len(Tail(t)) <= Len(s) /\ Len(s) - Len(Tail(t)) = Len(s) - Len(t) + 1
  BY <1>1
<1> QED
  BY <1>2, <1>3 DEF IsRest

\* A process that goes on to the next command
LEMMA NextOrderly ==
    ASSUME NEW r \in Active, Unmixed(r.all), IsRest(r.todo, r.all), Len(r.todo) # 1,
           NEW b \in BOOLEAN, NEW n,
           n = [r EXCEPT !.at = "next", !.todo = Tail(@), !.addr = 0, !.data = <<>>,
                         !.alone = b],
           SettingsStand(r, file'),
           \A i \in 1 .. Len(r.all) - Len(r.todo) + 1 : Agreed(r, file, i)'
    PROVE  Orderly(n)'
<1>1. n.at = "next" /\ n.todo = Tail(r.todo) /\ n.all = r.all /\ n.env = r.env
  BY DEF Active
<1>2. r.all \in Seq(Command) /\ r.todo \in Seq(Command) /\ r.todo # <<>>
  BY DEF Active, Script
<1>3. IsRest(n.todo, n.all)
  BY <1>1, <1>2, RestTail
<1>4. Len(n.all) - Len(n.todo) = Len(r.all) - Len(r.todo) + 1
  BY <1>1, <1>2, RestTail
<1>5. Lines(n)' = file'
  BY <1>1 DEF Lines
<1>6. \A i \in 1 .. Len(n.all) - Len(n.todo) : Agreed(n, Lines(n), i)'
  BY <1>1, <1>4, <1>5 DEF Agreed
<1>7. SettingsStand(n, Lines(n))'
  BY <1>1, <1>5 DEF SettingsStand
<1>8. ~InHand(n)
  BY <1>1 DEF InHand
<1> QED
  BY <1>1, <1>3, <1>6, <1>7, <1>8 DEF Orderly

\* What an address manager has after one name was registered with it
LEMMA RegistryAfter ==
    ASSUME DeployInv, NEW p \in Procs, proc[p] # Stopped, NEW k \in Key, NEW a,
           Registers(p, k, a)
    PROVE  LET m == proc[p].env["Lib_AddressManager"]
           IN  /\ registry'[m][k] = a
               /\ \A j \in Key \ {k} : registry'[m][j] = registry[m][j]
<1> DEFINE m == proc[p].env["Lib_AddressManager"]
<1>1. m \in Value
  <2>1. "Lib_AddressManager" \in Key /\ proc[p].env \in Env
    BY Acting, DeployAssumption DEF Active
  <2> QED
    BY <2>1 DEF Registers, Env
<1>2. registry \in [Value -> [Key -> Value \cup {Unset}]]
  BY DEF DeployInv, TypeOK, Env
<1>3. registry' = [registry EXCEPT ![m][k] = a]
  BY DEF Registers
<1> HIDE DEF m
<1>4. registry'[m][k] = a /\ \A j \in Key \ {k} : registry'[m][j] = registry[m][j]
  BY <1>1, <1>2, <1>3
<1> QED
  BY <1>4 DEF m

\* After a name was registered, .env and the registry agree about every command
\* so far.
LEMMA SetAgrees ==
    ASSUME DeployInv, NEW p \in Procs, NEW r, r = proc[p], Orderly(r), SetAddress(p)
    PROVE  /\ SettingsStand(r, file')
           /\ \A i \in 1 .. Len(r.all) - Len(r.todo) + 1 : Agreed(r, file, i)'
<1>1. r.at = "next" /\ Head(r.todo).op = "set" /\ r.env[Key1(p)] # Unset
      /\ Registers(p, Key1(p), r.env[Key1(p)]) /\ file' = file /\ made' = made
  BY DEF SetAddress, Registers
<1>2. r # Stopped
  BY <1>1 DEF Stopped
<1>3. r \in Active /\ Key1(p) \in Key
  BY <1>2, Acting
<1>4. PICK k \in Key : k = Key1(p)
  BY <1>3
<1>5. PICK c \in DOMAIN r.all : /\ c = Len(r.all) - Len(r.todo) + 1
                               /\ r.all[c] = Head(r.todo)
                               /\ Len(r.all) - Len(r.todo) = c - 1
  BY <1>3, FirstLeft DEF Orderly
<1>6. /\ r.all[c].key = k /\ DOMAIN r.all = 1 .. Len(r.all) /\ c \in Nat \ {0}
      /\ 1 .. c \subseteq DOMAIN r.all
      /\ \A i \in DOMAIN r.all : r.all[i] \in Command
  <2>1. DOMAIN r.all = 1 .. Len(r.all) /\ \A i \in DOMAIN r.all : r.all[i] \in Command
    BY <1>3, FirstLeft DEF Orderly
  <2>2. r.all[c].key = k
    BY <1>4, <1>5 DEF Key1
  <2>3. Len(r.all) \in Nat
    BY <1>3 DEF Active, Script
  <2>4. c \in Nat \ {0} /\ 1 .. c \subseteq DOMAIN r.all
    BY <2>1, <2>3
  <2> QED
    BY <2>1, <2>2, <2>4
<1>7. Lines(r) = file /\ ~InHand(r)
  BY <1>1 DEF Lines, InHand
<1>8. SettingsStand(r, file)
  BY <1>7 DEF Orderly
<1>9. Values(file, k) = {r.env[k]}
  BY <1>1, <1>4, <1>5, <1>6, <1>8 DEF SettingsStand
<1>10. HasKey(file, k)
  <2>1. {r.env[k]} # {}
    OBVIOUS
  <2> QED
    BY <1>9, <2>1, HasKeyValues
<1>11. PICK m : m = r.env["Lib_AddressManager"]
  OBVIOUS
<1>12. registry'[m][k] = r.env[k] /\ \A j \in Key \ {k} : registry'[m][j] = registry[m][j]
  BY <1>1, <1>2, <1>3, <1>4, <1>11, RegistryAfter
<1>13. ASSUME NEW i \in 1 .. c PROVE Agreed(r, file, i)'
  <2>1. i \in DOMAIN r.all /\ r.all[i].key \in Key
    BY <1>6 DEF Command
  <2>2. CASE r.all[i].key = k
    <3>1. r.all[c].op = "set" /\ r.all[c].key = k
      BY <1>1, <1>5, <1>6
    <3>2. Unmixed(r.all)
      BY DEF Orderly
    <3>3. r.all[i].op = "set"
      BY <2>1, <2>2, <3>1, <3>2 DEF Unmixed
    <3> QED
      BY <1>1, <1>9, <1>10, <1>11, <1>12, <2>2, <3>3 DEF Agreed
  <2>3. CASE r.all[i].key # k
    <3>1. i \in 1 .. c - 1
      BY <1>6, <2>3
    <3>2. Agreed(r, file, i)
      BY <1>5, <1>7, <3>1 DEF Orderly
    <3> QED
      BY <1>1, <1>11, <1>12, <2>1, <2>3, <3>2 DEF Agreed
  <2> QED
    BY <2>2, <2>3
<1> QED
  BY <1>1, <1>5, <1>8, <1>13

\* The same after an address was written to .env.
LEMMA WriteAgrees ==
    ASSUME DeployInv, NEW p \in Procs, NEW r, r = proc[p], Orderly(r), WriteFile(p)
    PROVE  /\ SettingsStand(r, file')
           /\ \A i \in 1 .. Len(r.all) - Len(r.todo) + 1 : Agreed(r, file, i)'
<1>1. r.at = "write" /\ file' = Updated(r.data, Key1(p), r.addr)
      /\ UNCHANGED <<made, registry>>
  BY DEF WriteFile
<1>2. r # Stopped
  BY <1>1 DEF Stopped
<1>3. r \in Active /\ Key1(p) \in Key
  BY <1>2, Acting
<1>4. PICK k \in Key : k = Key1(p)
  BY <1>3
<1>5. PICK c \in DOMAIN r.all : /\ c = Len(r.all) - Len(r.todo) + 1
                               /\ r.all[c] = Head(r.todo)
                               /\ Len(r.all) - Len(r.todo) = c - 1
  BY <1>3, FirstLeft DEF Orderly
<1>6. /\ r.all[c].key = k /\ DOMAIN r.all = 1 .. Len(r.all) /\ c \in Nat \ {0}
      /\ 1 .. c \subseteq DOMAIN r.all
      /\ \A i \in DOMAIN r.all : r.all[i] \in Command
  <2>1. DOMAIN r.all = 1 .. Len(r.all) /\ \A i \in DOMAIN r.all : r.all[i] \in Command
    BY <1>3, FirstLeft DEF Orderly
  <2>2. r.all[c].key = k
    BY <1>4, <1>5 DEF Key1
  <2>3. Len(r.all) \in Nat
    BY <1>3 DEF Active, Script
  <2>4. c \in Nat \ {0} /\ 1 .. c \subseteq DOMAIN r.all
    BY <2>1, <2>3
  <2> QED
    BY <2>1, <2>2, <2>4
<1>7. Lines(r) = r.data /\ InHand(r)
  BY <1>1 DEF Lines, InHand
<1>8. \A i \in DOMAIN r.all : r.all[i].key = k => r.all[i].op # "set"
  <2>1. r.all[c].op # "set"
    BY <1>1, <1>5 DEF Orderly
  <2> QED
    BY <1>6, <2>1 DEF Orderly, Unmixed
<1>9. r.data \in Seq(Line) /\ r.addr \in Value
  BY <1>3 DEF Active
<1>10. Values(file', k) = {r.addr} /\ \A j \in Key \ {k} : Values(file', j) = Values(r.data, j)
  BY <1>1, <1>4, <1>9, UpdatedValues
<1>11. SettingsStand(r, file')
  <2>1. SettingsStand(r, r.data)
    BY <1>7 DEF Orderly
  <2>2. ASSUME NEW i \in DOMAIN r.all, r.all[i].op = "set"
        PROVE  Values(file', r.all[i].key) = Values(r.data, r.all[i].key)
    <3>1. r.all[i].key \in Key \ {k}
      BY <1>6, <1>8, <2>2 DEF Command
    <3> QED
      BY <1>10, <3>1
  <2> QED
    BY <2>1, <2>2 DEF SettingsStand
<1>12. ASSUME NEW i \in 1 .. c PROVE Agreed(r, file, i)'
  <2>1. i \in DOMAIN r.all /\ r.all[i].key \in Key
    BY <1>6 DEF Command
  <2>2. CASE r.all[i].key = k
    <3>1. HasKey(file', k)
      <4>1. {r.addr} # {}
        OBVIOUS
      <4> QED
        BY <1>10, <4>1, HasKeyValues
    <3>2. Newest(made', r.addr, k)
      BY <1>1, <1>4, <1>7 DEF Orderly, Key1
    <3>3. r.all[i].op # "set"
      BY <1>8, <2>1, <2>2
    <3> QED
      BY <1>10, <2>2, <3>1, <3>2, <3>3 DEF Agreed
  <2>3. CASE r.all[i].key # k
    <3>1. i \in 1 .. c - 1
      BY <1>6, <2>3
    <3>2. Agreed(r, r.data, i)
      BY <1>4, <1>5, <1>7, <2>3, <3>1 DEF Orderly, Key1
    <3>3. Values(file', r.all[i].key) = Values(r.data, r.all[i].key)
      BY <1>10, <2>1, <2>3
    <3>4. HasKey(file', r.all[i].key) <=> HasKey(r.data, r.all[i].key)
      BY <3>3, HasKeyValues
    <3> QED
      BY <1>1, <3>2, <3>3, <3>4 DEF Agreed
  <2> QED
    BY <2>2, <2>3
<1> QED
  BY <1>5, <1>11, <1>12

\* p goes on as n; if n is alone p was, and n is in order.
LEMMA AloneGo ==
    ASSUME DeployInv, AloneInv, NEW p \in Procs, proc[p] # Stopped, NEW n, Go(p, n),
           n # Stopped /\ n.alone => proc[p].alone /\ Orderly(n)'
    PROVE  AloneInv'
<1>1. proc'[p] = n /\ \A q \in Procs : q # p => proc'[q] = proc[q]
  BY Others
<1>2. ASSUME NEW q \in Procs, proc'[q] # Stopped, proc'[q].alone
      PROVE  (\A x \in Procs : x # q => proc'[x] = Stopped) /\ Orderly(proc[q])'
  <2>1. CASE q = p
    <3>1. proc[p].alone /\ Orderly(n)'
      BY <1>1, <1>2, <2>1
    <3>2. \A x \in Procs : x # p => proc[x] = Stopped
      BY <3>1 DEF AloneInv
    <3> QED
      BY <1>1, <2>1, <3>1, <3>2
  <2>2. CASE q # p
    <3>1. proc[q] # Stopped /\ proc[q].alone
      BY <1>1, <1>2, <2>2
    <3>2. proc[p] = Stopped
      BY <2>2, <3>1 DEF AloneInv
    <3> QED
      BY <3>2
  <2> QED
    BY <2>1, <2>2
<1> QED
  BY <1>2 DEF AloneInv

\* p is done with a command; if it is alone after that, it was before, and .env
\* and the registry agree about everything so far.
LEMMA AloneAfter ==
    ASSUME DeployInv, AloneInv, NEW p \in Procs, NEW r, r = proc[p], r # Stopped,
           NEW b \in BOOLEAN, After(p, b),
           b => /\ r.alone /\ SettingsStand(r, file')
                /\ \A i \in 1 .. Len(r.all) - Len(r.todo) + 1 : Agreed(r, file, i)'
    PROVE  AloneInv'
<1>1. r \in Active
  BY Acting
<1>2. CASE Len(r.todo) = 1
  <2>1. Go(p, Stopped)
    BY <1>2 DEF After
  <2> QED
    BY <2>1, AloneGo
<1>3. CASE Len(r.todo) # 1
  <2>1. PICK n : n = [r EXCEPT !.at = "next", !.todo = Tail(@), !.addr = 0, !.data = <<>>,
                               !.alone = b]
    OBVIOUS
  <2>2. Go(p, n)
    BY <1>3, <2>1 DEF After
  <2>3. n.alone = b
    BY <1>1, <2>1 DEF Active
  <2>4. ASSUME n.alone PROVE r.alone /\ Orderly(n)'
    <3>1. b
      BY <2>3, <2>4
    <3>2. Unmixed(r.all) /\ IsRest(r.todo, r.all)
      BY <3>1 DEF AloneInv, Orderly
    <3> QED
      BY <1>1, <1>3, <2>1, <3>1, <3>2, NextOrderly
  <2> QED
    BY <2>2, <2>4, AloneGo
<1> QED
  BY <1>2, <1>3

\* What is made is the newest of its name; the others keep their newest.
LEMMA NewestAfter ==
    ASSUME NEW all \in Seq(Key), NEW k \in Key
    PROVE  /\ Newest(Append(all, k), Len(all) + 1, k)
           /\ \A v, j : j # k /\ Newest(all, v, j) => Newest(Append(all, k), v, j)
<1>1. PICK n \in Nat : n = Len(all)
  OBVIOUS
<1>2. PICK a : a = Append(all, k)
  OBVIOUS
<1>3. DOMAIN all = 1 .. n /\ DOMAIN a = 1 .. n + 1 /\ a[n + 1] = k
      /\ \A i \in 1 .. n : a[i] = all[i]
  BY <1>1, <1>2
<1>4. Newest(a, n + 1, k)
  BY <1>3 DEF Newest
<1>5. ASSUME NEW v, NEW j, j # k, Newest(all, v, j) PROVE Newest(a, v, j)
  <2>1. v \in 1 .. n /\ all[v] = j /\ \A b \in 1 .. n : b > v => all[b] # j
    BY <1>3, <1>5 DEF Newest
  <2>2. \A b \in 1 .. n + 1 : b \in 1 .. n \/ b = n + 1
    OBVIOUS
  <2> QED
    BY <1>3, <1>5, <2>1, <2>2 DEF Newest
<1> QED
  BY <1>1, <1>2, <1>4, <1>5

\* Making, reading and truncating
LEMMA AloneMake ==
    ASSUME DeployInv, NEW p \in Procs, NEW r, r = proc[p], Orderly(r),
           Send(p) \/ DeployElsewhere(p),
           NEW n, n.all = r.all, n.todo = r.todo, n.env = r.env, n.at = "read",
           n.addr = Len(made) + 1
    PROVE  Orderly(n)'
<1>1. r.at = "next" /\ Head(r.todo).op # "set" /\ Makes(p)
  BY DEF Send, DeployElsewhere
<1>2. UNCHANGED <<file, registry>> /\ made' = Append(made, Key1(p)) /\ made \in Seq(Key)
  BY <1>1 DEF Makes, DeployInv, TypeOK
<1>3. PICK k : k = Key1(p) /\ k = Head(r.todo).key
  BY DEF Key1
<1>4. k \in Key
  <2>1. proc[p] # Stopped
    BY <1>1 DEF Stopped
  <2> QED
    BY <1>3, <2>1, Acting
<1>5. Newest(made', n.addr, k) /\ \A v, j : j # k /\ Newest(made, v, j) => Newest(made', v, j)
  BY <1>2, <1>3, <1>4, NewestAfter
<1>6. Lines(n)' = file /\ Lines(r) = file /\ ~InHand(r)
  BY <1>1, <1>2 DEF Lines, InHand
<1>7. SettingsStand(n, Lines(n))'
  BY <1>6 DEF Orderly, SettingsStand
<1>8. ASSUME NEW i \in 1 .. Len(n.all) - Len(n.todo), n.all[i].key # k
      PROVE  Agreed(n, Lines(n), i)'
  <2>1. Agreed(r, file, i)
    BY <1>6 DEF Orderly
  <2> QED
    BY <1>2, <1>5, <1>6, <1>8, <2>1 DEF Agreed
<1>9. \A i \in 1 .. Len(n.all) - Len(n.todo) :
          ~(InHand(n) /\ n.all[i].key = Head(n.todo).key) => Agreed(n, Lines(n), i)'
  BY <1>3, <1>8 DEF InHand
<1> QED
  BY <1>1, <1>3, <1>5, <1>7, <1>9 DEF Orderly

\* A process that is alone reads .env in order,
LEMMA AloneRead ==
    ASSUME DeployInv, NEW p \in Procs, NEW r, r = proc[p], Orderly(r), ReadFile(p),
           NEW n, n.all = r.all, n.todo = r.todo, n.env = r.env, n.addr = r.addr,
           n.at = "truncate", n.data = file
    PROVE  Orderly(n)'
<1>1. r.at = "read" /\ UNCHANGED <<file, made, registry>>
  BY DEF ReadFile
<1>2. Lines(n)' = file /\ Lines(r) = file /\ InHand(r) /\ InHand(n)
  BY <1>1 DEF Lines, InHand
<1>3. SettingsStand(n, Lines(n))'
  BY <1>2 DEF Orderly, SettingsStand
<1>4. ASSUME NEW i \in 1 .. Len(n.all) - Len(n.todo), n.all[i].key # Head(n.todo).key
      PROVE  Agreed(n, Lines(n), i)'
  <2>1. Agreed(r, file, i)
    BY <1>2, <1>4 DEF Orderly
  <2> QED
    BY <1>1, <1>2, <2>1 DEF Agreed
<1> QED
  BY <1>1, <1>2, <1>3, <1>4 DEF Orderly

\* and empties it in order.
LEMMA AloneTruncate ==
    ASSUME DeployInv, NEW p \in Procs, NEW r, r = proc[p], Orderly(r), TruncateFile(p),
           NEW n, n.all = r.all, n.todo = r.todo, n.env = r.env, n.addr = r.addr,
           n.at = "write", n.data = r.data
    PROVE  Orderly(n)'
<1>1. r.at = "truncate" /\ UNCHANGED <<made, registry>>
  BY DEF TruncateFile
<1>2. Lines(n)' = r.data /\ Lines(r) = r.data /\ InHand(r) /\ InHand(n)
  BY <1>1 DEF Lines, InHand, Orderly
<1>3. SettingsStand(n, Lines(n))'
  BY <1>2 DEF Orderly, SettingsStand
<1>4. ASSUME NEW i \in 1 .. Len(n.all) - Len(n.todo), n.all[i].key # Head(n.todo).key
      PROVE  Agreed(n, Lines(n), i)'
  <2>1. Agreed(r, r.data, i)
    BY <1>2, <1>4 DEF Orderly
  <2> QED
    BY <1>1, <1>2, <2>1 DEF Agreed
<1> QED
  BY <1>1, <1>2, <1>3, <1>4 DEF Orderly

\* A script that starts while nothing runs stands on the whole file.
LEMMA AloneStart ==
    ASSUME DeployInv, NEW p \in Procs, NEW s \in Scripts[p], Start(p, s)
    PROVE  AloneInv'
<1>1. PICK n : n = [at |-> "next",
                    env |-> IF p \in Requests THEN server.env ELSE ProcessEnv(file),
                    todo |-> s, all |-> s, addr |-> 0, data |-> <<>>, alone |-> Running = {}]
  OBVIOUS
<1>2. /\ proc' = [q \in Procs |-> IF q = p THEN n
                   ELSE IF q \in Running THEN [proc[q] EXCEPT !.alone = FALSE] ELSE proc[q]]
      /\ UNCHANGED <<file, registry>>
  BY <1>1 DEF Start
<1>3. ASSUME NEW q \in Procs, q # p
      PROVE  /\ q \notin Running => proc'[q] = Stopped
             /\ q \in Running => proc'[q].alone = FALSE
  <2>1. CASE q \in Running
    <3>1. proc[q] \in Active
      BY <2>1, Acting DEF Running
    <3>2. proc'[q] = [proc[q] EXCEPT !.alone = FALSE]
      BY <1>2, <1>3, <2>1
    <3> QED
      BY <2>1, <3>1, <3>2 DEF Active
  <2>2. CASE q \notin Running
    BY <1>2, <1>3, <2>2 DEF Running
  <2> QED
    BY <2>1, <2>2
<1>4. proc'[p] = n
  BY <1>2
<1>5. Orderly(n)'
  <2>1. s \in Seq(Command)
    BY DeployAssumption DEF Script
  <2>2. IsRest(s, s) /\ Unmixed(s) /\ Len(s) - Len(s) = 0
    BY <2>1, ScriptAssumption DEF IsRest, Unmixed
  <2>3. SettingsStand(n, file)
    <3> SUFFICES ASSUME NEW i \in DOMAIN s, s[i].op = "set", n.env[s[i].key] # Unset
                 PROVE  Values(file, s[i].key) = {n.env[s[i].key]}
      BY <1>1 DEF SettingsStand
    <3>1. PICK k \in Key : k = s[i].key
      <4>1. s[i] \in Command
        BY <2>1
      <4> QED
        BY <4>1 DEF Command
    <3>7. n.env = ProcessEnv(file)
      <4>1. p \notin Requests
        BY ScriptAssumption
      <4> QED
        BY <1>1, <4>1
    <3>2. HasKey(file, k) /\ n.env[k] = CHOOSE v \in Values(file, k) : TRUE
      BY <3>1, <3>7 DEF ProcessEnv
    <3>3. PICK h \in DOMAIN file : file[h].key = k
      BY <3>2 DEF HasKey
    <3>4. OneLinePer(file)
      BY FileGenuine
    <3>5. Values(file, k) = {file[h].value}
      BY <3>3, <3>4 DEF Values, OneLinePer
    <3>6. n.env[k] = file[h].value
      BY <3>2, <3>5
    <3> QED
      BY <3>1, <3>5, <3>6
  <2>4. n.at = "next" /\ n.all = s /\ n.todo = s
    BY <1>1
  <2>5. Lines(n)' = file /\ ~InHand(n)
    BY <1>2, <2>4 DEF Lines, InHand
  <2>6. SettingsStand(n, Lines(n))'
    BY <2>3, <2>5 DEF SettingsStand
  <2>7. 1 .. Len(n.all) - Len(n.todo) = {}
    BY <2>2, <2>4
  <2> QED
    BY <2>2, <2>4, <2>5, <2>6, <2>7 DEF Orderly
<1>6. n.alone => Running = {}
  BY <1>1
<1>7. ASSUME NEW q \in Procs, proc'[q] # Stopped, proc'[q].alone
      PROVE  (\A x \in Procs : x # q => proc'[x] = Stopped) /\ Orderly(proc[q])'
  <2>1. q = p
    BY <1>3, <1>7
  <2>2. Running = {}
    BY <1>4, <1>6, <1>7, <2>1
  <2> QED
    BY <1>3, <1>4, <1>5, <2>1, <2>2
<1> QED
  BY <1>7 DEF AloneInv

\* Every step keeps AloneInv.
LEMMA AloneStep == DeployInv /\ AloneInv /\ [Next]_vars => AloneInv'
<1> SUFFICES ASSUME DeployInv, AloneInv, [Next]_vars PROVE AloneInv'
  OBVIOUS
<1>1. ASSUME NEW p \in Procs, NEW s \in Scripts[p], Start(p, s) PROVE AloneInv'
  BY <1>1, AloneStart
<1>2. ASSUME NEW p \in Procs, proc[p] # Stopped, proc[p].alone PROVE Orderly(proc[p])
  BY <1>2 DEF AloneInv
<1>3. ASSUME NEW p \in Procs, Send(p) \/ DeployElsewhere(p) PROVE AloneInv'
  <2>1. PICK r : r = proc[p]
    OBVIOUS
  <2>2. r # Stopped
    BY <1>3, <2>1 DEF Send, DeployElsewhere, Stopped
  <2>3. r \in Active
    BY <2>1, <2>2, Acting
  <2>4. PICK n : n = [r EXCEPT !.at = "read", !.addr = Len(made) + 1]
    OBVIOUS
  <2>5. Go(p, n)
    BY <1>3, <2>1, <2>4 DEF Send, DeployElsewhere, Makes
  <2>6. /\ n.all = r.all /\ n.todo = r.todo /\ n.env = r.env /\ n.alone = r.alone
        /\ n.at = "read" /\ n.addr = Len(made) + 1
    BY <2>3, <2>4 DEF Active
  <2>7. Orderly(r) => Orderly(n)'
    BY <1>3, <2>1, <2>6, AloneMake
  <2> QED
    BY <1>2, <2>1, <2>2, <2>5, <2>6, <2>7, AloneGo
<1>5. ASSUME NEW p \in Procs, ReadFile(p) PROVE AloneInv'
  <2>1. PICK r : r = proc[p]
    OBVIOUS
  <2>2. r # Stopped
    BY <1>5, <2>1 DEF ReadFile, Stopped
  <2>3. r \in Active
    BY <2>1, <2>2, Acting
  <2>4. PICK n : n = [r EXCEPT !.at = "truncate", !.data = file]
    OBVIOUS
  <2>5. Go(p, n)
    BY <1>5, <2>1, <2>4 DEF ReadFile
  <2>6. /\ n.all = r.all /\ n.todo = r.todo /\ n.env = r.env /\ n.alone = r.alone
        /\ n.addr = r.addr /\ n.at = "truncate" /\ n.data = file
    BY <2>3, <2>4 DEF Active
  <2>7. Orderly(r) => Orderly(n)'
    BY <1>5, <2>1, <2>6, AloneRead
  <2> QED
    BY <1>2, <2>1, <2>2, <2>5, <2>6, <2>7, AloneGo
<1>6. ASSUME NEW p \in Procs, TruncateFile(p) PROVE AloneInv'
  <2>1. PICK r : r = proc[p]
    OBVIOUS
  <2>2. r # Stopped
    BY <1>6, <2>1 DEF TruncateFile, Stopped
  <2>3. r \in Active
    BY <2>1, <2>2, Acting
  <2>4. PICK n : n = [r EXCEPT !.at = "write"]
    OBVIOUS
  <2>5. Go(p, n)
    BY <1>6, <2>1, <2>4 DEF TruncateFile
  <2>6. /\ n.all = r.all /\ n.todo = r.todo /\ n.env = r.env /\ n.alone = r.alone
        /\ n.addr = r.addr /\ n.at = "write" /\ n.data = r.data
    BY <2>3, <2>4 DEF Active
  <2>7. Orderly(r) => Orderly(n)'
    BY <1>6, <2>1, <2>6, AloneTruncate
  <2> QED
    BY <1>2, <2>1, <2>2, <2>5, <2>6, <2>7, AloneGo
<1>7. ASSUME NEW p \in Procs, SetAddress(p) \/ WriteFile(p) PROVE AloneInv'
  <2>1. PICK r : r = proc[p]
    OBVIOUS
  <2>2. r # Stopped
    BY <1>7, <2>1 DEF SetAddress, WriteFile, Stopped
  <2>3. r.alone \in BOOLEAN
    BY <2>1, <2>2, Acting DEF Active
  <2>4. After(p, r.alone)
    BY <1>7, <2>1 DEF SetAddress, WriteFile, Done
  <2>5. r.alone => Orderly(r)
    BY <1>2, <2>1, <2>2
  <2>6. r.alone => /\ SettingsStand(r, file')
                   /\ \A i \in 1 .. Len(r.all) - Len(r.todo) + 1 : Agreed(r, file, i)'
    BY <1>7, <2>1, <2>5, SetAgrees, WriteAgrees
  <2> QED
    BY <2>1, <2>2, <2>3, <2>4, <2>6, AloneAfter
<1>8. ASSUME NEW p \in Procs, WriteFails(p) PROVE AloneInv'
  <2>1. PICK r : r = proc[p]
    OBVIOUS
  <2>2. PICK b \in BOOLEAN : b = FALSE
    OBVIOUS
  <2>3. r # Stopped
    BY <1>8, <2>1 DEF WriteFails, Stopped
  <2>4. After(p, b)
    BY <1>8, <2>2 DEF WriteFails
  <2> QED
    BY <2>1, <2>2, <2>3, <2>4, AloneAfter
<1>9. ASSUME NEW p \in Procs, Exit(p) PROVE AloneInv'
  <2>1. proc[p] # Stopped /\ Go(p, Stopped)
    BY <1>9 DEF Exit, Running
  <2> QED
    BY <2>1, AloneGo
<1>10. CASE UNCHANGED vars \/ StartServer \/ ServerExit \/ DeployScript
  <2>1. UNCHANGED <<file, made, registry>>
        /\ \A q \in Procs : proc'[q] \in {Stopped, proc[q]}
    BY <1>10 DEF vars, StartServer, ServerExit, DeployScript, DeployInv, TypeOK
  <2>2. ASSUME NEW q \in Procs, proc'[q] = proc[q], Orderly(proc[q]) PROVE Orderly(proc[q])'
    <3>1. PICK r : r = proc[q]
      OBVIOUS
    <3>2. proc'[q] = r
      BY <2>2, <3>1
    <3>3. Lines(r)' = Lines(r)
      BY <2>1 DEF Lines
    <3>4. SettingsStand(r, Lines(r))'
      BY <2>2, <3>1, <3>3 DEF Orderly, SettingsStand
    <3>5. ASSUME NEW i, Agreed(r, Lines(r), i) PROVE Agreed(r, Lines(r), i)'
      BY <2>1, <3>3, <3>5 DEF Agreed
    <3>6. Orderly(r)'
      BY <2>1, <2>2, <3>1, <3>4, <3>5 DEF Orderly
    <3> QED
      BY <3>1, <3>2, <3>6
  <2>3. ASSUME NEW q \in Procs, proc'[q] # Stopped, proc'[q].alone
        PROVE  (\A x \in Procs : x # q => proc'[x] = Stopped) /\ Orderly(proc[q])'
    <3>1. proc'[q] = proc[q]
      BY <2>1, <2>3
    <3>2. (\A x \in Procs : x # q => proc[x] = Stopped) /\ Orderly(proc[q])
      BY <2>3, <3>1 DEF AloneInv
    <3> QED
      BY <2>1, <2>2, <3>1, <3>2
  <2> QED
    BY <2>3 DEF AloneInv
<1> QED
  BY <1>1, <1>3, <1>5, <1>6, <1>7, <1>8, <1>9, <1>10 DEF Next, Step

\* What a process that ends without an error and was alone leaves behind
LEMMA Finished ==
    ASSUME DeployInv, AloneInv, Next, NEW p \in Procs, proc[p] # Stopped,
           proc'[p] = Stopped, fails' = fails, proc[p].alone,
           NEW i \in DOMAIN proc[p].all
    PROVE  LET k == proc[p].all[i].key
               m == proc[p].env["Lib_AddressManager"]
           IN  /\ HasKey(file', k)
               /\ \A v \in Values(file', k) :
                     IF proc[p].all[i].op = "set" THEN v = registry'[m][k]
                     ELSE Newest(made', v, k)
<1>1. PICK r : r = proc[p]
  OBVIOUS
<1>2. r \in Active /\ Orderly(r)
  BY <1>1, Acting DEF AloneInv
<1>3. fails \in Nat
  BY DeployAssumption DEF DeployInv, TypeOK
<1>4. PICK q \in Procs : (\E s \in Scripts[q] : Start(q, s)) \/ Step(q)
  <2>1. fails' # fails + 1
    BY <1>3
  <2>2. ASSUME NEW q \in Procs PROVE ~WriteFails(q) /\ ~Exit(q)
    BY <2>1 DEF WriteFails, Exit, CountFail
  <2>3. ~StartServer /\ ~ServerExit /\ ~DeployScript
    BY <2>1 DEF StartServer, ServerExit, DeployScript, CountFail
  <2> QED
    BY <2>2, <2>3 DEF Next
<1>5. Step(p)
  <2>1. ASSUME NEW s \in Scripts[q], Start(q, s) PROVE FALSE
    <3>1. q # p /\ p \in Running
      BY <2>1 DEF Start, Running
    <3>2. proc'[p] = [r EXCEPT !.alone = FALSE]
      BY <1>1, <2>1, <3>1 DEF Start
    <3>3. proc'[p].at = r.at /\ r.at # "stopped"
      BY <1>2, <3>2 DEF Active
    <3> QED
      BY <3>3 DEF Stopped
  <2>2. ASSUME Step(q), q # p PROVE FALSE
    <3>1. proc[q] = Stopped
      BY <2>2 DEF AloneInv
    <3> QED
      BY <2>2, <3>1 DEF Step, Send, DeployElsewhere, SetAddress, ReadFile, TruncateFile,
                       WriteFile, Stopped
  <2> QED
    BY <1>4, <2>1, <2>2
<1>6. SetAddress(p) \/ WriteFile(p)
  <2>1. ASSUME NEW n, Go(p, n) PROVE n.at = "stopped"
    BY <2>1, Others DEF Stopped
  <2>2. ~Send(p) /\ ~DeployElsewhere(p)
    <3>1. Send(p) \/ DeployElsewhere(p) => Go(p, [r EXCEPT !.at = "read", !.addr = Len(made) + 1])
      BY <1>1 DEF Send, DeployElsewhere, Makes
    <3>2. [r EXCEPT !.at = "read", !.addr = Len(made) + 1].at = "read"
      BY <1>2 DEF Active
    <3> QED
      BY <2>1, <3>1, <3>2
  <2>4. ~ReadFile(p)
    <3>1. ReadFile(p) => Go(p, [r EXCEPT !.at = "truncate", !.data = file])
      BY <1>1 DEF ReadFile
    <3>2. [r EXCEPT !.at = "truncate", !.data = file].at = "truncate"
      BY <1>2 DEF Active
    <3> QED
      BY <2>1, <3>1, <3>2
  <2>5. ~TruncateFile(p)
    <3>1. TruncateFile(p) => Go(p, [r EXCEPT !.at = "write"])
      BY <1>1 DEF TruncateFile
    <3>2. [r EXCEPT !.at = "write"].at = "write"
      BY <1>2 DEF Active
    <3> QED
      BY <2>1, <3>1, <3>2
  <2> QED
    BY <1>5, <2>2, <2>4, <2>5 DEF Step
<1>7. \A j \in 1 .. Len(r.all) - Len(r.todo) + 1 : Agreed(r, file, j)'
  BY <1>1, <1>2, <1>6, SetAgrees, WriteAgrees
<1>8. After(p, r.alone)
  BY <1>1, <1>6 DEF SetAddress, WriteFile, Done
<1>9. Len(r.todo) = 1
  <2> SUFFICES ASSUME Len(r.todo) # 1 PROVE FALSE
    OBVIOUS
  <2>1. PICK n : n = [r EXCEPT !.at = "next", !.todo = Tail(@), !.addr = 0, !.data = <<>>,
                               !.alone = r.alone]
    OBVIOUS
  <2>2. Go(p, n)
    BY <1>1, <1>8, <2>1 DEF After
  <2>3. n.at = "next"
    BY <1>2, <2>1 DEF Active
  <2> QED
    BY <2>2, <2>3, Others DEF Stopped
<1>10. i \in 1 .. Len(r.all) - Len(r.todo) + 1
  <2>1. DOMAIN r.all = 1 .. Len(r.all) /\ Len(r.all) = Len(r.all) - Len(r.todo) + 1
    BY <1>2, <1>9, FirstLeft DEF Orderly
  <2> QED
    BY <1>1, <2>1
<1> QED
  BY <1>1, <1>7, <1>10 DEF Agreed

\* A process that ends without an error and had .env to itself leaves in it the
\* newest address or hash of every name it wrote, and .env and its address
\* manager in agreement about every name it registered, whatever others left
\* behind when they failed (writeToEnvFile, examples/setLibAddressManager.js).
THEOREM FinishedCorrect == Spec => FinishedAgrees
<1>1. Init => AloneInv
  BY DEF Init, AloneInv
<1>2. DeployInv /\ AloneInv /\ [Next]_vars =>
         [\A p \in Procs :
             /\ proc[p] # Stopped /\ proc'[p] = Stopped
             /\ fails' = fails
             /\ proc[p].alone
             => \A i \in DOMAIN proc[p].all :
                   LET k == proc[p].all[i].key
                       m == proc[p].env["Lib_AddressManager"]
                   IN  /\ HasKey(file', k)
                       /\ \A v \in Values(file', k) :
                             IF proc[p].all[i].op = "set" THEN v = registry'[m][k]
                             ELSE Newest(made', v, k)
         ]_vars
  BY Finished
<1> QED
  BY <1>1, <1>2, DeployInit, DeployStep, AloneStep, PTL DEF Spec, FinishedAgrees
=============================================================================
