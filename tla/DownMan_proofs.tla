----------------------------- MODULE DownMan_proofs -----------------------------
(***************************************************************************)
(* Proofs about the download manager, for any downloads, hashes and limit. *)
(***************************************************************************)
EXTENDS DownMan, ListFacts

(* Where a function can be, and where it waits for one it called. *)
Waiting ==
    {<<"state_cb", "resumed">>, <<"queue", "failed">>, <<"resume", "resumed">>,
     <<"resume", "done">>, <<"finish", "verify">>, <<"start", "started">>,
     <<"restart", "restarted">>, <<"restart", "index">>, <<"stop_all", "called">>,
     <<"go_on", "called">>}
(* All the places a function can be at *)
Places ==
    Waiting \cup
    {<<"state_cb", "enter">>, <<"state_cb", "notify">>, <<"state_cb", "scan">>,
     <<"state_cb", "timer">>, <<"pause", "enter">>, <<"queue", "enter">>,
     <<"resume", "enter">>, <<"finish", "enter">>, <<"start", "enter">>,
     <<"restart", "enter">>, <<"stop_all", "enter">>, <<"go_on", "enter">>}

(* The functions that only an event calls *)
Outermost == {"start", "restart", "stop_all", "go_on"}

At(f, fn, pc) == f.fn = fn /\ f.pc = pc

(* f is a function that g waits for. *)
Callee(f, g) ==
    /\ <<g.fn, g.pc>> \in Waiting /\ f.fn \notin Outermost
    /\ f.d = IF g.fn \in {"state_cb", "stop_all", "go_on"} THEN g.at ELSE g.d
    /\ f.fn = "resume" <=> g.fn \in {"state_cb", "go_on"}
    /\ f.fn = "finish" => At(g, "resume", "done") \/ At(g, "restart", "index")
    /\ f.fn = "pause" => g.fn = "queue"
    /\ g.fn = "queue" => f.fn \in {"pause", "state_cb"}

(* A frame, wherever it is; D is the downloads and s whether the manager is
   stopped.  A callback that returns FALSE has freed the download, and nobody
   touches one that is being verified. *)
FrameOK(f, D, s) ==
    /\ f \in FrameType /\ <<f.fn, f.pc>> \in Places
    /\ f.d = Null <=> f.fn \in {"stop_all", "go_on"}
    /\ f.fn = "state_cb" /\ ~f.ret =>
          f.pc \notin {"enter", "notify"} /\ D[f.d].state = "free"
    /\ At(f, "finish", "verify") => D[f.d].state = "VERIFYING"
    /\ At(f, "state_cb", "resumed") \/ At(f, "go_on", "called") => f.active < MaxActive
    /\ At(f, "state_cb", "resumed") \/ f.pc = "called" => f.at # Null
    /\ At(f, "state_cb", "scan") \/ At(f, "state_cb", "resumed") \/ f.fn = "go_on" => ~s
    /\ f.fn = "stop_all" => s

(* No function runs; otherwise there is an outermost one. *)
Calm == stack = <<>>
Bottom == stack[Len(stack)]

(* Each function waits for the one above it, no two verify the same download,
   and a download that could not be queued is paused by then.  as_downman_stop_all
   resumes and finishes nothing. *)
StackOK ==
    /\ stack \in Seq(FrameType)
    /\ \A k \in 1 .. Len(stack) : FrameOK(stack[k], dl, stopped)
    /\ \A k \in 1 .. Len(stack) - 1 : Callee(stack[k], stack[k + 1])
    /\ \A j, k \in 1 .. Len(stack) :
          At(stack[j], "finish", "verify") /\ At(stack[k], "finish", "verify")
             /\ stack[j].d = stack[k].d => j = k
    /\ \A k \in 1 .. Len(stack) : At(stack[k], "queue", "failed") =>
          \/ dl[stack[k].d].state = "PAUSED"
          \/ dl[stack[k].d].state = "ACTIVE" /\ k = 2 /\ F.fn = "pause"
    /\ \A k \in 1 .. Len(stack) : stack[k].fn \in {"resume", "finish"} => Bottom.fn # "stop_all"

(* What the innermost of n functions relies on when it goes on: D is the
   downloads, L those on the list, b the outermost function and r what the last
   one returned. *)
TopFor(f, D, L, n, b, r) ==
    /\ At(f, "state_cb", "enter") \/ At(f, "state_cb", "notify") =>
          /\ D[f.d].state \notin {"free", "NEW"}
          /\ D[f.d].state \in EndStates => b # "stop_all"
    /\ At(f, "state_cb", "scan") \/ At(f, "stop_all", "enter") \/ At(f, "go_on", "enter")
          => f.at \in L \cup {Null}
    /\ f.fn \in {"resume", "finish"} => b # "stop_all"
    /\ At(f, "resume", "enter") => n = 1 \/ D[f.d].state = "QUEUED"
    /\ At(f, "queue", "enter") => D[f.d].state = "ACTIVE" \/ (n = 2 /\ b = "stop_all")
    /\ At(f, "finish", "enter") => D[f.d].state = "ACTIVE"
    /\ At(f, "start", "enter") \/ At(f, "restart", "enter") => D[f.d].state = "NEW"
    /\ At(f, "start", "started") \/ At(f, "restart", "restarted") =>
          r \/ D[f.d].state # "ACTIVE"

(* The innermost function *)
TopOK == ~Calm => TopFor(F, dl, ToSet(downloads), Len(stack), Bottom.fn, ret)

(* The download of as_downman_restart_file, which is not indexed yet *)
Restarting(d) == ~Calm /\ Bottom.fn = "restart" /\ Bottom.d = d

(* List and index *)
ListOK ==
    /\ IsInjective(downloads)
    /\ \A d \in Downloads : Listed(d) <=> dl[d].state # "free"
    /\ \A d \in Downloads : Listed(d) => dl[d].hash \in Hashes
    /\ \A h \in Hashes : index[h] # Null =>
          Listed(index[h]) /\ dl[index[h]].hash = h /\ ~Restarting(index[h])
    /\ \A d \in Downloads : Listed(d) => index[dl[d].hash] = d \/ Restarting(d)
    /\ \A d \in Downloads : Listed(d) /\ Restarting(d) => downloads[1] = d

(* What the state is like between the steps of the functions *)
Base == StackOK /\ TopOK /\ ListOK

-----------------------------------------------------------------------------
(* The moves of the stack *)

LEMMA OneOrMore == \A n \in Nat \ {0} : (n = 1 \/ n > 1) /\ (n - 1 = 0 => n = 1)
OBVIOUS

(* The frames below the innermost are what they should be after the step, too. *)
Kept ==
    \A k \in 2 .. Len(stack) :
        /\ FrameOK(stack[k], dl', stopped')
        /\ At(stack[k], "queue", "failed") => dl'[stack[k].d].state = "PAUSED"

(* A step keeps the frames below when it only changes downloads that no frame
   relies on. *)
LEMMA KeptFacts ==
    ASSUME TypeOK, StackOK, ~Calm, stopped' = stopped,
           \A d \in Downloads : \/ dl'[d].state = dl[d].state
                                \/ dl[d].state \notin {"free", "PAUSED", "VERIFYING"},
           F.fn = "pause" =>
               \/ dl'[F.d].state = "PAUSED"
               \/ dl'[F.d].state = dl[F.d].state /\ dl[F.d].state # "ACTIVE"
    PROVE  Kept
<1>1. /\ stack \in Seq(FrameType) /\ Len(stack) \in Nat \ {0} /\ F = stack[1]
  BY DEF StackOK, Calm, F
<1>2. SUFFICES ASSUME NEW k \in 2 .. Len(stack)
               PROVE  /\ FrameOK(stack[k], dl', stopped')
                      /\ At(stack[k], "queue", "failed") => dl'[stack[k].d].state = "PAUSED"
  BY DEF Kept
<1>3. /\ k \in 1 .. Len(stack) /\ FrameOK(stack[k], dl, stopped)
      /\ At(stack[k], "queue", "failed") =>
          \/ dl[stack[k].d].state = "PAUSED"
          \/ dl[stack[k].d].state = "ACTIVE" /\ k = 2 /\ F.fn = "pause"
  BY <1>1 DEF StackOK
<1>4. k = 2 => Callee(F, stack[k])
  <2>1. k = 2 => 1 \in 1 .. Len(stack) - 1
    BY <1>1
  <2> QED BY <1>1, <2>1 DEF StackOK
<1>5. stack[k].d \in Downloads \/ stack[k].d = Null
  BY <1>3 DEF FrameOK, FrameType
<1>6. FrameOK(stack[k], dl', stopped')
  BY <1>3, <1>5 DEF FrameOK, At
<1>7. ASSUME At(stack[k], "queue", "failed")
      PROVE  dl'[stack[k].d].state = "PAUSED"
  <2>1. stack[k].d \in Downloads
    BY <1>3, <1>5, <1>7 DEF FrameOK, At
  <2>2. CASE dl[stack[k].d].state = "PAUSED"
    BY <2>1, <2>2
  <2>3. CASE dl[stack[k].d].state = "ACTIVE" /\ k = 2 /\ F.fn = "pause"
    <3>1. stack[k].d = F.d
      BY <1>4, <1>7, <2>3 DEF Callee, At
    <3> QED BY <2>3, <3>1
  <2> QED BY <1>3, <1>7, <2>2, <2>3
<1> QED BY <1>6, <1>7

(* Another step of the innermost function, or one it ends with a call of *)
LEMMA GotoStep ==
    ASSUME StackOK, ~Calm, Kept, NEW f,
           stack' = <<f>> \o Tail(stack), FrameOK(f, dl', stopped'),
           ~At(f, "finish", "verify"), ~At(f, "queue", "failed"),
           Len(stack) > 1 => Callee(f, stack[2]),
           TopFor(f, dl', ToSet(downloads'), Len(stack),
                  IF Len(stack) = 1 THEN f.fn ELSE Bottom.fn, ret')
    PROVE  /\ StackOK' /\ TopOK' /\ ~Calm' /\ Len(stack') = Len(stack) /\ F' = f
           /\ Bottom' = IF Len(stack) = 1 THEN f ELSE Bottom
           /\ \A k \in 2 .. Len(stack) : stack'[k] = stack[k]
<1>1. /\ stack \in Seq(FrameType) /\ Len(stack) \in Nat \ {0} /\ f \in FrameType
  BY DEF StackOK, Calm, FrameOK
<1>2. /\ stack' \in Seq(FrameType) /\ Len(stack') = Len(stack) /\ stack'[1] = f
      /\ \A k \in 2 .. Len(stack) : stack'[k] = stack[k]
  BY <1>1, ListTopFacts DEF Calm
<1>3. stack' # <<>> /\ F' = f
  BY <1>1, <1>2 DEF F
<1>4. Bottom' = IF Len(stack) = 1 THEN f ELSE Bottom
  BY <1>1, <1>2 DEF Bottom
<1>5. ASSUME NEW k \in 1 .. Len(stack') PROVE FrameOK(stack'[k], dl', stopped')
  <2>1. k = 1 \/ k \in 2 .. Len(stack)
    BY <1>1, <1>2
  <2> QED BY <1>2, <2>1 DEF Kept
<1>6. ASSUME NEW k \in 1 .. Len(stack') - 1 PROVE Callee(stack'[k], stack'[k + 1])
  <2>1. k + 1 \in 2 .. Len(stack) /\ stack'[k + 1] = stack[k + 1]
    BY <1>1, <1>2
  <2>2. CASE k = 1
    BY <1>1, <1>2, <2>1, <2>2
  <2>3. CASE k # 1
    <3>1. k \in 2 .. Len(stack) /\ k \in 1 .. Len(stack) - 1
      BY <1>1, <1>2, <2>3
    <3>2. Callee(stack[k], stack[k + 1])
      BY <3>1 DEF StackOK
    <3> QED BY <1>2, <2>1, <3>1, <3>2
  <2> QED BY <2>2, <2>3
<1>7. ASSUME NEW j \in 1 .. Len(stack'), NEW k \in 1 .. Len(stack'),
             At(stack'[j], "finish", "verify"), At(stack'[k], "finish", "verify"),
             stack'[j].d = stack'[k].d
      PROVE  j = k
  <2>1. j # 1 /\ k # 1
    BY <1>2, <1>7
  <2>2. j \in 2 .. Len(stack) /\ k \in 2 .. Len(stack)
    BY <1>1, <1>2, <2>1
  <2>3. stack'[j] = stack[j] /\ stack'[k] = stack[k] /\ j \in 1 .. Len(stack)
        /\ k \in 1 .. Len(stack)
    BY <1>2, <2>2
  <2> QED BY <1>7, <2>3 DEF StackOK
<1>8. ASSUME NEW k \in 1 .. Len(stack'), At(stack'[k], "queue", "failed")
      PROVE  dl'[stack'[k].d].state = "PAUSED"
  <2>1. k # 1
    BY <1>2, <1>8
  <2>2. k \in 2 .. Len(stack)
    BY <1>1, <1>2, <2>1
  <2> QED BY <1>2, <1>8, <2>2 DEF Kept
<1>11. ASSUME NEW k \in 1 .. Len(stack'), stack'[k].fn \in {"resume", "finish"}
      PROVE  Bottom'.fn # "stop_all"
  <2>1. CASE k = 1
    BY <1>2, <1>4, <1>11, <2>1 DEF TopFor
  <2>2. CASE k # 1
    <3>1. k \in 2 .. Len(stack) /\ k \in 1 .. Len(stack) /\ Len(stack) # 1
      BY <1>1, <1>2, <2>2
    <3> QED BY <1>2, <1>4, <1>11, <3>1 DEF StackOK
  <2> QED BY <2>1, <2>2
<1>9. StackOK'
  BY <1>2, <1>5, <1>6, <1>7, <1>8, <1>11 DEF StackOK
<1>10. TopOK'
  <2>1. Bottom'.fn = IF Len(stack) = 1 THEN f.fn ELSE Bottom.fn
    BY <1>4
  <2> QED BY <1>2, <1>3, <2>1 DEF TopOK
<1> QED BY <1>2, <1>3, <1>4, <1>9, <1>10 DEF Calm

(* The innermost function calls another one. *)
LEMMA CallStep ==
    ASSUME StackOK, ~Calm, Kept, NEW f, NEW g,
           stack' = <<g, f>> \o Tail(stack),
           FrameOK(f, dl', stopped'), FrameOK(g, dl', stopped'), Callee(g, f),
           ~At(g, "finish", "verify"), ~At(g, "queue", "failed"),
           At(f, "finish", "verify") => \A k \in 2 .. Len(stack) :
               ~(At(stack[k], "finish", "verify") /\ stack[k].d = f.d),
           At(f, "queue", "failed") =>
               \/ dl'[f.d].state = "PAUSED"
               \/ dl'[f.d].state = "ACTIVE" /\ g.fn = "pause",
           Len(stack) > 1 => Callee(f, stack[2]), f.fn = F.fn,
           TopFor(g, dl', ToSet(downloads'), Len(stack) + 1,
                  IF Len(stack) = 1 THEN f.fn ELSE Bottom.fn, ret')
    PROVE  /\ StackOK' /\ TopOK' /\ ~Calm' /\ Len(stack') = Len(stack) + 1 /\ F' = g
           /\ Bottom' = IF Len(stack) = 1 THEN f ELSE Bottom
           /\ stack'[2] = f /\ \A k \in 3 .. Len(stack) + 1 : stack'[k] = stack[k - 1]
<1>1. /\ stack \in Seq(FrameType) /\ Len(stack) \in Nat \ {0} /\ f \in FrameType /\ g \in FrameType
  BY DEF StackOK, Calm, FrameOK
<1>2. /\ stack' \in Seq(FrameType) /\ Len(stack') = Len(stack) + 1
      /\ stack'[1] = g /\ stack'[2] = f
      /\ \A k \in 3 .. Len(stack) + 1 : stack'[k] = stack[k - 1]
  BY <1>1, ListTopFacts DEF Calm
<1>3. stack' # <<>> /\ F' = g
  BY <1>1, <1>2 DEF F
<1>4. Bottom' = IF Len(stack) = 1 THEN f ELSE Bottom
  <2>1. CASE Len(stack) = 1
    BY <1>2, <2>1 DEF Bottom
  <2>2. CASE Len(stack) > 1
    <3> DEFINE n == Len(stack) + 1
    <3>1. n \in 3 .. n /\ n - 1 = Len(stack)
      BY <1>1, <2>2
    <3> HIDE DEF n
    <3>2. stack'[n] = stack[n - 1]
      BY <1>2, <3>1 DEF n
    <3>3. Bottom' = Bottom
      BY <1>2, <3>1, <3>2 DEF Bottom, n
    <3> QED BY <2>2, <3>3
  <2>3. Len(stack) = 1 \/ Len(stack) > 1
    BY <1>1, OneOrMore
  <2> QED BY <2>1, <2>2, <2>3
<1>5. \A k \in 1 .. Len(stack') : k = 1 \/ k = 2
          \/ (k \in 3 .. Len(stack) + 1 /\ k - 1 \in 2 .. Len(stack) /\ stack'[k] = stack[k - 1])
  BY <1>1, <1>2
<1>6. ASSUME NEW k \in 1 .. Len(stack') PROVE FrameOK(stack'[k], dl', stopped')
  BY <1>2, <1>5 DEF Kept
<1>7. ASSUME NEW k \in 1 .. Len(stack') - 1 PROVE Callee(stack'[k], stack'[k + 1])
  <2>1. CASE k = 1
    BY <1>2, <2>1
  <2>2. CASE k = 2
    <3>1. 3 \in 3 .. Len(stack) + 1 /\ Len(stack) > 1
      BY <1>1, <1>2, <2>2
    <3>2. stack'[3] = stack[2]
      BY <1>2, <3>1
    <3> QED BY <1>2, <2>2, <3>1, <3>2
  <2>3. CASE k # 1 /\ k # 2
    <3>1. /\ k \in 3 .. Len(stack) + 1 /\ k + 1 \in 3 .. Len(stack) + 1
          /\ k - 1 \in 1 .. Len(stack) - 1 /\ (k + 1) - 1 = (k - 1) + 1
      BY <1>1, <1>2, <2>3
    <3>2. Callee(stack[k - 1], stack[(k - 1) + 1])
      BY <3>1 DEF StackOK
    <3>3. stack'[k] = stack[k - 1] /\ stack'[k + 1] = stack[(k - 1) + 1]
      BY <1>2, <3>1
    <3> QED BY <3>2, <3>3
  <2> QED BY <2>1, <2>2, <2>3
<1>8. ASSUME NEW j \in 1 .. Len(stack'), NEW k \in 1 .. Len(stack'),
             At(stack'[j], "finish", "verify"), At(stack'[k], "finish", "verify"),
             stack'[j].d = stack'[k].d
      PROVE  j = k
  <2>1. j # 1 /\ k # 1
    BY <1>2, <1>8
  <2>2. CASE j = 2 /\ k = 2
    BY <2>2
  <2>3. CASE j = 2 /\ k # 2
    BY <1>2, <1>5, <1>8, <2>1, <2>3
  <2>4. CASE j # 2 /\ k = 2
    BY <1>2, <1>5, <1>8, <2>1, <2>4
  <2>5. CASE j # 2 /\ k # 2
    <3>1. /\ j - 1 \in 1 .. Len(stack) /\ k - 1 \in 1 .. Len(stack)
          /\ stack'[j] = stack[j - 1] /\ stack'[k] = stack[k - 1]
      BY <1>1, <1>5, <2>1, <2>5
    <3>2. j - 1 = k - 1
      BY <1>8, <3>1 DEF StackOK
    <3> QED BY <3>2
  <2> QED BY <2>2, <2>3, <2>4, <2>5
<1>9. ASSUME NEW k \in 1 .. Len(stack'), At(stack'[k], "queue", "failed")
      PROVE  \/ dl'[stack'[k].d].state = "PAUSED"
             \/ dl'[stack'[k].d].state = "ACTIVE" /\ k = 2 /\ F'.fn = "pause"
  <2>1. k # 1
    BY <1>2, <1>9
  <2>2. CASE k = 2
    BY <1>2, <1>3, <1>9, <2>2
  <2>3. CASE k # 2
    BY <1>5, <1>9, <2>1, <2>3 DEF Kept
  <2> QED BY <2>2, <2>3
<1>12. ASSUME NEW k \in 1 .. Len(stack'), stack'[k].fn \in {"resume", "finish"}
      PROVE  Bottom'.fn # "stop_all"
  <2>0. 1 \in 1 .. Len(stack) /\ F = stack[1] /\ (Len(stack) = 1 => Bottom = F)
    BY <1>1 DEF F, Bottom
  <2>1. CASE k = 1
    BY <1>2, <1>4, <1>12, <2>1 DEF TopFor
  <2>2. CASE k = 2
    BY <1>2, <1>4, <1>12, <2>0, <2>2 DEF StackOK
  <2>3. CASE k # 1 /\ k # 2
    <3>1. k - 1 \in 1 .. Len(stack) /\ stack'[k] = stack[k - 1]
      BY <1>1, <1>5, <2>3
    <3> QED BY <1>4, <1>12, <2>0, <3>1 DEF StackOK
  <2> QED BY <2>1, <2>2, <2>3
<1>10. StackOK'
  BY <1>2, <1>6, <1>7, <1>8, <1>9, <1>12 DEF StackOK
<1>11. TopOK'
  <2>1. Bottom'.fn = IF Len(stack) = 1 THEN f.fn ELSE Bottom.fn
    BY <1>4
  <2> QED BY <1>2, <1>3, <2>1 DEF TopOK
<1> QED BY <1>2, <1>3, <1>4, <1>10, <1>11 DEF Calm

(* The innermost function returns.  Whoever waits for it finds what it was told
   to be true. *)
LEMMA ReturnStep ==
    ASSUME StackOK, ~Calm, Kept, stack' = Tail(stack),
           Len(stack) > 1 /\ stack[2].fn \in {"start", "restart"} =>
               ret' \/ dl'[F.d].state # "ACTIVE"
    PROVE  /\ StackOK' /\ TopOK' /\ Len(stack') = Len(stack) - 1
           /\ ~Calm' => /\ Len(stack) > 1 /\ F' = stack[2] /\ Bottom' = Bottom
                        /\ Callee(F, stack[2])
           /\ \A k \in 1 .. Len(stack') : stack'[k] = stack[k + 1]
<1>1. /\ stack \in Seq(FrameType) /\ Len(stack) \in Nat \ {0} /\ F = stack[1]
  BY DEF StackOK, Calm, F
<1>2. /\ stack' \in Seq(FrameType) /\ Len(stack') = Len(stack) - 1
      /\ \A k \in 1 .. Len(stack') : stack'[k] = stack[k + 1] /\ k + 1 \in 2 .. Len(stack)
  BY <1>1
<1>3. ASSUME NEW k \in 1 .. Len(stack') - 1 PROVE Callee(stack'[k], stack'[k + 1])
  <2>1. /\ k \in 1 .. Len(stack') /\ k + 1 \in 1 .. Len(stack') /\ k + 1 \in 1 .. Len(stack) - 1
    BY <1>1, <1>2
  <2>2. Callee(stack[k + 1], stack[(k + 1) + 1])
    BY <2>1 DEF StackOK
  <2> QED BY <1>2, <2>1, <2>2
<1>4. ASSUME NEW j \in 1 .. Len(stack'), NEW k \in 1 .. Len(stack'),
             At(stack'[j], "finish", "verify"), At(stack'[k], "finish", "verify"),
             stack'[j].d = stack'[k].d
      PROVE  j = k
  <2>1. j + 1 \in 1 .. Len(stack) /\ k + 1 \in 1 .. Len(stack)
        /\ stack'[j] = stack[j + 1] /\ stack'[k] = stack[k + 1]
    BY <1>1, <1>2
  <2>2. j + 1 = k + 1
    BY <1>4, <2>1 DEF StackOK
  <2> QED BY <2>2
<1>8. ASSUME NEW k \in 1 .. Len(stack'), stack'[k].fn \in {"resume", "finish"}
      PROVE  Bottom'.fn # "stop_all"
  <2>1. k + 1 \in 1 .. Len(stack) /\ stack'[k] = stack[k + 1]
    BY <1>1, <1>2
  <2>2. Len(stack') \in 1 .. Len(stack') /\ Len(stack') + 1 = Len(stack)
    BY <1>1, <1>2
  <2>3. Bottom' = Bottom
    BY <1>2, <2>2 DEF Bottom
  <2> QED BY <1>8, <2>1, <2>3 DEF StackOK
<1>5. StackOK'
  BY <1>2, <1>3, <1>4, <1>8 DEF StackOK, Kept
<1>6. ASSUME ~Calm'
      PROVE  /\ Len(stack) > 1 /\ F' = stack[2] /\ Bottom' = Bottom
             /\ Callee(F, stack[2]) /\ Len(stack') \in Nat \ {0}
  <2>1. Len(stack') \in Nat \ {0} /\ 1 \in 1 .. Len(stack') /\ Len(stack') \in 1 .. Len(stack')
    BY <1>1, <1>2, <1>6 DEF Calm
  <2>2. F' = stack'[1] /\ stack'[1] = stack[2] /\ stack'[Len(stack')] = stack[Len(stack)]
    BY <1>1, <1>2, <2>1 DEF F
  <2>3. 1 \in 1 .. Len(stack) - 1 /\ Len(stack) > 1
    BY <1>1, <1>2, <2>1
  <2>4. Callee(stack[1], stack[1 + 1])
    BY <2>3 DEF StackOK
  <2> QED BY <1>1, <2>1, <2>2, <2>3, <2>4 DEF Bottom
<1>7. TopOK'
  <2> SUFFICES ASSUME ~Calm'
               PROVE  TopFor(F, dl, ToSet(downloads), Len(stack), Bottom.fn, ret)'
    BY DEF TopOK
  <2>1. F' = stack[2] /\ Callee(F, stack[2])
    BY <1>6
  <2>2. <<stack[2].fn, stack[2].pc>> \in Waiting
    BY <2>1 DEF Callee
  <2>3. At(stack[2], "start", "started") \/ At(stack[2], "restart", "restarted") =>
            ret' \/ dl'[stack[2].d].state # "ACTIVE"
    BY <1>6, <2>1 DEF Callee, At
  <2>4. stack[2].fn \in {"resume", "finish"} => Bottom'.fn # "stop_all"
    <3>1. 2 \in 1 .. Len(stack)
      BY <1>1, <1>6
    <3> QED BY <1>6, <3>1 DEF StackOK
  <2> QED BY <2>1, <2>2, <2>3, <2>4 DEF TopFor, At, Waiting
<1> QED BY <1>2, <1>5, <1>6, <1>7

(* The owner or an event calls a function. *)
LEMMA BeginStep ==
    ASSUME Calm, NEW f, stack' = <<f>>, FrameOK(f, dl', stopped'),
           ~At(f, "finish", "verify"), ~At(f, "queue", "failed"),
           TopFor(f, dl', ToSet(downloads'), 1, f.fn, ret')
    PROVE  /\ StackOK' /\ TopOK' /\ ~Calm' /\ Len(stack') = 1 /\ F' = f /\ Bottom' = f
<1>1. f \in FrameType
  BY DEF FrameOK
<1>2. /\ stack' \in Seq(FrameType) /\ Len(stack') = 1 /\ stack'[1] = f /\ F' = f /\ stack' # <<>>
      /\ Bottom' = f
  BY <1>1 DEF Bottom, F
<1>3. \A k \in 1 .. Len(stack') : k = 1
  BY <1>2
<1>4. StackOK'
  <2>1. \A k \in 1 .. Len(stack') : FrameOK(stack'[k], dl', stopped')
                                    /\ ~At(stack'[k], "queue", "failed")
    BY <1>2, <1>3
  <2>2. ~ \E k \in 1 .. Len(stack') - 1 : TRUE
    BY <1>2
  <2>3. f.fn \in {"resume", "finish"} => f.fn # "stop_all"
    OBVIOUS
  <2> QED BY <1>2, <1>3, <2>1, <2>2, <2>3 DEF StackOK
<1>5. TopOK'
  BY <1>2 DEF TopOK
<1> QED BY <1>2, <1>4, <1>5 DEF Calm

-----------------------------------------------------------------------------
(* What the steps have in common *)

LEMMA TopFacts ==
    ASSUME StackOK, ~Calm
    PROVE  /\ stack \in Seq(FrameType) /\ Len(stack) \in Nat \ {0}
           /\ F = stack[1] /\ F \in FrameType /\ FrameOK(F, dl, stopped)
           /\ Len(stack) > 1 => Callee(F, stack[2]) /\ F.fn \notin Outermost
           /\ Len(stack) = 1 => Bottom = F
           /\ F.fn \in Outermost => Len(stack) = 1
           /\ ~At(F, "finish", "verify") \/ \A k \in 2 .. Len(stack) :
                 ~(At(stack[k], "finish", "verify") /\ stack[k].d = F.d)
           /\ F.d \in Downloads \/ F.fn \in {"stop_all", "go_on"}
           /\ At(F, "queue", "failed") => dl[F.d].state = "PAUSED"
           /\ Len(stack) > 1 /\ stack[2].fn = "queue" /\ F.fn # "pause" =>
                 dl[F.d].state = "PAUSED"
           /\ Bottom.fn = "stop_all" => stopped
           /\ F.fn \in {"resume", "finish"} => Bottom.fn # "stop_all"
<1>1. stack \in Seq(FrameType) /\ Len(stack) \in Nat \ {0} /\ F = stack[1]
  BY DEF StackOK, Calm, F
<1>2. 1 \in 1 .. Len(stack) /\ \A k \in 2 .. Len(stack) : k \in 1 .. Len(stack) /\ k # 1
  BY <1>1
<1>3. FrameOK(F, dl, stopped)
  BY <1>1, <1>2 DEF StackOK
<1>4. F \in FrameType
  BY <1>3 DEF FrameOK
<1>5. ASSUME Len(stack) > 1 PROVE Callee(F, stack[2]) /\ F.fn \notin Outermost
  <2>1. 1 \in 1 .. Len(stack) - 1
    BY <1>1, <1>5
  <2>2. Callee(stack[1], stack[1 + 1])
    BY <2>1 DEF StackOK
  <2> QED BY <1>1, <2>2 DEF Callee
<1>6. Len(stack) = 1 => Bottom = F
  BY <1>1 DEF Bottom
<1>7. F.fn \in Outermost => Len(stack) = 1
  BY <1>1, <1>5, OneOrMore
<1>8. ~At(F, "finish", "verify") \/ \A k \in 2 .. Len(stack) :
         ~(At(stack[k], "finish", "verify") /\ stack[k].d = F.d)
  BY <1>1, <1>2 DEF StackOK
<1>9. F.d \in Downloads \/ F.fn \in {"stop_all", "go_on"}
  BY <1>3, <1>4 DEF FrameOK, FrameType
<1>10. At(F, "queue", "failed") => dl[F.d].state = "PAUSED"
  BY <1>1, <1>2 DEF StackOK
<1>11. ASSUME Len(stack) > 1, stack[2].fn = "queue", F.fn # "pause"
       PROVE  dl[F.d].state = "PAUSED"
  <2>1. Callee(F, stack[2]) /\ 2 \in 1 .. Len(stack)
    BY <1>1, <1>5, <1>11
  <2>2. At(stack[2], "queue", "failed") /\ F.d = stack[2].d
    BY <1>11, <2>1 DEF Callee, Waiting, At
  <2> QED BY <1>11, <2>1, <2>2 DEF StackOK
<1>12. Bottom.fn = "stop_all" => stopped
  <2>1. FrameOK(Bottom, dl, stopped)
    BY <1>1 DEF StackOK, Bottom
  <2> QED BY <2>1 DEF FrameOK
<1>13. F.fn \in {"resume", "finish"} => Bottom.fn # "stop_all"
  BY <1>1, <1>2 DEF StackOK
<1> QED BY <1>1, <1>3, <1>4, <1>5, <1>6, <1>7, <1>8, <1>9, <1>10, <1>11, <1>12, <1>13

(* The kinds of moves, and what they make of the innermost and the outermost
   function *)
Goes(f) ==
    /\ ~Calm' /\ Len(stack') = Len(stack) /\ F' = f
    /\ Bottom' = IF Len(stack) = 1 THEN f ELSE Bottom
    /\ \A k \in 2 .. Len(stack) : stack'[k] = stack[k]

(* Another step of the same function, which is then at pc *)
GoesTo(pc, active, at) ==
    \E f \in FrameType : /\ Goes(f) /\ f.fn = F.fn /\ f.d = F.d
                         /\ f.pc = pc /\ f.active = active /\ f.at = at

(* A call, with the caller at f and the callee at g *)
Calls(g, f) ==
    /\ ~Calm' /\ Len(stack') = Len(stack) + 1 /\ F' = g
    /\ Bottom' = IF Len(stack) = 1 THEN f ELSE Bottom
    /\ stack'[2] = f /\ \A k \in 3 .. Len(stack) + 1 : stack'[k] = stack[k - 1]

(* A return *)
Returns ==
    /\ Len(stack') = Len(stack) - 1
    /\ ~Calm' => /\ Len(stack) > 1 /\ F' = stack[2] /\ Bottom' = Bottom
                 /\ Callee(F, stack[2])
    /\ \A k \in 1 .. Len(stack') : stack'[k] = stack[k + 1]

(* A step leaves the list and the index alone, and frees no download. *)
Mild ==
    /\ UNCHANGED <<downloads, index>>
    /\ \A d \in Downloads : /\ dl'[d].hash = dl[d].hash
                            /\ dl'[d].state = "free" <=> dl[d].state = "free"

(* Such a step keeps what the list and the index hold. *)
LEMMA ListKept ==
    ASSUME TypeOK, ListOK, Mild, \A d \in Downloads : Restarting(d)' <=> Restarting(d)
    PROVE  ListOK'
<1>1. \A d \in Downloads : Listed(d)' <=> Listed(d)
  BY DEF Mild, Listed
<1>2. IsInjective(downloads')
  BY DEF Mild, ListOK
<1>3. \A h \in Hashes : index[h] # Null => index[h] \in Downloads
  BY DEF TypeOK
<1>4. \A d \in Downloads : Listed(d)' <=> dl'[d].state # "free"
  BY <1>1 DEF Mild, ListOK
<1>5. \A d \in Downloads : Listed(d)' => dl'[d].hash \in Hashes
  BY <1>1 DEF Mild, ListOK
<1>6. \A h \in Hashes : index'[h] # Null =>
          Listed(index[h])' /\ dl'[index[h]].hash = h /\ ~Restarting(index[h])'
  BY <1>1, <1>3 DEF Mild, ListOK
<1>7. \A d \in Downloads : Listed(d)' => index'[dl'[d].hash] = d \/ Restarting(d)'
  BY <1>1 DEF Mild, ListOK
<1>8. \A d \in Downloads : Listed(d)' /\ Restarting(d)' => downloads'[1] = d
  BY <1>1 DEF Mild, ListOK
<1>9. index' = index
  BY DEF Mild
<1> QED BY <1>2, <1>4, <1>5, <1>6, <1>7, <1>8, <1>9 DEF ListOK

(* The innermost function takes a step of its own. *)
LEMMA GoesOK ==
    ASSUME TypeOK, Base, ~Calm, Kept, Mild, NEW f, stack' = <<f>> \o Tail(stack),
           FrameOK(f, dl', stopped'),
           ~At(f, "finish", "verify"), ~At(f, "queue", "failed"),
           Len(stack) > 1 => Callee(f, stack[2]),
           f.fn = "restart" <=> F.fn = "restart", f.d = F.d,
           TopFor(f, dl', ToSet(downloads'), Len(stack),
                  IF Len(stack) = 1 THEN f.fn ELSE Bottom.fn, ret')
    PROVE  Base' /\ Goes(f)
<1>1. StackOK' /\ TopOK' /\ Goes(f)
  BY GotoStep DEF Base, Goes
<1>2. \A d \in Downloads : Restarting(d)' <=> Restarting(d)
  BY <1>1, TopFacts DEF Base, Goes, Restarting
<1> QED BY <1>1, <1>2, ListKept DEF Base

(* It calls another one and waits for it. *)
LEMMA CallsOK ==
    ASSUME TypeOK, Base, ~Calm, Kept, Mild, NEW f, NEW g,
           stack' = <<g, f>> \o Tail(stack),
           FrameOK(f, dl', stopped'), FrameOK(g, dl', stopped'), Callee(g, f),
           ~At(g, "finish", "verify"), ~At(g, "queue", "failed"),
           At(f, "finish", "verify") => \A k \in 2 .. Len(stack) :
               ~(At(stack[k], "finish", "verify") /\ stack[k].d = f.d),
           At(f, "queue", "failed") =>
               \/ dl'[f.d].state = "PAUSED"
               \/ dl'[f.d].state = "ACTIVE" /\ g.fn = "pause",
           Len(stack) > 1 => Callee(f, stack[2]), f.fn = F.fn, f.d = F.d,
           TopFor(g, dl', ToSet(downloads'), Len(stack) + 1,
                  IF Len(stack) = 1 THEN f.fn ELSE Bottom.fn, ret')
    PROVE  Base' /\ Calls(g, f)
<1>1. StackOK' /\ TopOK' /\ Calls(g, f)
  BY CallStep DEF Base, Calls
<1>2. \A d \in Downloads : Restarting(d)' <=> Restarting(d)
  BY <1>1, TopFacts DEF Base, Calls, Restarting
<1> QED BY <1>1, <1>2, ListKept DEF Base

(* It returns to the one that waits for it. *)
LEMMA ReturnsOK ==
    ASSUME TypeOK, Base, ~Calm, Kept, Mild, stack' = Tail(stack), F.fn # "restart",
           Len(stack) > 1 /\ stack[2].fn \in {"start", "restart"} =>
               ret' \/ dl'[F.d].state # "ACTIVE"
    PROVE  Base' /\ Returns
<1>1. StackOK' /\ TopOK' /\ Returns
  BY ReturnStep DEF Base, Returns
<1>2. Calm' => Len(stack) = 1
  <2>1. Calm' => Len(stack) - 1 = 0
    BY <1>1 DEF Returns, Calm
  <2> QED BY <2>1, OneOrMore, TopFacts DEF Base
<1>3. \A d \in Downloads : Restarting(d)' <=> Restarting(d)
  BY <1>1, <1>2, TopFacts DEF Base, Returns, Restarting
<1> QED BY <1>1, <1>3, ListKept DEF Base

(* An event calls a function. *)
LEMMA BeginsOK ==
    ASSUME TypeOK, Base, Calm, Mild, NEW f, stack' = <<f>>, FrameOK(f, dl', stopped'),
           ~At(f, "finish", "verify"), ~At(f, "queue", "failed"), f.fn # "restart",
           TopFor(f, dl', ToSet(downloads'), 1, f.fn, ret')
    PROVE  Base' /\ ~Calm' /\ Len(stack') = 1 /\ F' = f /\ Bottom' = f
<1>1. StackOK' /\ TopOK' /\ ~Calm' /\ Len(stack') = 1 /\ F' = f /\ Bottom' = f
  BY BeginStep
<1>2. \A d \in Downloads : Restarting(d)' <=> Restarting(d)
  BY <1>1 DEF Restarting
<1> QED BY <1>1, <1>2, ListKept DEF Base

(* A step that changes no download *)
LEMMA SameKept ==
    ASSUME TypeOK, UNCHANGED <<dl, downloads, index, stopped>>
    PROVE  Mild /\ (StackOK /\ ~Calm /\ F.fn # "pause" => Kept)
  BY KeptFacts DEF Mild

(* A step that changes the state of one *)
LEMMA SetFacts ==
    ASSUME TypeOK, NEW d \in Downloads, NEW st \in States \ {"free"}, SetState(d, st),
           dl[d].state # "free"
    PROVE  /\ \A e \in Downloads : /\ dl'[e].hash = dl[e].hash /\ dl'[e].whole = dl[e].whole
                                   /\ dl'[e].state = IF e = d THEN st ELSE dl[e].state
           /\ dl' \in [Downloads -> [state : States, hash : Hashes \cup {Null},
                                     whole : BOOLEAN]]
           /\ UNCHANGED <<downloads, index>> => Mild
<1>1. dl \in [Downloads -> [state : States, hash : Hashes \cup {Null}, whole : BOOLEAN]]
  BY DEF TypeOK
<1>2. dl' = [dl EXCEPT ![d].state = st]
  BY DEF SetState
<1>3. \A e \in Downloads : /\ dl'[e].hash = dl[e].hash /\ dl'[e].whole = dl[e].whole
                           /\ dl'[e].state = IF e = d THEN st ELSE dl[e].state
  BY <1>1, <1>2
<1>4. dl' \in [Downloads -> [state : States, hash : Hashes \cup {Null}, whole : BOOLEAN]]
  BY <1>1, <1>2
<1>5. \A e \in Downloads : /\ dl'[e].hash = dl[e].hash
                           /\ dl'[e].state = "free" <=> dl[e].state = "free"
  BY <1>3
<1>6. UNCHANGED <<downloads, index>> => Mild
  BY <1>5 DEF Mild
<1> QED BY <1>3, <1>4, <1>6

(* A step that changes the state of a download the frames below do not rely on *)
LEMMA SetKept ==
    ASSUME TypeOK, StackOK, ~Calm, NEW d \in Downloads, NEW st \in States \ {"free"},
           SetState(d, st), UNCHANGED <<downloads, index, stopped>>,
           dl[d].state \notin {"free", "PAUSED", "VERIFYING"},
           F.fn = "pause" => d = F.d /\ st = "PAUSED"
    PROVE  Kept
<1>1. \A e \in Downloads : dl'[e].state = IF e = d THEN st ELSE dl[e].state
  BY SetFacts
<1> QED BY <1>1, KeptFacts

(* Only one function runs, or two and the outermost is as_downman_stop_all: no
   frame below relies on a download. *)
LEMMA LowKept ==
    ASSUME TypeOK, StackOK, ~Calm, UNCHANGED stopped,
           Len(stack) = 1 \/ (Len(stack) = 2 /\ Bottom.fn = "stop_all")
    PROVE  Kept
<1>1. CASE Len(stack) = 1
  BY <1>1 DEF Kept
<1>2. CASE Len(stack) = 2 /\ Bottom.fn = "stop_all"
  <2>1. Bottom = stack[2] /\ FrameOK(stack[2], dl, stopped)
    BY <1>2 DEF Bottom, StackOK
  <2>2. FrameOK(stack[2], dl', stopped') /\ ~At(stack[2], "queue", "failed")
    BY <1>2, <2>1 DEF FrameOK, At
  <2>3. \A k \in 2 .. Len(stack) : k = 2
    BY <1>2
  <2> QED BY <2>2, <2>3 DEF Kept
<1> QED BY <1>1, <1>2

(* A call of download_state_cb *)
LEMMA ChangedFacts ==
    ASSUME DownManAssumption, NEW d \in Downloads, NEW D, NEW s
    PROVE  /\ FrameOK(Changed(d), D, s) /\ Changed(d) \in FrameType
           /\ Changed(d).fn = "state_cb" /\ Changed(d).pc = "enter" /\ Changed(d).d = d
  BY DEF DownManAssumption, FrameOK, FrameType, Changed, Frame, Places, At

(* A call of any other function *)
LEMMA FrameFacts ==
    ASSUME DownManAssumption, NEW d \in Downloads, NEW D, NEW s,
           NEW fn \in {"pause", "queue", "resume", "finish", "start", "restart"}
    PROVE  /\ FrameOK(Frame(fn, d), D, s) /\ Frame(fn, d) \in FrameType
           /\ Frame(fn, d).fn = fn /\ Frame(fn, d).pc = "enter" /\ Frame(fn, d).d = d
<1>1. /\ Frame(fn, d).fn = fn /\ Frame(fn, d).pc = "enter" /\ Frame(fn, d).d = d
      /\ Frame(fn, d).at = Null /\ Frame(fn, d).active = 0 /\ Frame(fn, d).ret = TRUE
  BY DEF Frame
<1>2. Frame(fn, d) \in FrameType
  BY DEF DownManAssumption, FrameType, Frame
<1>3. <<fn, "enter">> \in Places
  BY DEF Places
<1>4. d # Null
  BY DEF DownManAssumption
<1> HIDE DEF Frame
<1> QED BY <1>1, <1>2, <1>3, <1>4 DEF FrameOK, At

(* The innermost function goes on somewhere else. *)
LEMMA ThenFacts ==
    ASSUME F \in FrameType, NEW pc \in {x[2] : x \in Places}
    PROVE  /\ Then(pc) \in FrameType
           /\ Then(pc).fn = F.fn /\ Then(pc).pc = pc /\ Then(pc).d = F.d
           /\ Then(pc).at = F.at /\ Then(pc).active = F.active /\ Then(pc).ret = F.ret
<1>1. pc \in {"enter", "notify", "scan", "resumed", "timer", "failed", "done",
              "verify", "started", "restarted", "index", "called"}
  BY DEF Places, Waiting
<1> QED BY <1>1 DEF Then, FrameType

-----------------------------------------------------------------------------
(* The actions, one by one: each keeps the types, and unless it crashes the
   stack, what the innermost function relies on, and the list. *)

LEMMA InFacts ==
    ASSUME Base, NEW fn, NEW pc, In(fn, pc)
    PROVE  /\ ~Calm /\ F.fn = fn /\ F.pc = pc /\ aborted = "no"
           /\ TopFor(F, dl, ToSet(downloads), Len(stack), Bottom.fn, ret)
BY DEF In, F, Calm, Base, TopOK

(* A step that changes no download keeps the types, *)
LEMMA TypeKept ==
    ASSUME TypeOK, StackOK', ret' \in BOOLEAN, stopped' \in BOOLEAN,
           UNCHANGED <<dl, downloads, index, progress, odd, aborted>>
    PROVE  TypeOK'
BY DEF TypeOK, StackOK, progress

(* and one that changes the state of a download, too. *)
LEMMA SetTypeKept ==
    ASSUME TypeOK, StackOK', ret' \in BOOLEAN,
           NEW d \in Downloads, NEW st \in States \ {"free"}, SetState(d, st),
           dl[d].state # "free", UNCHANGED <<man, progress, odd, aborted>>
    PROVE  TypeOK'
<1>1. dl' \in [Downloads -> [state : States, hash : Hashes \cup {Null}, whole : BOOLEAN]]
  BY SetFacts
<1> QED BY <1>1 DEF TypeOK, StackOK, progress, man

(* A step that ends the program *)
LEMMA CrashFacts ==
    ASSUME TypeOK, NEW what \in {"index", "freed", "progress"}, Crash(what)
    PROVE  TypeOK' /\ aborted' # "no"
BY DEF TypeOK, Crash, progress, man

(* A link that was found on the list is a download. *)
LEMMA LinkFacts ==
    ASSUME TypeOK
    PROVE  /\ FirstLink \in ToSet(downloads) \cup {Null}
           /\ \A d \in ToSet(downloads) : NextLink(d) \in ToSet(downloads) \cup {Null}
           /\ ToSet(downloads) \subseteq Downloads
<1>1. /\ downloads \in Seq(Downloads) /\ Len(downloads) \in Nat
      /\ DOMAIN downloads = 1 .. Len(downloads)
  BY DEF TypeOK
<1>2. FirstLink \in ToSet(downloads) \cup {Null}
  <2>1. CASE downloads # <<>>
    <3>1. Len(downloads) # 0 /\ 1 \in DOMAIN downloads /\ Head(downloads) = downloads[1]
      BY <1>1, <2>1
    <3> QED BY <2>1, <3>1 DEF FirstLink, ToSet
  <2> QED BY <2>1 DEF FirstLink
<1>3. ASSUME NEW d \in ToSet(downloads) PROVE NextLink(d) \in ToSet(downloads) \cup {Null}
  <2> DEFINE i == CHOOSE k \in DOMAIN downloads : downloads[k] = d
  <2>1. i \in DOMAIN downloads
    BY <1>3 DEF ToSet
  <2>2. NextLink(d) = IF i = Len(downloads) THEN Null ELSE downloads[i + 1]
    BY DEF NextLink
  <2> HIDE DEF i
  <2>3. i # Len(downloads) => i + 1 \in DOMAIN downloads
    BY <1>1, <2>1
  <2> QED BY <2>2, <2>3 DEF ToSet
<1> QED BY <1>1, <1>2, <1>3 DEF ToSet

(* Another step of the same function *)
LEMMA GotoOK ==
    ASSUME TypeOK, Base, ~Calm, Kept, Mild, NEW f, stack' = <<f>> \o Tail(stack),
           FrameOK(f, dl', stopped'), f.fn = F.fn, f.d = F.d,
           ~At(f, "finish", "verify"), ~At(f, "queue", "failed"),
           TopFor(f, dl', ToSet(downloads'), Len(stack), Bottom.fn, ret')
    PROVE  Base' /\ Goes(f)
<1>1. Len(stack) > 1 => Callee(f, stack[2])
  BY TopFacts DEF Base, Callee
<1>2. Len(stack) = 1 => Bottom.fn = f.fn
  BY TopFacts DEF Base
<1>3. TopFor(f, dl', ToSet(downloads'), Len(stack),
             IF Len(stack) = 1 THEN f.fn ELSE Bottom.fn, ret')
  BY <1>2
<1> QED BY <1>1, <1>3, GoesOK

(* A function ends with a call of download_state_cb. *)
LEMMA ChangeOK ==
    ASSUME DownManAssumption, TypeOK, Base, ~Calm, Kept, Mild, F.d \in Downloads,
           TailCall(Changed(F.d)), F.fn \in {"pause", "queue", "finish"},
           dl'[F.d].state \notin {"free", "NEW"},
           dl'[F.d].state \in EndStates => Bottom.fn # "stop_all"
    PROVE  Base' /\ Goes(Changed(F.d)) /\ ret' = ret
<1> DEFINE f == Changed(F.d)
<1>1. stack' = <<f>> \o Tail(stack) /\ ret' = ret
  BY DEF TailCall
<1>2. FrameOK(f, dl', stopped') /\ f.fn = "state_cb" /\ f.pc = "enter" /\ f.d = F.d
  BY ChangedFacts
<1> HIDE DEF f
<1>3. Len(stack) > 1 => Callee(f, stack[2])
  BY <1>2, TopFacts DEF Base, Callee, Outermost
<1>4. TopFor(f, dl', ToSet(downloads'), Len(stack),
             IF Len(stack) = 1 THEN f.fn ELSE Bottom.fn, ret')
  BY <1>2 DEF TopFor, At
<1>5. Base' /\ Goes(f)
  BY <1>1, <1>2, <1>3, <1>4, GoesOK DEF At
<1> QED BY <1>1, <1>5 DEF f

(* The functions that wait for download_state_cb on their download *)
LEMMA CallChangedOK ==
    ASSUME DownManAssumption, TypeOK, Base, ~Calm, Kept, Mild, F.d \in Downloads, NEW pc,
           <<F.fn, pc>> \in {<<"resume", "resumed">>, <<"finish", "verify">>,
                             <<"start", "started">>, <<"restart", "restarted">>},
           Call(Then(pc), Changed(F.d)),
           dl'[F.d].state \in {"ACTIVE", "PAUSED", "VERIFYING"},
           F.fn = "finish" => dl[F.d].state = "ACTIVE" /\ dl'[F.d].state = "VERIFYING"
    PROVE  Base' /\ Calls(Changed(F.d), Then(pc)) /\ ret' = ret
<1> DEFINE f == Then(pc)
           g == Changed(F.d)
<1>1. stack' = <<g, f>> \o Tail(stack) /\ ret' = ret
  BY DEF Call
<1>2. FrameOK(g, dl', stopped') /\ g.fn = "state_cb" /\ g.pc = "enter" /\ g.d = F.d
  BY ChangedFacts
<1>3. F \in FrameType /\ FrameOK(F, dl, stopped)
  BY TopFacts DEF Base
<1>4. pc \in {x[2] : x \in Places}
  BY DEF Places, Waiting
<1>5. /\ f \in FrameType /\ f.fn = F.fn /\ f.pc = pc /\ f.d = F.d
      /\ f.at = F.at /\ f.active = F.active /\ f.ret = F.ret
  BY <1>3, <1>4, ThenFacts
<1> HIDE DEF f, g
<1>6. <<f.fn, f.pc>> \in Waiting /\ <<f.fn, f.pc>> \in Places
  BY <1>5 DEF Waiting, Places
<1>7. FrameOK(f, dl', stopped')
  BY <1>3, <1>5, <1>6 DEF FrameOK, At
<1>8. Callee(g, f)
  BY <1>2, <1>5, <1>6 DEF Callee, Outermost
<1>9. At(f, "finish", "verify") => \A k \in 2 .. Len(stack) :
          ~(At(stack[k], "finish", "verify") /\ stack[k].d = f.d)
  <2> SUFFICES ASSUME F.fn = "finish", NEW k \in 2 .. Len(stack),
                      At(stack[k], "finish", "verify"), stack[k].d = F.d
               PROVE  FALSE
    BY <1>5 DEF At
  <2>1. k \in 1 .. Len(stack)
    BY TopFacts DEF Base
  <2>2. dl[F.d].state = "VERIFYING"
    BY <2>1 DEF Base, StackOK, FrameOK
  <2> QED BY <2>2
<1>10. Len(stack) > 1 => Callee(f, stack[2])
  BY <1>5, TopFacts DEF Base, Callee
<1>11. TopFor(g, dl', ToSet(downloads'), Len(stack) + 1,
              IF Len(stack) = 1 THEN f.fn ELSE Bottom.fn, ret')
  BY <1>2 DEF TopFor, At, EndStates
<1>12. ~At(f, "queue", "failed") /\ ~At(g, "finish", "verify") /\ ~At(g, "queue", "failed")
  BY <1>2, <1>5 DEF At
<1>13. Base' /\ Calls(g, f)
  BY <1>1, <1>2, <1>5, <1>7, <1>8, <1>9, <1>10, <1>11, <1>12, CallsOK
<1> QED BY <1>1, <1>13 DEF f, g

(* The count of as_downman_active_downloads_count () never overruns f.active. *)
LEMMA ActiveFinite ==
    ASSUME TypeOK
    PROVE  /\ IsFiniteSet(ActiveSet) /\ Cardinality(ActiveSet) \in Nat
           /\ ActiveSet \subseteq ToSet(downloads)
<1>1. IsFiniteSet(ToSet(downloads)) /\ ActiveSet \subseteq ToSet(downloads)
  BY ListFinite DEF TypeOK, ActiveSet
<1> QED BY <1>1, FS_Subset, FS_CardinalityType

(* The frames of download_state_cb *)
LEMMA CbEnterBase ==
    ASSUME TypeOK, Base, CbEnter,
           dl[F.d].state # "ACTIVE" => active_downloads <= MaxActive
    PROVE  /\ TypeOK' /\ Base' /\ ret' = ret
           /\ IF dl[F.d].state = "ACTIVE" /\ OverLimit(active_downloads)
              THEN Goes(Frame("queue", F.d))
              ELSE GoesTo("notify", active_downloads, F.at)
<1>1. /\ ~Calm /\ F.fn = "state_cb" /\ F.pc = "enter"
      /\ TopFor(F, dl, ToSet(downloads), Len(stack), Bottom.fn, ret)
  BY InFacts DEF CbEnter
<1>2. UNCHANGED <<dl, downloads, index, stopped, progress, odd, aborted>>
  BY DEF CbEnter, man
<1>3. Mild /\ Kept
  BY <1>1, <1>2, SameKept DEF Base
<1>4. F \in FrameType /\ FrameOK(F, dl, stopped) /\ F.d \in Downloads
  BY <1>1, TopFacts DEF Base
<1>5. CASE dl[F.d].state = "ACTIVE" /\ OverLimit(active_downloads)
  <2> DEFINE f == Frame("queue", F.d)
  <2>1. stack' = <<f>> \o Tail(stack) /\ ret' = ret
    BY <1>5 DEF CbEnter, TailCall
  <2>2. FrameOK(f, dl', stopped') /\ f.fn = "queue" /\ f.pc = "enter" /\ f.d = F.d
    BY <1>4, DownManAssumption, FrameFacts
  <2> HIDE DEF f
  <2>3. Len(stack) > 1 => Callee(f, stack[2])
    BY <1>1, <1>5, <2>2, TopFacts DEF Base, Callee, Outermost
  <2>4. TopFor(f, dl', ToSet(downloads'), Len(stack),
               IF Len(stack) = 1 THEN f.fn ELSE Bottom.fn, ret')
    BY <1>2, <1>5, <2>2 DEF TopFor, At
  <2>5. Base' /\ Goes(f)
    BY <1>1, <1>3, <2>1, <2>2, <2>3, <2>4, GoesOK DEF At
  <2>6. TypeOK'
    BY <1>2, <2>1, <2>5, TypeKept DEF Base, TypeOK
  <2> QED BY <1>5, <2>1, <2>5, <2>6 DEF f
<1>6. CASE ~(dl[F.d].state = "ACTIVE" /\ OverLimit(active_downloads))
  <2> DEFINE f == [F EXCEPT !.pc = "notify", !.active = active_downloads]
  <2>1. stack' = <<f>> \o Tail(stack) /\ ret' = ret
    BY <1>6 DEF CbEnter, Goto
  <2>2. active_downloads \in 0 .. MaxActive
    BY <1>6, ActiveFinite, DownManAssumption DEF active_downloads, OverLimit, DownManAssumption
  <2>3. /\ f \in FrameType /\ f.fn = "state_cb" /\ f.pc = "notify" /\ f.d = F.d
        /\ f.active = active_downloads /\ f.ret = F.ret /\ f.at = F.at
    BY <1>1, <1>4, <2>2 DEF FrameType
  <2> HIDE DEF f
  <2>4. FrameOK(f, dl', stopped')
    BY <1>1, <1>2, <1>4, <2>3 DEF FrameOK, At, Places
  <2>5. TopFor(f, dl', ToSet(downloads'), Len(stack), Bottom.fn, ret')
    BY <1>1, <1>2, <2>3 DEF TopFor, At
  <2>6. Base' /\ Goes(f)
    BY <1>1, <1>3, <2>1, <2>3, <2>4, <2>5, GotoOK DEF At
  <2>7. TypeOK'
    BY <1>2, <2>1, <2>6, TypeKept DEF Base, TypeOK
  <2> QED BY <1>1, <1>6, <2>1, <2>3, <2>6, <2>7 DEF GoesTo
<1> QED BY <1>5, <1>6

(* It goes on to the loop, or to the timer when the manager is stopped. *)
LEMMA CbNotifyBase ==
    ASSUME TypeOK, Base, CbNotify
    PROVE  /\ TypeOK' /\ Base' /\ ret' = ret
           /\ GoesTo(IF stopped THEN "timer" ELSE "scan", F.active, FirstLink)
<1>1. /\ ~Calm /\ F.fn = "state_cb" /\ F.pc = "notify"
  BY InFacts DEF CbNotify
<1>2. UNCHANGED <<dl, downloads, index, stopped, progress, odd, aborted>>
  BY DEF CbNotify, man
<1>3. Mild /\ Kept
  BY <1>1, <1>2, SameKept DEF Base
<1>4. F \in FrameType /\ FrameOK(F, dl, stopped) /\ F.d \in Downloads
  BY <1>1, TopFacts DEF Base
<1> DEFINE f == [Scan(TRUE) EXCEPT !.at = FirstLink]
<1>5. stack' = <<f>> \o Tail(stack) /\ ret' = ret
  BY DEF CbNotify, Goto
<1>6. FirstLink \in ToSet(downloads) \cup {Null} /\ FirstLink \in Downloads \cup {Null}
  BY LinkFacts
<1>7. /\ f \in FrameType /\ f.fn = "state_cb" /\ f.d = F.d /\ f.active = F.active
      /\ f.pc = (IF stopped THEN "timer" ELSE "scan") /\ f.at = FirstLink /\ f.ret = TRUE
  BY <1>1, <1>4, <1>6 DEF FrameType, Scan
<1> HIDE DEF f
<1>8. FrameOK(f, dl', stopped')
  BY <1>1, <1>2, <1>4, <1>7 DEF FrameOK, At, Places
<1>9. TopFor(f, dl', ToSet(downloads'), Len(stack), Bottom.fn, ret')
  BY <1>2, <1>6, <1>7 DEF TopFor, At
<1>10. Base' /\ Goes(f)
  BY <1>1, <1>3, <1>5, <1>7, <1>8, <1>9, GotoOK DEF At
<1>11. TypeOK'
  BY <1>2, <1>5, <1>10, TypeKept DEF Base, TypeOK
<1> QED BY <1>1, <1>5, <1>7, <1>10, <1>11 DEF GoesTo

(* A download is freed and taken off the list. *)
LEMMA DropFacts ==
    ASSUME TypeOK, ListOK, NEW d \in Downloads, Listed(d), Drop(d)
    PROVE  /\ downloads' \in Seq(Downloads) /\ IsInjective(downloads')
           /\ ToSet(downloads') = ToSet(downloads) \ {d}
           /\ downloads # <<>> /\ downloads[1] # d =>
                 downloads' # <<>> /\ downloads'[1] = downloads[1]
           /\ dl' \in [Downloads -> [state : States, hash : Hashes \cup {Null},
                                     whole : BOOLEAN]]
           /\ dl'[d].state = "free" /\ ~dl'[d].whole
           /\ \A e \in Downloads : e # d => dl'[e] = dl[e]
<1>1. downloads \in Seq(Downloads) /\ IsInjective(downloads)
  BY DEF TypeOK, ListOK
<1>2. downloads' = RemoveFirst(downloads, d) /\ dl' = [dl EXCEPT ![d] = Freed]
  BY DEF Drop
<1>3. /\ downloads' \in Seq(Downloads) /\ IsInjective(downloads')
      /\ ToSet(downloads') = ToSet(downloads) \ {d}
      /\ downloads # <<>> /\ downloads[1] # d =>
            downloads' # <<>> /\ downloads'[1] = downloads[1]
  BY <1>1, <1>2, ListRemoveFacts
<1>4. dl \in [Downloads -> [state : States, hash : Hashes \cup {Null}, whole : BOOLEAN]]
  BY DEF TypeOK
<1>5. Freed \in [state : States, hash : Hashes \cup {Null}, whole : BOOLEAN]
      /\ Freed.state = "free" /\ ~Freed.whole
  BY DEF Freed, States
<1> HIDE DEF Freed
<1> QED BY <1>2, <1>3, <1>4, <1>5

(* One of the list that is indexed goes, and nothing else changes. *)
LEMMA DropIndexed ==
    ASSUME TypeOK, ListOK, NEW d \in Downloads, Listed(d), Drop(d),
           index[dl[d].hash] = d, Unindex(dl[d].hash),
           \A e \in Downloads : Restarting(e)' <=> Restarting(e)
    PROVE  ListOK' /\ index' \in [Hashes -> Downloads \cup {Null}]
<1>1. /\ IsInjective(downloads') /\ ToSet(downloads') = ToSet(downloads) \ {d}
      /\ downloads # <<>> /\ downloads[1] # d =>
            downloads' # <<>> /\ downloads'[1] = downloads[1]
      /\ dl'[d].state = "free" /\ \A e \in Downloads : e # d => dl'[e] = dl[e]
  BY DropFacts
<1>2. index \in [Hashes -> Downloads \cup {Null}] /\ dl[d].hash \in Hashes
  BY DEF TypeOK, ListOK
<1>3. /\ index' \in [Hashes -> Downloads \cup {Null}]
      /\ \A h \in Hashes : index'[h] = IF h = dl[d].hash THEN Null ELSE index[h]
  BY <1>2 DEF Unindex
<1>4. \A e \in Downloads : Listed(e)' <=> Listed(e) /\ e # d
  BY <1>1 DEF Listed
<1>5. \A e \in Downloads : Listed(e)' <=> dl'[e].state # "free"
  BY <1>1, <1>4 DEF ListOK
<1>6. \A e \in Downloads : Listed(e)' => dl'[e].hash \in Hashes
  BY <1>1, <1>4 DEF ListOK
<1>7. ASSUME NEW h \in Hashes, index'[h] # Null
      PROVE  (Listed(index[h]) /\ dl[index[h]].hash = h /\ ~Restarting(index[h]))'
  <2>1. h # dl[d].hash /\ index'[h] = index[h] /\ index[h] \in Downloads
    BY <1>2, <1>3, <1>7
  <2>2. Listed(index[h]) /\ dl[index[h]].hash = h /\ ~Restarting(index[h])
    BY <1>7, <2>1 DEF ListOK
  <2>3. index[h] # d
    BY <2>1, <2>2
  <2> QED BY <1>1, <1>4, <2>1, <2>2, <2>3
<1>8. ASSUME NEW e \in Downloads, Listed(e)'
      PROVE  index'[dl'[e].hash] = e \/ Restarting(e)'
  <2>1. Listed(e) /\ e # d /\ dl'[e] = dl[e] /\ dl[e].hash \in Hashes
    BY <1>1, <1>4, <1>8 DEF ListOK
  <2>2. index[dl[e].hash] = e \/ Restarting(e)
    BY <2>1 DEF ListOK
  <2> QED BY <1>3, <2>1, <2>2
<1>9. ASSUME NEW e \in Downloads, Listed(e)', Restarting(e)' PROVE downloads'[1] = e
  <2>1. Listed(e) /\ e # d /\ downloads[1] = e
    BY <1>4, <1>9 DEF ListOK
  <2>2. downloads # <<>>
    BY <2>1 DEF Listed, ToSet
  <2> QED BY <1>1, <2>1, <2>2
<1> QED BY <1>1, <1>3, <1>5, <1>6, <1>7, <1>8, <1>9 DEF ListOK

(* The one that is being restarted goes, and as_downman_restart_file returns. *)
LEMMA DropUnindexed ==
    ASSUME TypeOK, ListOK, NEW d \in Downloads, Listed(d), Drop(d), UNCHANGED index,
           Restarting(d), Calm'
    PROVE  ListOK'
<1>1. /\ IsInjective(downloads') /\ ToSet(downloads') = ToSet(downloads) \ {d}
      /\ dl'[d].state = "free" /\ \A e \in Downloads : e # d => dl'[e] = dl[e]
  BY DropFacts
<1>2. index \in [Hashes -> Downloads \cup {Null}]
  BY DEF TypeOK
<1>3. \A e \in Downloads : /\ Listed(e)' <=> Listed(e) /\ e # d
                           /\ Restarting(e) => e = d
                           /\ ~Restarting(e)'
  BY <1>1 DEF Listed, Restarting
<1>4. \A e \in Downloads : Listed(e)' <=> dl'[e].state # "free"
  BY <1>1, <1>3 DEF ListOK
<1>5. \A e \in Downloads : Listed(e)' => dl'[e].hash \in Hashes
  BY <1>1, <1>3 DEF ListOK
<1>6. ASSUME NEW h \in Hashes, index'[h] # Null
      PROVE  (Listed(index[h]) /\ dl[index[h]].hash = h /\ ~Restarting(index[h]))'
  <2>1. index'[h] = index[h] /\ index[h] \in Downloads
    BY <1>2, <1>6
  <2>2. Listed(index[h]) /\ dl[index[h]].hash = h /\ ~Restarting(index[h])
    BY <1>6, <2>1 DEF ListOK
  <2>3. index[h] # d
    BY <2>2
  <2> QED BY <1>1, <1>3, <2>1, <2>2, <2>3
<1>7. ASSUME NEW e \in Downloads, Listed(e)' PROVE index'[dl'[e].hash] = e
  BY <1>1, <1>3, <1>7 DEF ListOK
<1> QED BY <1>1, <1>3, <1>4, <1>5, <1>6, <1>7 DEF ListOK

(* It does so, too, when the owner freed the download. *)
LEMMA CbNotifyRemovesBase ==
    ASSUME TypeOK, Base, CbNotifyRemoves
    PROVE  /\ TypeOK'
           /\ aborted' = "no" =>
              /\ Base' /\ ret' = ret /\ Drop(F.d) /\ Listed(F.d)
              /\ UNCHANGED <<stopped, progress, odd>>
              /\ GoesTo(IF stopped THEN "timer" ELSE "scan", F.active, FirstLink')
<1>1. /\ ~Calm /\ F.fn = "state_cb" /\ F.pc = "notify"
      /\ TopFor(F, dl, ToSet(downloads), Len(stack), Bottom.fn, ret)
      /\ aborted = "no" /\ dl[F.d].state \in EndStates
  BY InFacts DEF CbNotifyRemoves
<1>2. F \in FrameType /\ FrameOK(F, dl, stopped) /\ F.d \in Downloads
  BY <1>1, TopFacts DEF Base
<1>3. CASE index[dl[F.d].hash] # F.d
  BY <1>3, CrashFacts DEF CbNotifyRemoves
<1>4. CASE index[dl[F.d].hash] = F.d
  <2>1. /\ Drop(F.d) /\ Unindex(dl[F.d].hash)
        /\ UNCHANGED <<stopped, progress, odd, aborted>>
    BY <1>4 DEF CbNotifyRemoves
  <2>2. Listed(F.d)
    BY <1>1, <1>2 DEF Base, ListOK, EndStates
  <2> DEFINE f == [Scan(FALSE) EXCEPT !.at =
                      IF downloads' = <<>> THEN Null ELSE Head(downloads')]
  <2>3. stack' = <<f>> \o Tail(stack) /\ ret' = ret
    BY <1>4 DEF CbNotifyRemoves, Goto
  <2>4. /\ downloads' \in Seq(Downloads) /\ dl'[F.d].state = "free"
        /\ dl' \in [Downloads -> [state : States, hash : Hashes \cup {Null}, whole : BOOLEAN]]
        /\ \A e \in Downloads : e # F.d => dl'[e] = dl[e]
    BY <1>2, <2>1, <2>2, DropFacts DEF Base
  <2> DEFINE at == IF downloads' = <<>> THEN Null ELSE Head(downloads')
  <2>5. at = FirstLink' /\ at \in ToSet(downloads') \cup {Null} /\ at \in Downloads \cup {Null}
    <3>1. downloads' # <<>> => 1 \in DOMAIN downloads' /\ Head(downloads') = downloads'[1]
      BY <2>4
    <3> QED BY <2>4, <3>1 DEF FirstLink, ToSet
  <2> HIDE DEF at
  <2>6. /\ f \in FrameType /\ f.fn = "state_cb" /\ f.d = F.d /\ f.active = F.active
        /\ f.pc = (IF stopped THEN "timer" ELSE "scan") /\ f.at = at /\ f.ret = FALSE
    BY <1>1, <1>2, <2>5 DEF FrameType, Scan, at
  <2> HIDE DEF f
  <2>7. FrameOK(f, dl', stopped')
    BY <1>1, <1>2, <2>1, <2>4, <2>6 DEF FrameOK, At, Places
  <2>8. TopFor(f, dl', ToSet(downloads'), Len(stack), Bottom.fn, ret')
    BY <2>5, <2>6 DEF TopFor, At
  <2>9. Kept
    <3>1. dl[F.d].state \notin {"free", "PAUSED", "VERIFYING"}
      BY <1>1 DEF EndStates
    <3> QED BY <1>1, <2>1, <2>4, <3>1, KeptFacts DEF Base
  <2>10. Len(stack) > 1 => Callee(f, stack[2])
    BY <1>1, <2>6, TopFacts DEF Base, Callee
  <2>11. Len(stack) = 1 => Bottom.fn = f.fn
    BY <1>1, <2>6, TopFacts DEF Base
  <2>12. StackOK' /\ TopOK' /\ Goes(f)
    <3>1. TopFor(f, dl', ToSet(downloads'), Len(stack),
                 IF Len(stack) = 1 THEN f.fn ELSE Bottom.fn, ret')
      BY <2>8, <2>11
    <3> QED BY <1>1, <2>3, <2>6, <2>7, <2>9, <2>10, <3>1, GotoStep DEF Base, At, Goes
  <2>13. \A e \in Downloads : Restarting(e)' <=> Restarting(e)
    BY <1>1, <2>6, <2>12, TopFacts DEF Base, Goes, Restarting
  <2>14. ListOK' /\ index' \in [Hashes -> Downloads \cup {Null}]
    BY <1>2, <1>4, <2>1, <2>2, <2>13, DropIndexed DEF Base
  <2>15. TypeOK'
    BY <2>1, <2>3, <2>4, <2>12, <2>14 DEF TypeOK, StackOK, progress
  <2>16. GoesTo(IF stopped THEN "timer" ELSE "scan", F.active, FirstLink')
    BY <1>1, <2>5, <2>6, <2>12 DEF GoesTo
  <2> QED BY <2>1, <2>2, <2>3, <2>12, <2>14, <2>15, <2>16 DEF Base
<1> QED BY <1>3, <1>4

(* as_download_resume is called, by download_state_cb or as_downman_go_on. *)
LEMMA CallResumeOK ==
    ASSUME TypeOK, Base, ~Calm, NEW pc,
           <<F.fn, pc>> \in {<<"state_cb", "resumed">>, <<"go_on", "called">>},
           Call(Then(pc), Frame("resume", F.at)), F.at # Null, dl[F.at].state = "QUEUED",
           F.active < MaxActive, ~stopped,
           F.fn = "state_cb" => F.pc = "scan",
           UNCHANGED <<dl, downloads, index, stopped>>
    PROVE  Base' /\ Calls(Frame("resume", F.at), Then(pc)) /\ ret' = ret
<1> DEFINE f == Then(pc)
           g == Frame("resume", F.at)
<1>1. stack' = <<g, f>> \o Tail(stack) /\ ret' = ret
  BY DEF Call
<1>2. F \in FrameType /\ FrameOK(F, dl, stopped)
  BY TopFacts DEF Base
<1>3. F.at \in Downloads
  BY <1>2 DEF FrameType
<1>4. FrameOK(g, dl', stopped') /\ g.fn = "resume" /\ g.pc = "enter" /\ g.d = F.at
  BY <1>3, FrameFacts, DownManAssumption
<1>5. pc \in {x[2] : x \in Places}
  BY DEF Places, Waiting
<1>6. /\ f \in FrameType /\ f.fn = F.fn /\ f.pc = pc /\ f.d = F.d
      /\ f.at = F.at /\ f.active = F.active /\ f.ret = F.ret
  BY <1>2, <1>5, ThenFacts
<1> HIDE DEF f, g
<1>7. <<f.fn, f.pc>> \in Waiting /\ <<f.fn, f.pc>> \in Places
  BY <1>6 DEF Waiting, Places
<1>8. FrameOK(f, dl', stopped')
  BY <1>2, <1>6, <1>7 DEF FrameOK, At
<1>9. Callee(g, f)
  BY <1>4, <1>6, <1>7 DEF Callee, Outermost
<1>10. Len(stack) > 1 => Callee(f, stack[2])
  BY <1>6, TopFacts DEF Base, Callee
<1>11. TopFor(g, dl', ToSet(downloads'), Len(stack) + 1,
              IF Len(stack) = 1 THEN f.fn ELSE Bottom.fn, ret')
  BY <1>4, <1>6, TopFacts DEF Base, TopFor, At
<1>12. /\ ~At(f, "queue", "failed") /\ ~At(f, "finish", "verify")
       /\ ~At(g, "finish", "verify") /\ ~At(g, "queue", "failed")
  BY <1>4, <1>6 DEF At
<1>13. Mild /\ Kept
  BY SameKept DEF Base
<1>14. Base' /\ Calls(g, f)
  BY <1>1, <1>4, <1>6, <1>8, <1>9, <1>10, <1>11, <1>12, <1>13, CallsOK
<1> QED BY <1>1, <1>14 DEF f, g

(* A loop goes on, or ends. *)
LEMMA LoopOK ==
    ASSUME TypeOK, Base, ~Calm, NEW f \in FrameType, stack' = <<f>> \o Tail(stack),
           f.fn = F.fn, f.d = F.d, f.ret = F.ret, f.at \in ToSet(downloads) \cup {Null},
           <<f.fn, f.pc>> \in {<<"state_cb", "scan">>, <<"state_cb", "timer">>,
                               <<"stop_all", "enter">>, <<"go_on", "enter">>},
           F.fn = "state_cb" => F.pc \in {"scan", "resumed"},
           UNCHANGED <<dl, downloads, index, stopped>>
    PROVE  Base' /\ Goes(f) /\ GoesTo(f.pc, f.active, f.at)
<1>1. F \in FrameType /\ FrameOK(F, dl, stopped)
  BY TopFacts DEF Base
<1>2. FrameOK(f, dl', stopped')
  BY <1>1 DEF FrameOK, At, Places
<1>3. TopFor(f, dl', ToSet(downloads'), Len(stack), Bottom.fn, ret')
  BY DEF TopFor, At
<1>4. Mild /\ Kept
  BY SameKept DEF Base
<1>5. Base' /\ Goes(f)
  BY <1>2, <1>3, <1>4, GotoOK DEF At
<1> QED BY <1>5 DEF GoesTo

(* The loop resumes what waits, goes on to the next link or ends. *)
LEMMA CbScanBase ==
    ASSUME TypeOK, Base, CbScan
    PROVE  /\ TypeOK' /\ Base' /\ ret' = ret
           /\ IF F.active < MaxActive /\ F.at # Null
              THEN IF dl[F.at].state = "QUEUED"
                   THEN Calls(Frame("resume", F.at), Then("resumed"))
                   ELSE Listed(F.at) /\ GoesTo("scan", F.active, NextLink(F.at))
              ELSE GoesTo("timer", F.active, F.at)
<1>1. /\ ~Calm /\ F.fn = "state_cb" /\ F.pc = "scan"
      /\ F.at \in ToSet(downloads) \cup {Null}
  BY InFacts DEF CbScan, TopFor, At
<1>2. UNCHANGED <<dl, downloads, index, stopped, progress, odd, aborted>>
  BY DEF CbScan, man
<1>3. F \in FrameType /\ ~stopped
  BY <1>1, TopFacts DEF Base, FrameOK, At
<1>4. Base' /\ ret' = ret => TypeOK'
  BY <1>2, TypeKept DEF Base, TypeOK
<1>5. CASE F.active < MaxActive /\ F.at # Null /\ dl[F.at].state = "QUEUED"
  <2>1. Call(Then("resumed"), Frame("resume", F.at))
    BY <1>5 DEF CbScan
  <2>2. Base' /\ Calls(Frame("resume", F.at), Then("resumed")) /\ ret' = ret
    BY <1>1, <1>2, <1>3, <1>5, <2>1, CallResumeOK
  <2> QED BY <1>4, <1>5, <2>2
<1>6. CASE F.active < MaxActive /\ F.at # Null /\ dl[F.at].state # "QUEUED"
  <2> DEFINE f == [F EXCEPT !.at = NextLink(F.at)]
  <2>1. stack' = <<f>> \o Tail(stack) /\ ret' = ret
    BY <1>6 DEF CbScan, Goto
  <2>2. Listed(F.at) /\ NextLink(F.at) \in ToSet(downloads) \cup {Null}
        /\ NextLink(F.at) \in Downloads \cup {Null}
    BY <1>1, <1>6, LinkFacts DEF Listed
  <2>3. /\ f \in FrameType /\ f.fn = F.fn /\ f.d = F.d /\ f.ret = F.ret
        /\ f.at = NextLink(F.at) /\ f.pc = "scan" /\ f.active = F.active
    BY <1>1, <1>3, <2>2 DEF FrameType
  <2> HIDE DEF f
  <2>4. Base' /\ GoesTo("scan", F.active, NextLink(F.at))
    BY <1>1, <1>2, <2>1, <2>2, <2>3, LoopOK
  <2> QED BY <1>4, <1>6, <2>1, <2>2, <2>4
<1>7. CASE ~(F.active < MaxActive /\ F.at # Null)
  <2> DEFINE f == Then("timer")
  <2>1. stack' = <<f>> \o Tail(stack) /\ ret' = ret
    BY <1>7 DEF CbScan, Goto
  <2>2. "timer" \in {x[2] : x \in Places}
    BY DEF Places, Waiting
  <2>3. /\ f \in FrameType /\ f.fn = F.fn /\ f.d = F.d /\ f.ret = F.ret
        /\ f.at = F.at /\ f.pc = "timer" /\ f.active = F.active
    BY <1>3, <2>2, ThenFacts
  <2> HIDE DEF f
  <2>4. Base' /\ GoesTo("timer", F.active, F.at)
    BY <1>1, <1>2, <2>1, <2>3, LoopOK
  <2> QED BY <1>4, <1>7, <2>1, <2>4
<1> QED BY <1>5, <1>6, <1>7

(* It goes on behind a resumed download if that is still there. *)
LEMMA CbResumedBase ==
    ASSUME TypeOK, Base, CbResumed
    PROVE  /\ TypeOK'
           /\ ~Listed(F.at) => aborted' = "freed"
           /\ aborted' = "no" =>
              /\ Base' /\ ret' = ret /\ Listed(F.at)
              /\ UNCHANGED <<dl, downloads, index, stopped, progress, odd>>
              /\ GoesTo("scan", IF ret THEN F.active + 1 ELSE F.active, NextLink(F.at))
<1>1. ~Calm /\ F.fn = "state_cb" /\ F.pc = "resumed" /\ aborted = "no"
  BY InFacts DEF CbResumed
<1>2. F \in FrameType /\ ~stopped /\ F.active < MaxActive
  BY <1>1, TopFacts DEF Base, FrameOK, At
<1>3. CASE ~Listed(F.at)
  <2>1. Crash("freed")
    BY <1>3 DEF CbResumed
  <2> QED BY <1>3, <2>1, CrashFacts DEF Crash
<1>4. CASE Listed(F.at)
  <2> DEFINE f == [F EXCEPT !.pc = "scan", !.at = NextLink(F.at),
                            !.active = IF ret THEN @ + 1 ELSE @]
  <2>1. stack' = <<f>> \o Tail(stack) /\ ret' = ret
    BY <1>4 DEF CbResumed, Goto
  <2>2. NextLink(F.at) \in ToSet(downloads) \cup {Null}
        /\ NextLink(F.at) \in Downloads \cup {Null}
    BY <1>1, <1>4, LinkFacts DEF Listed
  <2>3. (IF ret THEN F.active + 1 ELSE F.active) \in 0 .. MaxActive
    BY <1>2, DownManAssumption DEF FrameType, DownManAssumption
  <2>4. /\ f \in FrameType /\ f.fn = F.fn /\ f.d = F.d /\ f.ret = F.ret
        /\ f.at = NextLink(F.at) /\ f.pc = "scan"
        /\ f.active = IF ret THEN F.active + 1 ELSE F.active
    BY <1>1, <1>2, <2>2, <2>3 DEF FrameType
  <2> HIDE DEF f
  <2>5. UNCHANGED <<dl, downloads, index, stopped, progress, odd, aborted>>
    BY <1>4 DEF CbResumed, man
  <2>6. Base' /\ GoesTo("scan", IF ret THEN F.active + 1 ELSE F.active, NextLink(F.at))
    BY <1>1, <2>1, <2>2, <2>4, <2>5, LoopOK
  <2>7. TypeOK'
    BY <2>1, <2>5, <2>6, TypeKept DEF Base, TypeOK
  <2> QED BY <1>4, <2>1, <2>5, <2>6, <2>7
<1> QED BY <1>3, <1>4

(* The callback returns. *)
LEMMA CbTimerBase ==
    ASSUME TypeOK, Base, CbTimer
    PROVE  TypeOK' /\ Base' /\ Returns /\ ret' = F.ret
<1>1. ~Calm /\ F.fn = "state_cb" /\ F.pc = "timer"
  BY InFacts DEF CbTimer
<1>2. /\ UNCHANGED <<dl, downloads, index, stopped, progress_cb, odd, aborted>>
      /\ stack' = Tail(stack) /\ ret' = F.ret /\ progress_timer' \in BOOLEAN
  BY DEF CbTimer, man, Return, TypeOK
<1>3. Mild /\ Kept
  BY <1>1, <1>2, SameKept DEF Base
<1>4. F \in FrameType /\ (~F.ret => dl[F.d].state = "free")
  BY <1>1, TopFacts DEF Base, FrameOK
<1>5. Base' /\ Returns
  BY <1>1, <1>2, <1>3, <1>4, ReturnsOK
<1>6. ret' \in BOOLEAN
  BY <1>2, <1>4 DEF FrameType
<1>7. TypeOK'
  BY <1>2, <1>5, <1>6 DEF TypeOK, Base, StackOK
<1> QED BY <1>2, <1>5, <1>7

(* What the manager calls in as_download.c *)
LEMMA PauseBase ==
    ASSUME TypeOK, Base, Pause
    PROVE  /\ TypeOK' /\ Base'
           /\ IF dl[F.d].state \in {"ACTIVE", "QUEUED"}
              THEN SetState(F.d, "PAUSED") /\ Goes(Changed(F.d)) /\ ret' = ret
              ELSE UNCHANGED dl /\ Returns
<1>1. ~Calm /\ F.fn = "pause" /\ F.pc = "enter"
  BY InFacts DEF Pause
<1>2. UNCHANGED <<downloads, index, stopped, progress, odd, aborted>>
  BY DEF Pause, man
<1>3. F.d \in Downloads
  BY <1>1, TopFacts DEF Base
<1>4. CASE dl[F.d].state \in {"ACTIVE", "QUEUED"}
  <2>1. SetState(F.d, "PAUSED") /\ TailCall(Changed(F.d))
    BY <1>4 DEF Pause
  <2>2. "PAUSED" \in States \ {"free"}
    BY DEF States
  <2>3. Mild /\ dl'[F.d].state = "PAUSED"
    BY <1>2, <1>3, <1>4, <2>1, <2>2, SetFacts
  <2>4. Kept
    BY <1>1, <1>2, <1>3, <1>4, <2>1, <2>2, SetKept DEF Base
  <2>5. Base' /\ Goes(Changed(F.d)) /\ ret' = ret
    BY <1>1, <1>3, <2>1, <2>3, <2>4, ChangeOK, DownManAssumption DEF EndStates
  <2>6. ret' \in BOOLEAN /\ stopped' \in BOOLEAN /\ UNCHANGED man
    BY <1>2, <2>5 DEF TypeOK, man
  <2>7. TypeOK'
    BY <1>2, <1>3, <1>4, <2>1, <2>2, <2>5, <2>6, SetTypeKept DEF Base
  <2> QED BY <1>4, <2>1, <2>5, <2>7
<1>5. CASE dl[F.d].state \notin {"ACTIVE", "QUEUED"}
  <2>1. stack' = Tail(stack) /\ ret' = (dl[F.d].state = "PAUSED") /\ UNCHANGED dl
    BY <1>5 DEF Pause, Return
  <2>2. Mild
    BY <1>2, <2>1, SameKept
  <2>3. Kept
    BY <1>1, <1>2, <1>5, <2>1, KeptFacts DEF Base
  <2>4. Len(stack) > 1 => stack[2].fn = "queue"
    BY <1>1, TopFacts DEF Base, Callee
  <2>5. Base' /\ Returns
    BY <1>1, <2>1, <2>2, <2>3, <2>4, ReturnsOK
  <2>6. TypeOK'
    BY <1>2, <2>1, <2>5, TypeKept DEF Base, TypeOK
  <2> QED BY <1>5, <2>1, <2>5, <2>6
<1> QED BY <1>4, <1>5

(* as_download_queue returns, changes the state or pauses the download. *)
LEMMA QueueBase ==
    ASSUME TypeOK, Base, Queue
    PROVE  /\ TypeOK' /\ Base'
           /\ \/ /\ dl[F.d].state \notin {"ACTIVE", "PAUSED"}
                 /\ UNCHANGED dl /\ Returns
              \/ /\ dl[F.d].state \in {"ACTIVE", "PAUSED"}
                 /\ SetState(F.d, "QUEUED") /\ Goes(Changed(F.d)) /\ ret' = ret
              \/ /\ dl[F.d].state \in {"ACTIVE", "PAUSED"}
                 /\ UNCHANGED <<dl, ret>> /\ Calls(Frame("pause", F.d), Then("failed"))
<1>1. /\ ~Calm /\ F.fn = "queue" /\ F.pc = "enter"
      /\ dl[F.d].state = "ACTIVE" \/ (Len(stack) = 2 /\ Bottom.fn = "stop_all")
  BY InFacts DEF Queue, TopFor, At
<1>2. UNCHANGED <<downloads, index, stopped, progress, odd, aborted>>
  BY DEF Queue, man
<1>3. F.d \in Downloads /\ F \in FrameType /\ FrameOK(F, dl, stopped)
  BY <1>1, TopFacts DEF Base
<1>4. CASE dl[F.d].state \notin {"ACTIVE", "PAUSED"}
  <2>1. stack' = Tail(stack) /\ ret' = (dl[F.d].state = "QUEUED") /\ UNCHANGED dl
    BY <1>4 DEF Queue, Return
  <2>2. Mild /\ Kept
    BY <1>1, <1>2, <2>1, SameKept DEF Base
  <2>3. Base' /\ Returns
    BY <1>1, <1>4, <2>1, <2>2, ReturnsOK
  <2>4. TypeOK'
    BY <1>2, <2>1, <2>3, TypeKept DEF Base, TypeOK
  <2> QED BY <1>4, <2>1, <2>3, <2>4
<1>5. CASE dl[F.d].state \in {"ACTIVE", "PAUSED"} /\ SetState(F.d, "QUEUED")
           /\ TailCall(Changed(F.d))
  <2>1. "QUEUED" \in States \ {"free"}
    BY DEF States
  <2>2. Mild /\ dl'[F.d].state = "QUEUED"
    BY <1>2, <1>3, <1>5, <2>1, SetFacts
  <2>3. Kept
    <3>1. CASE dl[F.d].state = "ACTIVE"
      BY <1>1, <1>2, <1>3, <1>5, <2>1, <3>1, SetKept DEF Base
    <3>2. CASE Len(stack) = 2 /\ Bottom.fn = "stop_all"
      BY <1>1, <1>2, <3>2, LowKept DEF Base
    <3> QED BY <1>1, <3>1, <3>2
  <2>4. Base' /\ Goes(Changed(F.d)) /\ ret' = ret
    BY <1>1, <1>3, <1>5, <2>2, <2>3, ChangeOK, DownManAssumption DEF EndStates
  <2>5. ret' \in BOOLEAN /\ stopped' \in BOOLEAN /\ UNCHANGED man
    BY <1>2, <2>4 DEF TypeOK, man
  <2>6. TypeOK'
    BY <1>2, <1>3, <1>5, <2>1, <2>4, <2>5, SetTypeKept DEF Base
  <2> QED BY <1>5, <2>4, <2>6
<1>6. CASE /\ dl[F.d].state \in {"ACTIVE", "PAUSED"} /\ UNCHANGED dl
           /\ Call(Then("failed"), Frame("pause", F.d))
  <2> DEFINE f == Then("failed")
             g == Frame("pause", F.d)
  <2>1. stack' = <<g, f>> \o Tail(stack) /\ ret' = ret
    BY <1>6 DEF Call
  <2>2. FrameOK(g, dl', stopped') /\ g.fn = "pause" /\ g.pc = "enter" /\ g.d = F.d
    BY <1>3, FrameFacts, DownManAssumption
  <2>3. "failed" \in {x[2] : x \in Places}
    BY DEF Places, Waiting
  <2>4. /\ f \in FrameType /\ f.fn = F.fn /\ f.pc = "failed" /\ f.d = F.d
        /\ f.at = F.at /\ f.active = F.active /\ f.ret = F.ret
    BY <1>3, <2>3, ThenFacts
  <2> HIDE DEF f, g
  <2>5. FrameOK(f, dl', stopped')
    BY <1>1, <1>3, <2>4 DEF FrameOK, At, Places, Waiting
  <2>6. Callee(g, f)
    BY <1>1, <2>2, <2>4 DEF Callee, Outermost, Waiting
  <2>7. Len(stack) > 1 => Callee(f, stack[2])
    BY <1>1, <2>4, TopFacts DEF Base, Callee
  <2>8. TopFor(g, dl', ToSet(downloads'), Len(stack) + 1,
               IF Len(stack) = 1 THEN f.fn ELSE Bottom.fn, ret')
    BY <2>2 DEF TopFor, At
  <2>9. /\ ~At(f, "finish", "verify") /\ ~At(g, "finish", "verify") /\ ~At(g, "queue", "failed")
    BY <2>2, <2>4 DEF At
  <2>10. Mild /\ Kept
    BY <1>1, <1>2, <1>6, SameKept DEF Base
  <2>11. Base' /\ Calls(g, f)
    <3>1. dl'[f.d].state = "PAUSED" \/ (dl'[f.d].state = "ACTIVE" /\ g.fn = "pause")
      BY <1>6, <2>2, <2>4
    <3> QED BY <1>1, <2>1, <2>2, <2>4, <2>5, <2>6, <2>7, <2>8, <2>9, <2>10, <3>1, CallsOK
  <2>12. TypeOK'
    BY <1>2, <1>6, <2>1, <2>11, TypeKept DEF Base, TypeOK
  <2> QED BY <1>6, <2>1, <2>11, <2>12 DEF f, g
<1> QED BY <1>4, <1>5, <1>6 DEF Queue

(* It returns FALSE after that. *)
LEMMA QueueFailedBase ==
    ASSUME TypeOK, Base, QueueFailed
    PROVE  TypeOK' /\ Base' /\ Returns /\ ret' = FALSE
<1>1. ~Calm /\ F.fn = "queue" /\ F.pc = "failed"
  BY InFacts DEF QueueFailed
<1>2. /\ UNCHANGED <<dl, downloads, index, stopped, progress, odd, aborted>>
      /\ stack' = Tail(stack) /\ ret' = FALSE
  BY DEF QueueFailed, man, Return
<1>3. Mild /\ Kept /\ dl[F.d].state = "PAUSED"
  BY <1>1, <1>2, SameKept, TopFacts DEF Base, At
<1>4. Base' /\ Returns
  BY <1>1, <1>2, <1>3, ReturnsOK
<1>5. TypeOK'
  BY <1>2, <1>4, TypeKept DEF Base, TypeOK
<1> QED BY <1>2, <1>4, <1>5

(* as_download_resume changes the state or returns, *)
LEMMA ResumeBase ==
    ASSUME TypeOK, Base, Resume
    PROVE  /\ TypeOK' /\ Base' /\ Bottom.fn # "stop_all"
           /\ IF dl[F.d].state \in {"PAUSED", "QUEUED"}
              THEN SetState(F.d, "ACTIVE") /\ Calls(Changed(F.d), Then("resumed")) /\ ret' = ret
              ELSE UNCHANGED dl /\ Returns /\ ret' = (dl[F.d].state = "ACTIVE")
<1>1. /\ ~Calm /\ F.fn = "resume" /\ F.pc = "enter"
      /\ Len(stack) = 1 \/ dl[F.d].state = "QUEUED"
  BY InFacts DEF Resume, TopFor, At
<1>2. UNCHANGED <<downloads, index, stopped, progress, odd, aborted>>
  BY DEF Resume, man
<1>3. F.d \in Downloads /\ F \in FrameType /\ FrameOK(F, dl, stopped) /\ Bottom.fn # "stop_all"
  BY <1>1, TopFacts DEF Base
<1>4. CASE dl[F.d].state \in {"PAUSED", "QUEUED"}
  <2>1. SetState(F.d, "ACTIVE") /\ Call(Then("resumed"), Changed(F.d))
    BY <1>4 DEF Resume
  <2>2. "ACTIVE" \in States \ {"free"}
    BY DEF States
  <2>3. Mild /\ dl'[F.d].state = "ACTIVE"
    BY <1>2, <1>3, <1>4, <2>1, <2>2, SetFacts
  <2>4. Kept
    <3>1. CASE dl[F.d].state = "QUEUED"
      BY <1>1, <1>2, <1>3, <2>1, <2>2, <3>1, SetKept DEF Base
    <3>2. CASE Len(stack) = 1
      BY <1>1, <1>2, <3>2, LowKept DEF Base
    <3> QED BY <1>1, <3>1, <3>2
  <2>6. Base' /\ Calls(Changed(F.d), Then("resumed")) /\ ret' = ret
    BY <1>1, <1>3, <2>1, <2>3, <2>4, CallChangedOK, DownManAssumption
  <2>7. ret' \in BOOLEAN /\ stopped' \in BOOLEAN /\ UNCHANGED man
    BY <1>2, <2>6 DEF TypeOK, man
  <2>8. TypeOK'
    BY <1>2, <1>3, <1>4, <2>1, <2>2, <2>6, <2>7, SetTypeKept DEF Base
  <2> QED BY <1>3, <1>4, <2>1, <2>6, <2>8
<1>5. CASE dl[F.d].state \notin {"PAUSED", "QUEUED"}
  <2>1. stack' = Tail(stack) /\ ret' = (dl[F.d].state = "ACTIVE") /\ UNCHANGED dl
    BY <1>5 DEF Resume, Return
  <2>2. Mild /\ Kept
    BY <1>1, <1>2, <2>1, SameKept DEF Base
  <2>3. Len(stack) > 1 => stack[2].fn \in {"state_cb", "go_on"}
    BY <1>1, TopFacts DEF Base, Callee
  <2>4. Base' /\ Returns
    BY <1>1, <2>1, <2>2, <2>3, ReturnsOK
  <2>5. TypeOK'
    BY <1>2, <2>1, <2>4, TypeKept DEF Base, TypeOK
  <2> QED BY <1>3, <1>5, <2>1, <2>4, <2>5
<1> QED BY <1>4, <1>5

(* download_finished is called for a download that is there. *)
LEMMA CallFinishOK ==
    ASSUME TypeOK, Base, ~Calm, NEW pc,
           <<F.fn, pc>> \in {<<"resume", "done">>, <<"restart", "index">>},
           Call(Then(pc), Frame("finish", F.d)), dl[F.d].state = "ACTIVE",
           UNCHANGED <<dl, downloads, index, stopped>>
    PROVE  Base' /\ Calls(Frame("finish", F.d), Then(pc)) /\ ret' = ret
<1> DEFINE f == Then(pc)
           g == Frame("finish", F.d)
<1>1. stack' = <<g, f>> \o Tail(stack) /\ ret' = ret
  BY DEF Call
<1>2. F \in FrameType /\ FrameOK(F, dl, stopped) /\ F.d \in Downloads
  BY TopFacts DEF Base
<1>3. FrameOK(g, dl', stopped') /\ g.fn = "finish" /\ g.pc = "enter" /\ g.d = F.d
  BY <1>2, FrameFacts, DownManAssumption
<1>4. pc \in {x[2] : x \in Places}
  BY DEF Places, Waiting
<1>5. /\ f \in FrameType /\ f.fn = F.fn /\ f.pc = pc /\ f.d = F.d
      /\ f.at = F.at /\ f.active = F.active /\ f.ret = F.ret
  BY <1>2, <1>4, ThenFacts
<1> HIDE DEF f, g
<1>6. <<f.fn, f.pc>> \in Waiting /\ <<f.fn, f.pc>> \in Places
  BY <1>5 DEF Waiting, Places
<1>7. FrameOK(f, dl', stopped')
  BY <1>2, <1>5, <1>6 DEF FrameOK, At
<1>8. Callee(g, f)
  BY <1>3, <1>5, <1>6 DEF Callee, Outermost, At
<1>9. Len(stack) > 1 => Callee(f, stack[2])
  BY <1>5, TopFacts DEF Base, Callee
<1>10. TopFor(g, dl', ToSet(downloads'), Len(stack) + 1,
              IF Len(stack) = 1 THEN f.fn ELSE Bottom.fn, ret')
  <2>1. Len(stack) # 1 => Bottom.fn # "stop_all"
    <3>1. Len(stack) > 1 => F.fn # "restart"
      BY TopFacts DEF Base, Outermost
    <3>2. Len(stack) = 1 \/ Len(stack) > 1
      BY TopFacts, OneOrMore DEF Base
    <3> QED BY <3>1, <3>2, TopFacts DEF Base
  <2> QED BY <1>3, <1>5, <2>1 DEF TopFor, At
<1>11. /\ ~At(f, "queue", "failed") /\ ~At(f, "finish", "verify")
       /\ ~At(g, "finish", "verify") /\ ~At(g, "queue", "failed")
  BY <1>3, <1>5 DEF At
<1>12. Mild /\ Kept
  BY SameKept DEF Base
<1>13. Base' /\ Calls(g, f)
  BY <1>1, <1>3, <1>5, <1>7, <1>8, <1>9, <1>10, <1>11, <1>12, CallsOK
<1> QED BY <1>1, <1>13 DEF f, g

(* finishes a download that is complete, *)
LEMMA ResumedBase ==
    ASSUME TypeOK, Base, Resumed
    PROVE  /\ TypeOK' /\ Base' /\ ret' = ret
           /\ IF ret /\ dl[F.d].state = "ACTIVE" /\ dl[F.d].whole
              THEN Calls(Frame("finish", F.d), Then("done"))
              ELSE Returns
<1>1. ~Calm /\ F.fn = "resume" /\ F.pc = "resumed"
  BY InFacts DEF Resumed
<1>2. UNCHANGED <<dl, downloads, index, stopped, progress, odd, aborted>>
  BY DEF Resumed, man
<1>3. Base' /\ ret' = ret => TypeOK'
  BY <1>2, TypeKept DEF Base, TypeOK
<1>4. CASE ret /\ dl[F.d].state = "ACTIVE" /\ dl[F.d].whole
  <2>1. Call(Then("done"), Frame("finish", F.d))
    BY <1>4 DEF Resumed
  <2>2. <<F.fn, "done">> \in {<<"resume", "done">>, <<"restart", "index">>}
    BY <1>1
  <2>3. UNCHANGED <<dl, downloads, index, stopped>> /\ dl[F.d].state = "ACTIVE"
    BY <1>2, <1>4
  <2>4. Base' /\ Calls(Frame("finish", F.d), Then("done")) /\ ret' = ret
    BY <1>1, <2>1, <2>2, <2>3, CallFinishOK
  <2> QED BY <1>3, <1>4, <2>4
<1>5. CASE ~(ret /\ dl[F.d].state = "ACTIVE" /\ dl[F.d].whole)
  <2>1. stack' = Tail(stack) /\ ret' = ret
    BY <1>5 DEF Resumed, Return
  <2>2. Mild /\ Kept
    BY <1>1, <1>2, SameKept DEF Base
  <2>3. Len(stack) > 1 => stack[2].fn \in {"state_cb", "go_on"}
    BY <1>1, TopFacts DEF Base, Callee
  <2>4. Base' /\ Returns
    BY <1>1, <2>1, <2>2, <2>3, ReturnsOK
  <2> QED BY <1>3, <1>5, <2>1, <2>4
<1> QED BY <1>4, <1>5

(* and returns TRUE. *)
LEMMA ResumeDoneBase ==
    ASSUME TypeOK, Base, ResumeDone
    PROVE  TypeOK' /\ Base' /\ Returns /\ ret' = TRUE
<1>1. ~Calm /\ F.fn = "resume" /\ F.pc = "done"
  BY InFacts DEF ResumeDone
<1>2. /\ UNCHANGED <<dl, downloads, index, stopped, progress, odd, aborted>>
      /\ stack' = Tail(stack) /\ ret' = TRUE
  BY DEF ResumeDone, man, Return
<1>3. Mild /\ Kept
  BY <1>1, <1>2, SameKept DEF Base
<1>4. Base' /\ Returns
  BY <1>1, <1>2, <1>3, ReturnsOK
<1>5. TypeOK'
  BY <1>2, <1>4, TypeKept DEF Base, TypeOK
<1> QED BY <1>2, <1>4, <1>5

(* download_finished has the download verified *)
LEMMA FinishBase ==
    ASSUME TypeOK, Base, Finish
    PROVE  /\ TypeOK' /\ Base' /\ ret' = ret
           /\ SetState(F.d, "VERIFYING") /\ dl[F.d].state = "ACTIVE"
           /\ Calls(Changed(F.d), Then("verify"))
<1>1. ~Calm /\ F.fn = "finish" /\ F.pc = "enter" /\ dl[F.d].state = "ACTIVE"
  BY InFacts DEF Finish, TopFor, At
<1>2. UNCHANGED <<downloads, index, stopped, progress, odd, aborted>>
  BY DEF Finish, man
<1>3. F.d \in Downloads /\ F \in FrameType /\ FrameOK(F, dl, stopped)
  BY <1>1, TopFacts DEF Base
<1>4. SetState(F.d, "VERIFYING") /\ Call(Then("verify"), Changed(F.d))
  BY DEF Finish
<1>5. "VERIFYING" \in States \ {"free"}
  BY DEF States
<1>6. Mild /\ dl'[F.d].state = "VERIFYING"
  BY <1>1, <1>2, <1>3, <1>4, <1>5, SetFacts
<1>7. Kept
  BY <1>1, <1>2, <1>3, <1>4, <1>5, SetKept DEF Base
<1>9. Base' /\ Calls(Changed(F.d), Then("verify")) /\ ret' = ret
  BY <1>1, <1>3, <1>4, <1>6, <1>7, CallChangedOK, DownManAssumption
<1>10. ret' \in BOOLEAN /\ stopped' \in BOOLEAN /\ UNCHANGED man
  BY <1>2, <1>9 DEF TypeOK, man
<1>11. TypeOK'
  BY <1>1, <1>2, <1>3, <1>4, <1>5, <1>9, <1>10, SetTypeKept DEF Base
<1> QED BY <1>1, <1>4, <1>9, <1>11

(* and ends it, if the callback did not. *)
LEMMA VerifyBase ==
    ASSUME TypeOK, Base, Verify
    PROVE  /\ TypeOK' /\ Base' /\ dl[F.d].state = "VERIFYING"
           /\ IF ret
              THEN /\ SetState(F.d, "COMPLETE") \/ SetState(F.d, "FAILED")
                   /\ Goes(Changed(F.d)) /\ ret' = ret
              ELSE UNCHANGED dl /\ Returns /\ ret' = FALSE
<1>1. ~Calm /\ F.fn = "finish" /\ F.pc = "verify"
  BY InFacts DEF Verify
<1>2. UNCHANGED <<downloads, index, stopped, progress, odd, aborted>>
  BY DEF Verify, man
<1>3. /\ F.d \in Downloads /\ F \in FrameType /\ dl[F.d].state = "VERIFYING"
      /\ Bottom.fn # "stop_all"
  BY <1>1, TopFacts DEF Base, FrameOK, At
<1>4. ASSUME ret, NEW st \in {"COMPLETE", "FAILED"}, SetState(F.d, st), TailCall(Changed(F.d))
      PROVE  TypeOK' /\ Base' /\ Goes(Changed(F.d)) /\ ret' = ret
  <2>1. st \in States \ {"free"}
    BY DEF States, EndStates
  <2>2. /\ Mild /\ \A e \in Downloads :
              dl'[e].state = IF e = F.d THEN st ELSE dl[e].state
    BY <1>2, <1>3, <1>4, <2>1, SetFacts
  <2>3. Kept
    <3> SUFFICES ASSUME NEW k \in 2 .. Len(stack)
                 PROVE  /\ FrameOK(stack[k], dl', stopped')
                        /\ At(stack[k], "queue", "failed") => dl'[stack[k].d].state = "PAUSED"
      BY DEF Kept
    <3>1. k \in 1 .. Len(stack) /\ FrameOK(stack[k], dl, stopped)
          /\ (At(stack[k], "queue", "failed") => dl[stack[k].d].state = "PAUSED")
      BY <1>1, TopFacts DEF Base, StackOK
    <3>2. ~(At(stack[k], "finish", "verify") /\ stack[k].d = F.d)
      BY <1>1, TopFacts DEF Base, At
    <3>3. stack[k].d \in Downloads \/ stack[k].d = Null
      BY <3>1 DEF FrameOK, FrameType
    <3>4. FrameOK(stack[k], dl', stopped')
      BY <1>2, <1>3, <2>2, <3>1, <3>2, <3>3 DEF FrameOK, At
    <3>5. At(stack[k], "queue", "failed") => stack[k].d \in Downloads /\ stack[k].d # F.d
      BY <1>3, <3>1, <3>3 DEF FrameOK, At
    <3> QED BY <2>2, <3>1, <3>4, <3>5
  <2>4. Base' /\ Goes(Changed(F.d)) /\ ret' = ret
    <3>1. dl'[F.d].state = st
      BY <1>3, <2>2
    <3> QED BY <1>1, <1>3, <1>4, <2>2, <2>3, <3>1, ChangeOK, DownManAssumption
  <2>5. ret' \in BOOLEAN /\ stopped' \in BOOLEAN /\ UNCHANGED man
    BY <1>2, <2>4 DEF TypeOK, man
  <2>6. dl[F.d].state # "free"
    BY <1>3
  <2>7. TypeOK'
    BY <1>2, <1>3, <1>4, <2>1, <2>4, <2>5, <2>6, SetTypeKept DEF Base
  <2> QED BY <2>4, <2>7
<1>5. CASE ret
  BY <1>3, <1>4, <1>5 DEF Verify
<1>6. CASE ~ret
  <2>1. stack' = Tail(stack) /\ ret' = FALSE /\ UNCHANGED dl
    BY <1>6 DEF Verify, Return
  <2>2. Mild /\ Kept
    BY <1>1, <1>2, <2>1, SameKept DEF Base
  <2>3. Base' /\ Returns
    BY <1>1, <1>3, <2>1, <2>2, ReturnsOK
  <2>4. TypeOK'
    BY <1>2, <2>1, <2>3, TypeKept DEF Base, TypeOK
  <2> QED BY <1>3, <1>6, <2>1, <2>3, <2>4
<1> QED BY <1>5, <1>6

(* as_download_start and as_download_restart raise the callback, or fail. *)
LEMMA OutermostOK ==
    ASSUME TypeOK, Base, ~Calm, NEW pc, F.pc = "enter", dl[F.d].state = "NEW",
           <<F.fn, pc>> \in {<<"start", "started">>, <<"restart", "restarted">>},
           NEW st \in {"ACTIVE", "PAUSED"},
           UNCHANGED <<man, progress, odd, aborted>>,
           \/ SetState(F.d, st) /\ Call(Then(pc), Changed(F.d))
           \/ stack' = <<Then(pc)>> \o Tail(stack) /\ ret' = FALSE /\ UNCHANGED dl
    PROVE  /\ TypeOK' /\ Base'
           /\ \/ SetState(F.d, st) /\ Calls(Changed(F.d), Then(pc)) /\ ret' = ret
              \/ UNCHANGED dl /\ GoesTo(pc, F.active, F.at) /\ ret' = FALSE
<1>1. F.d \in Downloads /\ F \in FrameType /\ FrameOK(F, dl, stopped) /\ Len(stack) = 1
  BY TopFacts DEF Base, Outermost
<1>2. UNCHANGED <<downloads, index, stopped, progress, odd, aborted>>
  BY DEF man
<1>3. CASE SetState(F.d, st) /\ Call(Then(pc), Changed(F.d))
  <2>1. st \in States \ {"free"}
    BY DEF States
  <2>2. Mild /\ dl'[F.d].state = st
    BY <1>1, <1>2, <1>3, <2>1, SetFacts
  <2>3. Kept
    BY <1>1, <1>2, LowKept DEF Base
  <2>4. Base' /\ Calls(Changed(F.d), Then(pc)) /\ ret' = ret
    BY <1>1, <1>3, <2>2, <2>3, CallChangedOK, DownManAssumption
  <2>5. ret' \in BOOLEAN /\ stopped' \in BOOLEAN
    BY <1>2, <2>4 DEF TypeOK
  <2>6. TypeOK'
    <3>1. dl[F.d].state # "free"
      OBVIOUS
    <3> QED BY <1>1, <1>3, <2>1, <2>4, <2>5, <3>1, SetTypeKept DEF Base
  <2> QED BY <1>3, <2>4, <2>6
<1>4. CASE stack' = <<Then(pc)>> \o Tail(stack) /\ ret' = FALSE /\ UNCHANGED dl
  <2> DEFINE f == Then(pc)
  <2>1. stack' = <<f>> \o Tail(stack)
    BY <1>4
  <2>2. pc \in {x[2] : x \in Places}
    BY DEF Places, Waiting
  <2>3. /\ f \in FrameType /\ f.fn = F.fn /\ f.pc = pc /\ f.d = F.d
        /\ f.at = F.at /\ f.active = F.active /\ f.ret = F.ret
    BY <1>1, <2>2, ThenFacts
  <2> HIDE DEF f
  <2>4. FrameOK(f, dl', stopped')
    BY <1>1, <2>3 DEF FrameOK, At, Places, Waiting
  <2>5. TopFor(f, dl', ToSet(downloads'), Len(stack), Bottom.fn, ret')
    BY <1>4, <2>3 DEF TopFor, At
  <2>6. Mild /\ Kept
    BY <1>1, <1>2, <1>4, SameKept DEF Base
  <2>7. Base' /\ Goes(f)
    BY <2>1, <2>3, <2>4, <2>5, <2>6, GotoOK DEF At
  <2>8. TypeOK'
    BY <1>2, <1>4, <2>7, TypeKept DEF Base, TypeOK
  <2> QED BY <1>4, <2>3, <2>7, <2>8 DEF GoesTo
<1> QED BY <1>3, <1>4

(* as_download_start and as_download_restart *)
LEMMA StartBase ==
    ASSUME TypeOK, Base, Start
    PROVE  /\ TypeOK' /\ Base' /\ dl[F.d].state = "NEW"
           /\ \/ SetState(F.d, "ACTIVE") /\ Calls(Changed(F.d), Then("started")) /\ ret' = ret
              \/ UNCHANGED dl /\ GoesTo("started", F.active, F.at) /\ ret' = FALSE
<1>1. ~Calm /\ F.fn = "start" /\ F.pc = "enter" /\ dl[F.d].state = "NEW"
  BY InFacts DEF Start, TopFor, At
<1> QED BY <1>1, OutermostOK DEF Start

(* The same for as_download_restart *)
LEMMA RestartBase ==
    ASSUME TypeOK, Base, Restart
    PROVE  /\ TypeOK' /\ Base' /\ dl[F.d].state = "NEW"
           /\ \/ /\ SetState(F.d, "ACTIVE") \/ SetState(F.d, "PAUSED")
                 /\ Calls(Changed(F.d), Then("restarted")) /\ ret' = ret
              \/ UNCHANGED dl /\ GoesTo("restarted", F.active, F.at) /\ ret' = FALSE
<1>1. ~Calm /\ F.fn = "restart" /\ F.pc = "enter" /\ dl[F.d].state = "NEW"
  BY InFacts DEF Restart, TopFor, At
<1>2. PICK st \in {"ACTIVE", "PAUSED"} :
         \/ SetState(F.d, st) /\ Call(Then("restarted"), Changed(F.d))
         \/ stack' = <<Then("restarted")>> \o Tail(stack) /\ ret' = FALSE /\ UNCHANGED dl
  BY DEF Restart
<1>3. <<F.fn, "restarted">> \in {<<"start", "started">>, <<"restart", "restarted">>}
      /\ UNCHANGED <<man, progress, odd, aborted>>
  BY <1>1 DEF Restart
<1>4. /\ TypeOK' /\ Base'
      /\ \/ SetState(F.d, st) /\ Calls(Changed(F.d), Then("restarted")) /\ ret' = ret
         \/ UNCHANGED dl /\ GoesTo("restarted", F.active, F.at) /\ ret' = FALSE
  BY <1>1, <1>2, <1>3, OutermostOK
<1> QED BY <1>1, <1>4

(* as_downman_start_result returns, with the download or without it. *)
LEMMA StartedBase ==
    ASSUME TypeOK, Base, Started
    PROVE  /\ TypeOK' /\ Base' /\ Len(stack) = 1 /\ (ret \/ dl[F.d].state # "ACTIVE")
           /\ \/ UNCHANGED <<dl, downloads, index>> /\ Returns /\ Calm'
              \/ UNCHANGED <<dl, downloads, index>> /\ ret /\ Goes(Frame("pause", F.d))
              \/ /\ Listed(F.d) /\ Drop(F.d) /\ Calm' /\ dl[F.d].state # "ACTIVE"
<1>1. /\ ~Calm /\ F.fn = "start" /\ F.pc = "started" /\ aborted = "no"
      /\ ret \/ dl[F.d].state # "ACTIVE"
  BY InFacts DEF Started, TopFor, At
<1>2. UNCHANGED <<stopped, progress, odd, aborted>>
  BY DEF Started, man
<1>3. /\ F.d \in Downloads /\ F \in FrameType /\ FrameOK(F, dl, stopped) /\ Len(stack) = 1
      /\ Bottom = F /\ stack \in Seq(FrameType)
  BY <1>1, TopFacts DEF Base, Outermost
<1>4. Kept
  BY <1>1, <1>2, <1>3, LowKept DEF Base
<1>5. ASSUME UNCHANGED <<dl, downloads, index>>, stack' = Tail(stack), ret' \in BOOLEAN
      PROVE  TypeOK' /\ Base' /\ Returns /\ Calm'
  <2>1. Mild
    BY <1>2, <1>5, SameKept
  <2>2. Base' /\ Returns
    BY <1>1, <1>3, <1>4, <1>5, <2>1, ReturnsOK
  <2>3. TypeOK'
    BY <1>2, <1>5, <2>2, TypeKept DEF Base, TypeOK
  <2>4. Calm'
    BY <1>3, <1>5 DEF Calm
  <2> QED BY <2>2, <2>3, <2>4
<1>6. CASE ret /\ Return(TRUE) /\ UNCHANGED <<dl, man>>
  BY <1>1, <1>3, <1>5, <1>6 DEF Return, man
<1>7. CASE ret /\ TailCall(Frame("pause", F.d)) /\ UNCHANGED <<dl, man>>
  <2> DEFINE f == Frame("pause", F.d)
  <2>1. stack' = <<f>> \o Tail(stack) /\ ret' = ret
    BY <1>7 DEF TailCall
  <2>2. FrameOK(f, dl', stopped') /\ f.fn = "pause" /\ f.pc = "enter" /\ f.d = F.d
    BY <1>3, FrameFacts, DownManAssumption
  <2> HIDE DEF f
  <2>3. TopFor(f, dl', ToSet(downloads'), Len(stack),
               IF Len(stack) = 1 THEN f.fn ELSE Bottom.fn, ret')
    BY <2>2 DEF TopFor, At
  <2>4. UNCHANGED <<dl, downloads, index>> /\ Mild
    BY <1>2, <1>7, SameKept DEF man
  <2>5. Base' /\ Goes(f)
    BY <1>1, <1>3, <1>4, <2>1, <2>2, <2>3, <2>4, GoesOK DEF At
  <2>6. TypeOK'
    BY <1>2, <2>1, <2>4, <2>5, TypeKept DEF Base, TypeOK
  <2> QED BY <1>1, <1>3, <1>7, <2>4, <2>5, <2>6 DEF f
<1>8. CASE ~ret /\ Return(FALSE) /\ ~Listed(F.d) /\ UNCHANGED <<dl, downloads, index>>
  BY <1>1, <1>3, <1>5, <1>8 DEF Return
<1>9. CASE ~ret /\ Return(FALSE) /\ Listed(F.d) /\ Drop(F.d) /\ Unindex(dl[F.d].hash)
  <2>1. stack' = Tail(stack) /\ ret' = FALSE
    BY <1>9 DEF Return
  <2>2. Calm'
    BY <1>3, <2>1 DEF Calm
  <2>3. StackOK' /\ TopOK'
    BY <1>1, <1>3, <1>4, <2>1, ReturnStep DEF Base
  <2>4. \A e \in Downloads : ~Restarting(e) /\ ~Restarting(e)'
    BY <1>1, <1>3, <2>2 DEF Restarting
  <2>5. index[dl[F.d].hash] = F.d
    BY <1>3, <1>9, <2>4 DEF Base, ListOK
  <2>6. ListOK' /\ index' \in [Hashes -> Downloads \cup {Null}]
    BY <1>3, <1>9, <2>4, <2>5, DropIndexed DEF Base
  <2>7. downloads' \in Seq(Downloads)
        /\ dl' \in [Downloads -> [state : States, hash : Hashes \cup {Null}, whole : BOOLEAN]]
    BY <1>3, <1>9, DropFacts DEF Base
  <2>8. TypeOK'
    BY <1>2, <2>1, <2>3, <2>6, <2>7 DEF TypeOK, StackOK, progress
  <2> QED BY <1>1, <1>3, <1>9, <2>2, <2>3, <2>6, <2>8 DEF Base
<1>10. \/ ret /\ Return(TRUE) /\ UNCHANGED <<dl, man>>
       \/ ret /\ TailCall(Frame("pause", F.d)) /\ UNCHANGED <<dl, man>>
       \/ ~ret /\ Return(FALSE) /\ ~Listed(F.d) /\ UNCHANGED <<dl, downloads, index>>
       \/ ~ret /\ Return(FALSE) /\ Listed(F.d) /\ Drop(F.d) /\ Unindex(dl[F.d].hash)
  BY DEF Started
<1> QED BY <1>6, <1>7, <1>8, <1>9, <1>10

(* as_downman_restart_file goes on, or frees the download and returns, *)
LEMMA RestartedBase ==
    ASSUME TypeOK, Base, Restarted
    PROVE  /\ TypeOK' /\ Len(stack) = 1 /\ (ret \/ dl[F.d].state # "ACTIVE")
           /\ ~ret /\ ~Listed(F.d) => aborted' = "freed"
           /\ aborted' = "no" =>
              /\ Base' /\ UNCHANGED <<index, stopped, progress, odd>>
              /\ \/ /\ ret /\ dl[F.d].state = "ACTIVE" /\ dl[F.d].whole
                    /\ UNCHANGED <<dl, downloads>> /\ Calls(Frame("finish", F.d), Then("index"))
                 \/ ret /\ UNCHANGED <<dl, downloads>> /\ GoesTo("index", F.active, F.at)
                 \/ /\ Listed(F.d) /\ Drop(F.d) /\ Calm' /\ dl[F.d].state # "ACTIVE"
<1>1. /\ ~Calm /\ F.fn = "restart" /\ F.pc = "restarted" /\ aborted = "no"
      /\ ret \/ dl[F.d].state # "ACTIVE"
  BY InFacts DEF Restarted, TopFor, At
<1>2. /\ F.d \in Downloads /\ F \in FrameType /\ FrameOK(F, dl, stopped) /\ Len(stack) = 1
      /\ Bottom = F /\ stack \in Seq(FrameType)
  BY <1>1, TopFacts DEF Base, Outermost
<1>3. CASE ret
  <2>1. UNCHANGED <<dl, downloads, index, stopped, progress, odd, aborted>>
    BY <1>3 DEF Restarted, man
  <2>2. Base' /\ ret' = ret => TypeOK'
    BY <2>1, TypeKept DEF Base, TypeOK
  <2>3. CASE dl[F.d].state = "ACTIVE" /\ dl[F.d].whole
    <3>1. Call(Then("index"), Frame("finish", F.d))
      BY <1>3, <2>3 DEF Restarted
    <3>2. <<F.fn, "index">> \in {<<"resume", "done">>, <<"restart", "index">>} /\ ~Calm
      BY <1>1
    <3>3. UNCHANGED <<dl, downloads, index, stopped>> /\ dl[F.d].state = "ACTIVE"
      BY <2>1, <2>3
    <3>4. Base' /\ Calls(Frame("finish", F.d), Then("index")) /\ ret' = ret
      BY <3>1, <3>2, <3>3, CallFinishOK
    <3> QED BY <1>2, <1>3, <2>1, <2>2, <2>3, <3>4
  <2>4. CASE ~(dl[F.d].state = "ACTIVE" /\ dl[F.d].whole)
    <3> DEFINE f == Then("index")
    <3>1. stack' = <<f>> \o Tail(stack) /\ ret' = ret
      BY <1>3, <2>4 DEF Restarted, Goto
    <3>2. "index" \in {x[2] : x \in Places}
      BY DEF Places, Waiting
    <3>3. /\ f \in FrameType /\ f.fn = F.fn /\ f.pc = "index" /\ f.d = F.d
          /\ f.at = F.at /\ f.active = F.active /\ f.ret = F.ret
      BY <1>2, <3>2, ThenFacts
    <3> HIDE DEF f
    <3>4. FrameOK(f, dl', stopped')
      BY <1>1, <1>2, <3>3 DEF FrameOK, At, Places, Waiting
    <3>5. TopFor(f, dl', ToSet(downloads'), Len(stack), Bottom.fn, ret')
      BY <1>1, <3>3 DEF TopFor, At
    <3>6. Mild /\ Kept
      BY <1>1, <2>1, SameKept DEF Base
    <3>7. Base' /\ Goes(f)
      BY <1>1, <3>1, <3>3, <3>4, <3>5, <3>6, GotoOK DEF At
    <3>8. GoesTo("index", F.active, F.at)
      BY <3>3, <3>7 DEF GoesTo
    <3> QED BY <1>2, <1>3, <2>1, <2>2, <3>1, <3>7, <3>8
  <2> QED BY <2>3, <2>4
<1>4. CASE ~ret /\ Listed(F.d)
  <2>1. Drop(F.d) /\ Return(FALSE) /\ UNCHANGED <<index, stopped, progress, odd, aborted>>
    BY <1>4 DEF Restarted
  <2>2. stack' = Tail(stack) /\ ret' = FALSE
    BY <2>1 DEF Return
  <2>3. Calm'
    BY <1>2, <2>2 DEF Calm
  <2>4. Kept
    BY <1>1, <1>2, <2>1, LowKept DEF Base
  <2>5. StackOK' /\ TopOK'
    BY <1>1, <1>2, <2>2, <2>4, ReturnStep DEF Base
  <2>6. Restarting(F.d)
    BY <1>1, <1>2 DEF Restarting
  <2>7. ListOK'
    BY <1>2, <1>4, <2>1, <2>3, <2>6, DropUnindexed DEF Base
  <2>8. downloads' \in Seq(Downloads)
        /\ dl' \in [Downloads -> [state : States, hash : Hashes \cup {Null}, whole : BOOLEAN]]
    BY <1>2, <1>4, <2>1, DropFacts DEF Base
  <2>9. TypeOK'
    BY <2>1, <2>2, <2>5, <2>8 DEF TypeOK, StackOK, progress
  <2> QED BY <1>1, <1>2, <1>4, <2>1, <2>3, <2>5, <2>7, <2>9 DEF Base
<1>5. CASE ~ret /\ ~Listed(F.d)
  <2>1. Crash("freed")
    BY <1>5 DEF Restarted
  <2> QED BY <1>1, <1>2, <1>5, <2>1, CrashFacts DEF Crash
<1> QED BY <1>3, <1>4, <1>5

(* and enters it in the index, or frees it because another has its hash. *)
LEMMA RestartIndexBase ==
    ASSUME TypeOK, Base, RestartIndex
    PROVE  /\ TypeOK' /\ Len(stack) = 1 /\ Restarting(F.d)
           /\ ~Listed(F.d) => aborted' = "freed"
           /\ aborted' = "no" =>
              /\ Base' /\ Calm' /\ UNCHANGED <<stopped, progress, odd>> /\ Listed(F.d)
              /\ \/ index[dl[F.d].hash] # Null /\ Drop(F.d)
                 \/ UNCHANGED <<dl, downloads>>
<1>1. ~Calm /\ F.fn = "restart" /\ F.pc = "index" /\ aborted = "no"
  BY InFacts DEF RestartIndex
<1>2. /\ F.d \in Downloads /\ F \in FrameType /\ FrameOK(F, dl, stopped) /\ Len(stack) = 1
      /\ Bottom = F /\ stack \in Seq(FrameType)
  BY <1>1, TopFacts DEF Base, Outermost
<1>3. Restarting(F.d)
  BY <1>1, <1>2 DEF Restarting
<1>4. CASE ~Listed(F.d)
  <2>1. Crash("freed")
    BY <1>4 DEF RestartIndex
  <2> QED BY <1>2, <1>3, <1>4, <2>1, CrashFacts DEF Crash
<1>5. CASE Listed(F.d)
  <2>1. UNCHANGED <<stopped, progress, odd, aborted>> /\ stack' = Tail(stack) /\ ret' \in BOOLEAN
    BY <1>5 DEF RestartIndex, Return
  <2>2. Calm'
    BY <1>2, <2>1 DEF Calm
  <2>3. Kept
    BY <1>1, <1>2, <2>1, LowKept DEF Base
  <2>4. StackOK' /\ TopOK'
    BY <1>1, <1>2, <2>1, <2>3, ReturnStep DEF Base
  <2>5. CASE index[dl[F.d].hash] # Null
    <3>1. Drop(F.d) /\ UNCHANGED index
      BY <1>5, <2>5 DEF RestartIndex
    <3>2. ListOK'
      BY <1>2, <1>3, <1>5, <2>2, <3>1, DropUnindexed DEF Base
    <3>3. downloads' \in Seq(Downloads)
          /\ dl' \in [Downloads -> [state : States, hash : Hashes \cup {Null}, whole : BOOLEAN]]
      BY <1>2, <1>5, <3>1, DropFacts DEF Base
    <3>4. TypeOK'
      BY <2>1, <2>4, <3>1, <3>3 DEF TypeOK, StackOK, progress
    <3> QED BY <1>2, <1>3, <1>5, <2>1, <2>2, <2>4, <2>5, <3>1, <3>2, <3>4 DEF Base
  <2>6. CASE index[dl[F.d].hash] = Null
    <3> DEFINE h == dl[F.d].hash
    <3>1. /\ index' = [index EXCEPT ![h] = Head(downloads)]
          /\ UNCHANGED <<dl, downloads>>
      BY <1>5, <2>6 DEF RestartIndex
    <3>2. Head(downloads) = F.d
      <4>1. downloads[1] = F.d
        BY <1>2, <1>3, <1>5 DEF Base, ListOK
      <4> QED BY <4>1 DEF TypeOK
    <3>3. h \in Hashes /\ index \in [Hashes -> Downloads \cup {Null}]
      BY <1>2, <1>5 DEF Base, ListOK, TypeOK
    <3>4. /\ index' \in [Hashes -> Downloads \cup {Null}] /\ index'[h] = F.d
          /\ \A g \in Hashes : g # h => index'[g] = index[g]
      BY <1>2, <3>1, <3>2, <3>3
    <3> HIDE DEF h
    <3>5. \A e \in Downloads : (Listed(e)' <=> Listed(e)) /\ (Restarting(e) => e = F.d)
                               /\ ~Restarting(e)'
      BY <1>2, <2>2, <3>1 DEF Listed, Restarting
    <3>6. \A g \in Hashes : index'[g] # Null =>
             (Listed(index[g]) /\ dl[index[g]].hash = g /\ ~Restarting(index[g]))'
      <4> SUFFICES ASSUME NEW g \in Hashes, index'[g] # Null
                   PROVE  (Listed(index[g]) /\ dl[index[g]].hash = g /\ ~Restarting(index[g]))'
        OBVIOUS
      <4>1. index'[g] \in Downloads
        BY <3>4
      <4>2. g = h => Listed(index'[g]) /\ dl[index'[g]].hash = g
        BY <1>5, <3>4 DEF h
      <4>3. g # h => Listed(index'[g]) /\ dl[index'[g]].hash = g
        BY <3>4, <4>1 DEF Base, ListOK
      <4>4. Listed(index'[g]) /\ dl[index'[g]].hash = g
        BY <4>2, <4>3
      <4> QED BY <3>1, <4>1, <4>4, <2>2 DEF Listed, Restarting
    <3>7. ASSUME NEW e \in Downloads, Listed(e) PROVE index'[dl[e].hash] = e
      <4>1. CASE e = F.d
        BY <3>4, <4>1 DEF h
      <4>2. CASE e # F.d
        <5>1. index[dl[e].hash] = e /\ dl[e].hash \in Hashes
          BY <3>5, <3>7, <4>2 DEF Base, ListOK
        <5>2. dl[e].hash # h
          BY <2>6, <5>1, DownManAssumption DEF DownManAssumption, h
        <5> QED BY <3>4, <5>1, <5>2
      <4> QED BY <4>1, <4>2
    <3>8. ListOK'
      BY <3>1, <3>5, <3>6, <3>7 DEF Base, ListOK
    <3>9. TypeOK'
      BY <2>1, <2>4, <3>1, <3>4 DEF TypeOK, StackOK, progress
    <3> QED BY <1>2, <1>3, <1>5, <2>1, <2>2, <2>4, <3>1, <3>8, <3>9 DEF Base
  <2> QED BY <2>5, <2>6
<1> QED BY <1>4, <1>5

(* as_downman_stop_all and what starts the downloads again *)
LEMMA StopNextBase ==
    ASSUME TypeOK, Base, StopNext
    PROVE  /\ TypeOK' /\ Base' /\ Len(stack) = 1 /\ stopped
           /\ F.at \in ToSet(downloads) \cup {Null}
           /\ IF F.at = Null THEN Returns /\ Calm'
              ELSE Calls(Frame("queue", F.at), Then("called")) /\ ret' = ret
<1>1. ~Calm /\ F.fn = "stop_all" /\ F.pc = "enter" /\ F.at \in ToSet(downloads) \cup {Null}
  BY InFacts DEF StopNext, TopFor, At
<1>2. UNCHANGED <<dl, downloads, index, stopped, progress, odd, aborted>>
  BY DEF StopNext, man
<1>3. /\ F \in FrameType /\ FrameOK(F, dl, stopped) /\ Len(stack) = 1
      /\ stack \in Seq(FrameType) /\ stopped
  BY <1>1, TopFacts DEF Base, Outermost, FrameOK
<1>4. Mild /\ Kept
  BY <1>1, <1>2, SameKept DEF Base
<1>5. CASE F.at = Null
  <2>1. stack' = Tail(stack) /\ ret' = TRUE
    BY <1>5 DEF StopNext, Return
  <2>2. Base' /\ Returns
    BY <1>1, <1>3, <1>4, <2>1, ReturnsOK
  <2>3. TypeOK'
    BY <1>2, <2>1, <2>2, TypeKept DEF Base, TypeOK
  <2>4. Calm'
    BY <1>3, <2>1 DEF Calm
  <2> QED BY <1>1, <1>3, <1>5, <2>2, <2>3, <2>4
<1>6. CASE F.at # Null
  <2> DEFINE f == Then("called")
             g == Frame("queue", F.at)
  <2>1. stack' = <<g, f>> \o Tail(stack) /\ ret' = ret
    BY <1>6 DEF StopNext, Call
  <2>2. F.at \in Downloads
    BY <1>1, <1>6, LinkFacts
  <2>3. FrameOK(g, dl', stopped') /\ g.fn = "queue" /\ g.pc = "enter" /\ g.d = F.at
    BY <2>2, FrameFacts, DownManAssumption
  <2>4. "called" \in {x[2] : x \in Places}
    BY DEF Places, Waiting
  <2>5. /\ f \in FrameType /\ f.fn = F.fn /\ f.pc = "called" /\ f.d = F.d
        /\ f.at = F.at /\ f.active = F.active /\ f.ret = F.ret
    BY <1>3, <2>4, ThenFacts
  <2> HIDE DEF f, g
  <2>6. FrameOK(f, dl', stopped')
    BY <1>1, <1>2, <1>3, <1>6, <2>5 DEF FrameOK, At, Places, Waiting
  <2>7. Callee(g, f)
    BY <1>1, <2>3, <2>5 DEF Callee, Outermost, Waiting
  <2>8. TopFor(g, dl', ToSet(downloads'), Len(stack) + 1,
               IF Len(stack) = 1 THEN f.fn ELSE Bottom.fn, ret')
    BY <1>1, <1>3, <2>3, <2>5 DEF TopFor, At
  <2>9. /\ ~At(f, "finish", "verify") /\ ~At(f, "queue", "failed")
        /\ ~At(g, "finish", "verify") /\ ~At(g, "queue", "failed")
    BY <2>3, <2>5 DEF At
  <2>10. Base' /\ Calls(g, f)
    BY <1>1, <1>3, <1>4, <2>1, <2>3, <2>5, <2>6, <2>7, <2>8, <2>9, CallsOK
  <2>11. TypeOK'
    BY <1>2, <2>1, <2>10, TypeKept DEF Base, TypeOK
  <2> QED BY <1>1, <1>3, <1>6, <2>1, <2>10, <2>11 DEF f, g
<1> QED BY <1>5, <1>6

(* It goes on behind a download that is still there. *)
LEMMA StopCalledBase ==
    ASSUME TypeOK, Base, StopCalled
    PROVE  /\ TypeOK' /\ Len(stack) = 1 /\ stopped
           /\ ~Listed(F.at) => aborted' = "freed"
           /\ aborted' = "no" =>
              /\ Base' /\ ret' = ret /\ Listed(F.at)
              /\ UNCHANGED <<dl, downloads, index, stopped, progress, odd>>
              /\ GoesTo("enter", F.active, NextLink(F.at))
<1>1. ~Calm /\ F.fn = "stop_all" /\ F.pc = "called" /\ aborted = "no"
  BY InFacts DEF StopCalled
<1>2. F \in FrameType /\ Len(stack) = 1 /\ stopped
  BY <1>1, TopFacts DEF Base, Outermost, FrameOK
<1>3. CASE ~Listed(F.at)
  <2>1. Crash("freed")
    BY <1>3 DEF StopCalled
  <2> QED BY <1>2, <1>3, <2>1, CrashFacts DEF Crash
<1>4. CASE Listed(F.at)
  <2> DEFINE f == [F EXCEPT !.pc = "enter", !.at = NextLink(F.at)]
  <2>1. stack' = <<f>> \o Tail(stack) /\ ret' = ret
    BY <1>4 DEF StopCalled, Goto
  <2>2. NextLink(F.at) \in ToSet(downloads) \cup {Null}
        /\ NextLink(F.at) \in Downloads \cup {Null}
    BY <1>4, LinkFacts DEF Listed
  <2>3. /\ f \in FrameType /\ f.fn = F.fn /\ f.d = F.d /\ f.ret = F.ret
        /\ f.at = NextLink(F.at) /\ f.pc = "enter" /\ f.active = F.active
    BY <1>2, <2>2 DEF FrameType
  <2> HIDE DEF f
  <2>4. UNCHANGED <<dl, downloads, index, stopped, progress, odd, aborted>>
    BY <1>4 DEF StopCalled, man
  <2>5. Base' /\ GoesTo("enter", F.active, NextLink(F.at))
    BY <1>1, <2>1, <2>2, <2>3, <2>4, LoopOK
  <2>6. TypeOK'
    BY <2>1, <2>4, <2>5, TypeKept DEF Base, TypeOK
  <2> QED BY <1>2, <1>4, <2>1, <2>4, <2>5, <2>6
<1> QED BY <1>3, <1>4

(* Its counterpart resumes what waits, goes on or returns. *)
LEMMA GoOnNextBase ==
    ASSUME TypeOK, Base, GoOnNext
    PROVE  /\ TypeOK' /\ Base' /\ Len(stack) = 1 /\ ~stopped
           /\ F.at \in ToSet(downloads) \cup {Null}
           /\ IF F.active < MaxActive /\ F.at # Null
              THEN IF dl[F.at].state = "QUEUED"
                   THEN Calls(Frame("resume", F.at), Then("called")) /\ ret' = ret
                   ELSE GoesTo("enter", F.active, NextLink(F.at)) /\ ret' = ret
              ELSE Returns /\ Calm'
<1>1. /\ ~Calm /\ F.fn = "go_on" /\ F.pc = "enter"
      /\ F.at \in ToSet(downloads) \cup {Null}
  BY InFacts DEF GoOnNext, TopFor, At
<1>2. UNCHANGED <<dl, downloads, index, stopped, progress, odd, aborted>>
  BY DEF GoOnNext, man
<1>3. F \in FrameType /\ ~stopped /\ Len(stack) = 1 /\ stack \in Seq(FrameType)
  BY <1>1, TopFacts DEF Base, FrameOK, At, Outermost
<1>4. Base' /\ ret' \in BOOLEAN => TypeOK'
  BY <1>2, TypeKept DEF Base, TypeOK
<1>5. CASE F.active < MaxActive /\ F.at # Null /\ dl[F.at].state = "QUEUED"
  <2>1. Call(Then("called"), Frame("resume", F.at))
    BY <1>5 DEF GoOnNext
  <2>2. Base' /\ Calls(Frame("resume", F.at), Then("called")) /\ ret' = ret
    BY <1>1, <1>2, <1>3, <1>5, <2>1, CallResumeOK
  <2> QED BY <1>1, <1>3, <1>4, <1>5, <2>2 DEF TypeOK
<1>6. CASE F.active < MaxActive /\ F.at # Null /\ dl[F.at].state # "QUEUED"
  <2> DEFINE f == [F EXCEPT !.at = NextLink(F.at)]
  <2>1. stack' = <<f>> \o Tail(stack) /\ ret' = ret
    BY <1>6 DEF GoOnNext, Goto
  <2>2. NextLink(F.at) \in ToSet(downloads) \cup {Null}
        /\ NextLink(F.at) \in Downloads \cup {Null}
    BY <1>1, <1>6, LinkFacts
  <2>3. /\ f \in FrameType /\ f.fn = F.fn /\ f.d = F.d /\ f.ret = F.ret
        /\ f.at = NextLink(F.at) /\ f.pc = "enter" /\ f.active = F.active
    BY <1>1, <1>3, <2>2 DEF FrameType
  <2> HIDE DEF f
  <2>4. Base' /\ GoesTo("enter", F.active, NextLink(F.at))
    BY <1>1, <1>2, <2>1, <2>2, <2>3, LoopOK
  <2> QED BY <1>1, <1>3, <1>4, <1>6, <2>1, <2>4 DEF TypeOK
<1>7. CASE ~(F.active < MaxActive /\ F.at # Null)
  <2>1. stack' = Tail(stack) /\ ret' = TRUE
    BY <1>7 DEF GoOnNext, Return
  <2>2. Mild /\ Kept
    BY <1>1, <1>2, SameKept DEF Base
  <2>3. Base' /\ Returns
    BY <1>1, <1>3, <2>1, <2>2, ReturnsOK
  <2>4. Calm'
    BY <1>3, <2>1 DEF Calm
  <2> QED BY <1>1, <1>3, <1>4, <1>7, <2>1, <2>3, <2>4
<1> QED BY <1>5, <1>6, <1>7

(* It goes on behind a download that is still there, too. *)
LEMMA GoOnCalledBase ==
    ASSUME TypeOK, Base, GoOnCalled
    PROVE  /\ TypeOK' /\ Len(stack) = 1 /\ ~stopped
           /\ ~Listed(F.at) => aborted' = "freed"
           /\ aborted' = "no" =>
              /\ Base' /\ ret' = ret /\ Listed(F.at)
              /\ UNCHANGED <<dl, downloads, index, stopped, progress, odd>>
              /\ GoesTo("enter", IF ret THEN F.active + 1 ELSE F.active, NextLink(F.at))
<1>1. ~Calm /\ F.fn = "go_on" /\ F.pc = "called" /\ aborted = "no"
  BY InFacts DEF GoOnCalled
<1>2. F \in FrameType /\ Len(stack) = 1 /\ ~stopped /\ F.active < MaxActive
  BY <1>1, TopFacts DEF Base, Outermost, FrameOK, At
<1>3. CASE ~Listed(F.at)
  <2>1. Crash("freed")
    BY <1>3 DEF GoOnCalled
  <2> QED BY <1>2, <1>3, <2>1, CrashFacts DEF Crash
<1>4. CASE Listed(F.at)
  <2> DEFINE n == IF ret THEN F.active + 1 ELSE F.active
             f == [F EXCEPT !.pc = "enter", !.at = NextLink(F.at),
                            !.active = IF ret THEN @ + 1 ELSE @]
  <2>1. stack' = <<f>> \o Tail(stack) /\ ret' = ret
    BY <1>4 DEF GoOnCalled, Goto
  <2>2. NextLink(F.at) \in ToSet(downloads) \cup {Null}
        /\ NextLink(F.at) \in Downloads \cup {Null}
    BY <1>4, LinkFacts DEF Listed
  <2>3. n \in 0 .. MaxActive
    BY <1>2, DownManAssumption DEF FrameType, DownManAssumption
  <2>4. /\ f \in FrameType /\ f.fn = F.fn /\ f.d = F.d /\ f.ret = F.ret
        /\ f.at = NextLink(F.at) /\ f.pc = "enter" /\ f.active = n
    BY <1>2, <2>2, <2>3 DEF FrameType
  <2> HIDE DEF f, n
  <2>5. UNCHANGED <<dl, downloads, index, stopped, progress, odd, aborted>>
    BY <1>4 DEF GoOnCalled, man
  <2>6. Base' /\ GoesTo("enter", n, NextLink(F.at))
    BY <1>1, <2>1, <2>2, <2>4, <2>5, LoopOK
  <2>7. TypeOK'
    BY <2>1, <2>5, <2>6, TypeKept DEF Base, TypeOK
  <2> QED BY <1>2, <1>4, <2>1, <2>5, <2>6, <2>7 DEF n
<1> QED BY <1>3, <1>4

(* What an event calls, with the state of no download changed or of one. *)
LEMMA BeginSame ==
    ASSUME TypeOK, Base, Calm, NEW d \in Downloads, Listed(d),
           NEW fn \in {"pause", "resume", "finish"}, Begin(Frame(fn, d)),
           fn = "finish" => dl[d].state = "ACTIVE",
           UNCHANGED <<dl, man, progress, odd, aborted>>
    PROVE  TypeOK' /\ Base' /\ ~Calm' /\ Len(stack') = 1 /\ F' = Frame(fn, d)
           /\ Bottom' = Frame(fn, d)
<1> DEFINE f == Frame(fn, d)
<1>1. stack' = <<f>> /\ ret' = ret /\ UNCHANGED <<dl, downloads, index, stopped>>
  BY DEF Begin, man
<1>2. FrameOK(f, dl', stopped') /\ f.fn = fn /\ f.pc = "enter" /\ f.d = d
  BY FrameFacts, DownManAssumption
<1> HIDE DEF f
<1>3. Mild
  BY <1>1, SameKept
<1>4. TopFor(f, dl', ToSet(downloads'), 1, f.fn, ret')
  BY <1>1, <1>2 DEF TopFor, At
<1>5. Base' /\ ~Calm' /\ Len(stack') = 1 /\ F' = f /\ Bottom' = f
  BY <1>1, <1>2, <1>3, <1>4, BeginsOK DEF At
<1>6. TypeOK'
  BY <1>1, <1>5, TypeKept DEF Base, TypeOK
<1> QED BY <1>5, <1>6 DEF f

(* The events *)
LEMMA CancelBase ==
    ASSUME TypeOK, Base, NEW d \in Downloads, CancelRequest(d)
    PROVE  /\ TypeOK' /\ Base' /\ ~Calm' /\ Len(stack') = 1
           /\ F' = Changed(d) /\ Bottom' = Changed(d)
<1> DEFINE f == Changed(d)
<1>1. /\ Calm /\ stack' = <<f>> /\ ret' = ret /\ UNCHANGED <<downloads, index, stopped>>
      /\ SetState(d, "CANCELLED") /\ dl[d].state \in {"ACTIVE", "QUEUED", "PAUSED"}
      /\ UNCHANGED <<man, progress, odd, aborted>>
  BY DEF CancelRequest, Begin, man, Quiet, Calm
<1>2. FrameOK(f, dl', stopped') /\ f.fn = "state_cb" /\ f.pc = "enter" /\ f.d = d
  BY ChangedFacts, DownManAssumption
<1> HIDE DEF f
<1>3. "CANCELLED" \in States \ {"free"}
  BY DEF States, EndStates
<1>4. Mild /\ dl'[d].state = "CANCELLED"
  BY <1>1, <1>3, SetFacts
<1>5. TopFor(f, dl', ToSet(downloads'), 1, f.fn, ret')
  BY <1>1, <1>2, <1>4 DEF TopFor, At
<1>6. Base' /\ ~Calm' /\ Len(stack') = 1 /\ F' = f /\ Bottom' = f
  BY <1>1, <1>2, <1>4, <1>5, BeginsOK DEF At
<1>7. ret' \in BOOLEAN /\ stopped' \in BOOLEAN /\ dl[d].state # "free"
  BY <1>1 DEF TypeOK
<1>8. TypeOK'
  BY <1>1, <1>3, <1>6, <1>7, SetTypeKept DEF Base
<1> QED BY <1>6, <1>8 DEF f

(* The loops over the list begin at its first link. *)
LEMMA LoopBegins ==
    ASSUME TypeOK, Base, StopAll \/ GoOn
    PROVE  /\ TypeOK' /\ Base' /\ Calm /\ ~Calm' /\ Len(stack') = 1 /\ Bottom' = F'
           /\ UNCHANGED <<dl, downloads, index, progress, odd>>
           /\ F'.pc = "enter" /\ F'.active = 0 /\ F'.at = FirstLink
           /\ \/ StopAll /\ stopped' /\ F'.fn = "stop_all"
              \/ GoOn /\ stopped /\ ~stopped' /\ F'.fn = "go_on"
<1>1. ASSUME NEW fn \in {"stop_all", "go_on"},
             stack' = <<[Frame(fn, Null) EXCEPT !.at = FirstLink]>>, ret' = ret, Calm,
             stopped' = (fn = "stop_all"),
             UNCHANGED <<dl, downloads, index, progress, odd, aborted>>
      PROVE  /\ TypeOK' /\ Base' /\ ~Calm' /\ Len(stack') = 1 /\ Bottom' = F'
             /\ F'.pc = "enter" /\ F'.active = 0 /\ F'.at = FirstLink /\ F'.fn = fn
  <2> DEFINE f == [Frame(fn, Null) EXCEPT !.at = FirstLink]
  <2>1. stack' = <<f>>
    BY <1>1
  <2>2. FirstLink \in ToSet(downloads) \cup {Null} /\ FirstLink \in Downloads \cup {Null}
    BY LinkFacts
  <2>3. /\ f \in FrameType /\ f.fn = fn /\ f.pc = "enter" /\ f.d = Null /\ f.active = 0
        /\ f.at = FirstLink /\ f.ret = TRUE
    <3> DEFINE e == Frame(fn, Null)
    <3>1. /\ e \in FrameType /\ e.fn = fn /\ e.pc = "enter" /\ e.d = Null
          /\ e.active = 0 /\ e.ret = TRUE
      BY DownManAssumption DEF DownManAssumption, Frame, FrameType
    <3> HIDE DEF e
    <3>2. f = [e EXCEPT !.at = FirstLink]
      BY DEF e
    <3> HIDE DEF f
    <3> QED BY <2>2, <3>1, <3>2 DEF FrameType
  <2> HIDE DEF f
  <2>4. FrameOK(f, dl', stopped')
    BY <1>1, <2>3 DEF FrameOK, At, Places
  <2>5. TopFor(f, dl', ToSet(downloads'), 1, f.fn, ret')
    BY <1>1, <2>2, <2>3 DEF TopFor, At
  <2>6. Mild
    BY <1>1 DEF Mild
  <2>7. Base' /\ ~Calm' /\ Len(stack') = 1 /\ F' = f /\ Bottom' = f
    BY <1>1, <2>1, <2>3, <2>4, <2>5, <2>6, BeginsOK DEF At
  <2>8. TypeOK'
    BY <1>1, <2>7, TypeKept DEF Base, TypeOK
  <2> QED BY <2>3, <2>7, <2>8
<1>2. CASE StopAll
  <2>1. /\ Calm /\ stopped' = TRUE /\ ret' = ret
        /\ stack' = <<[Frame("stop_all", Null) EXCEPT !.at = FirstLink]>>
        /\ UNCHANGED <<dl, downloads, index, progress, odd, aborted>>
    BY <1>2 DEF StopAll, Quiet, Calm, Begin
  <2> QED BY <1>1, <1>2, <2>1
<1>3. CASE GoOn
  <2>1. /\ Calm /\ stopped /\ stopped' = FALSE /\ ret' = ret
        /\ stack' = <<[Frame("go_on", Null) EXCEPT !.at = FirstLink]>>
        /\ UNCHANGED <<dl, downloads, index, progress, odd, aborted>>
    BY <1>3 DEF GoOn, Quiet, Calm, Begin
  <2> QED BY <1>1, <1>3, <2>1
<1> QED BY <1>2, <1>3

(* as_downman_remove frees a download. *)
LEMMA RemoveBase ==
    ASSUME TypeOK, Base, NEW d \in Downloads, RemoveRequest(d)
    PROVE  /\ TypeOK' /\ (index[dl[d].hash] # d => aborted' = "index")
           /\ aborted' = "no" =>
                 Base' /\ Calm' /\ Listed(d) /\ Drop(d) /\ UNCHANGED <<stopped, progress, odd>>
                 /\ dl[d].state \in EndStates \cup {"NEW"}
<1>1. Calm /\ Listed(d) /\ dl[d].state \in EndStates \cup {"NEW"}
  BY DEF RemoveRequest, Quiet, Calm
<1>2. CASE index[dl[d].hash] # d
  <2>1. Crash("index")
    BY <1>2 DEF RemoveRequest
  <2> QED BY <1>2, <2>1, CrashFacts DEF Crash
<1>3. CASE index[dl[d].hash] = d
  <2>1. Drop(d) /\ Unindex(dl[d].hash) /\ UNCHANGED <<stopped, progress, stack, ret, odd, aborted>>
    BY <1>3 DEF RemoveRequest
  <2>2. Calm' /\ \A e \in Downloads : Restarting(e)' <=> Restarting(e)
    BY <1>1, <2>1 DEF Calm, Restarting
  <2>3. ListOK' /\ index' \in [Hashes -> Downloads \cup {Null}]
    BY <1>1, <1>3, <2>1, <2>2, DropIndexed DEF Base
  <2>4. downloads' \in Seq(Downloads)
        /\ dl' \in [Downloads -> [state : States, hash : Hashes \cup {Null}, whole : BOOLEAN]]
    BY <1>1, <2>1, DropFacts DEF Base
  <2>5. StackOK' /\ TopOK'
    BY <2>2 DEF StackOK, TopOK, Calm
  <2>6. TypeOK'
    BY <2>1, <2>3, <2>4 DEF TypeOK, progress
  <2> QED BY <1>1, <1>3, <2>1, <2>2, <2>3, <2>5, <2>6 DEF Base
<1> QED BY <1>2, <1>3

(* A new download is put on the list, as_downman_start_result enters it in the
   index, too. *)
LEMMA NewBase ==
    ASSUME TypeOK, Base, NEW d \in Downloads, NEW h \in Hashes, NEW whole \in BOOLEAN,
           StartResult(h, d) \/ RestartFile(h, d, whole)
    PROVE  /\ TypeOK' /\ Base' /\ Calm /\ ~Calm' /\ Len(stack') = 1 /\ Bottom' = F'
           /\ ~Listed(d) /\ downloads' = <<d>> \o downloads
           /\ ToSet(downloads') = {d} \cup ToSet(downloads)
           /\ dl'[d].state = "NEW" /\ dl'[d].hash = h
           /\ \A e \in Downloads : e # d => dl'[e] = dl[e]
           /\ \/ /\ StartResult(h, d) /\ ~dl'[d].whole /\ odd' = odd
                 /\ F' = Frame("start", d)
              \/ /\ RestartFile(h, d, whole) /\ dl'[d].whole = whole /\ UNCHANGED index
                 /\ F' = Frame("restart", d)
<1>1. ASSUME NEW fn \in {"start", "restart"}, NEW w \in BOOLEAN, Calm, dl[d].state = "free",
             dl' = [dl EXCEPT ![d] = [state |-> "NEW", hash |-> h, whole |-> w]],
             downloads' = <<d>> \o downloads, Begin(Frame(fn, d)),
             fn = "start" => index[h] = Null /\ index' = [index EXCEPT ![h] = d],
             fn = "restart" => UNCHANGED index,
             UNCHANGED <<stopped, progress, aborted>>, odd' \subseteq {"whole", "twin"}
      PROVE  /\ TypeOK' /\ Base' /\ ~Calm' /\ Len(stack') = 1 /\ Bottom' = F'
             /\ ~Listed(d) /\ ToSet(downloads') = {d} \cup ToSet(downloads)
             /\ dl'[d].state = "NEW" /\ dl'[d].hash = h /\ dl'[d].whole = w
             /\ \A e \in Downloads : e # d => dl'[e] = dl[e]
             /\ F' = Frame(fn, d)
  <2> DEFINE f == Frame(fn, d)
  <2>1. stack' = <<f>> /\ ret' = ret
    BY <1>1 DEF Begin
  <2>2. FrameOK(f, dl', stopped') /\ f.fn = fn /\ f.pc = "enter" /\ f.d = d
    BY FrameFacts, DownManAssumption
  <2> HIDE DEF f
  <2>3. ~Listed(d) /\ downloads \in Seq(Downloads) /\ IsInjective(downloads)
    BY <1>1 DEF Base, ListOK, TypeOK
  <2>4. /\ downloads' \in Seq(Downloads) /\ IsInjective(downloads')
        /\ ToSet(downloads') = {d} \cup ToSet(downloads) /\ downloads'[1] = d
    BY <1>1, <2>3, ListConsFacts DEF Listed
  <2>5. /\ dl' \in [Downloads -> [state : States, hash : Hashes \cup {Null}, whole : BOOLEAN]]
        /\ dl'[d].state = "NEW" /\ dl'[d].hash = h /\ dl'[d].whole = w
        /\ \A e \in Downloads : e # d => dl'[e] = dl[e]
    <3>1. "NEW" \in States
      BY DEF States
    <3> QED BY <1>1, <3>1 DEF TypeOK
  <2>6. TopFor(f, dl', ToSet(downloads'), 1, f.fn, ret')
    BY <2>2, <2>5 DEF TopFor, At
  <2>7. StackOK' /\ TopOK' /\ ~Calm' /\ Len(stack') = 1 /\ F' = f /\ Bottom' = f
    BY <1>1, <2>1, <2>2, <2>6, BeginStep DEF At
  <2>8. /\ \A e \in Downloads : /\ ~Restarting(e)
                                /\ Restarting(e)' <=> fn = "restart" /\ e = d
    BY <1>1, <2>2, <2>7 DEF Restarting
  <2>9. index \in [Hashes -> Downloads \cup {Null}]
    BY DEF TypeOK
  <2>10. /\ index' \in [Hashes -> Downloads \cup {Null}]
         /\ \A g \in Hashes : index'[g] = IF g = h /\ fn = "start" THEN d ELSE index[g]
         /\ fn = "start" => index[h] = Null
    BY <1>1, <2>9
  <2>11. \A e \in Downloads : Listed(e)' <=> e = d \/ Listed(e)
    BY <2>4 DEF Listed
  <2>12. \A e \in Downloads : Listed(e)' <=> dl'[e].state # "free"
    BY <2>5, <2>11 DEF Base, ListOK
  <2>13. \A e \in Downloads : Listed(e)' => dl'[e].hash \in Hashes
    BY <2>5, <2>11 DEF Base, ListOK
  <2>14. ASSUME NEW g \in Hashes, index'[g] # Null
         PROVE  (Listed(index[g]) /\ dl[index[g]].hash = g /\ ~Restarting(index[g]))'
    <3>1. index'[g] \in Downloads
      BY <2>10, <2>14
    <3>2. CASE g = h /\ fn = "start"
      BY <2>5, <2>8, <2>10, <2>11, <3>1, <3>2 DEF Listed, Restarting
    <3>3. CASE ~(g = h /\ fn = "start")
      <4>1. index'[g] = index[g] /\ Listed(index[g]) /\ dl[index[g]].hash = g
        BY <2>10, <2>14, <3>3 DEF Base, ListOK
      <4>2. index[g] # d /\ index[g] \in Downloads
        BY <2>3, <3>1, <4>1
      <4> QED BY <2>5, <2>8, <2>11, <4>1, <4>2 DEF Listed, Restarting
    <3> QED BY <3>2, <3>3
  <2>15. ASSUME NEW e \in Downloads, Listed(e)'
         PROVE  index'[dl'[e].hash] = e \/ Restarting(e)'
    <3>1. CASE e = d
      BY <2>5, <2>8, <2>10, <3>1
    <3>2. CASE e # d
      <4>1. Listed(e) /\ dl'[e] = dl[e] /\ dl[e].hash \in Hashes /\ index[dl[e].hash] = e
        BY <2>5, <2>8, <2>11, <2>15, <3>2 DEF Base, ListOK
      <4>2. index[dl[e].hash] # Null
        BY <4>1, DownManAssumption DEF DownManAssumption
      <4> QED BY <2>10, <4>1, <4>2
    <3> QED BY <3>1, <3>2
  <2>16. ListOK'
    BY <2>4, <2>8, <2>12, <2>13, <2>14, <2>15 DEF ListOK
  <2>17. TypeOK'
    BY <1>1, <2>1, <2>4, <2>5, <2>7, <2>10 DEF TypeOK, StackOK, progress
  <2> QED BY <2>3, <2>4, <2>5, <2>7, <2>16, <2>17 DEF Base, f
<1>2. CASE StartResult(h, d)
  <2>1. /\ Calm /\ dl[d].state = "free" /\ index[h] = Null
        /\ dl' = [dl EXCEPT ![d] = [state |-> "NEW", hash |-> h, whole |-> FALSE]]
        /\ downloads' = <<d>> \o downloads /\ Begin(Frame("start", d))
        /\ index' = [index EXCEPT ![h] = d] /\ UNCHANGED <<stopped, progress, odd, aborted>>
        /\ odd' \subseteq {"whole", "twin"}
    BY <1>2 DEF StartResult, Quiet, Calm, TypeOK
  <2> QED BY <1>1, <1>2, <2>1
<1>3. CASE RestartFile(h, d, whole)
  <2>1. /\ Calm /\ dl[d].state = "free"
        /\ dl' = [dl EXCEPT ![d] = [state |-> "NEW", hash |-> h, whole |-> whole]]
        /\ downloads' = <<d>> \o downloads /\ Begin(Frame("restart", d))
        /\ UNCHANGED <<index, stopped, progress, aborted>>
        /\ odd' \subseteq {"whole", "twin"}
    BY <1>3 DEF RestartFile, Quiet, Calm, TypeOK
  <2> QED BY <1>1, <1>3, <2>1
<1> QED BY <1>2, <1>3

-----------------------------------------------------------------------------
(* The limit.  The change of the innermost download is not dealt with until
   download_state_cb has counted. *)

Pending == IF ~Calm /\ F.pc = "enter" /\ F.fn \in {"state_cb", "queue", "pause"}
           THEN {F.d} ELSE {}
Settled == ActiveSet \ Pending
QueuedSet == {d \in ToSet(downloads) : dl[d].state = "QUEUED"}
Stopping == ~Calm /\ Bottom.fn = "stop_all"

(* All members of S on the list are at a link or behind it, or all behind it. *)
AtOrAfter(S, at) ==
    \A i \in DOMAIN downloads : downloads[i] \in S =>
        at # Null /\ \A j \in DOMAIN downloads : downloads[j] = at => j <= i
After(S, at) ==
    \A i \in DOMAIN downloads : downloads[i] \in S =>
        \A j \in DOMAIN downloads : downloads[j] = at => j < i

(* The limit, also in the middle of a call *)
LimitOK ==
    /\ Cardinality(Settled) <= MaxActive
    /\ stopped => IF ~Stopping THEN Settled = {}
                  ELSE IF Len(stack) = 1 /\ F.pc = "enter" THEN AtOrAfter(Settled, F.at)
                  ELSE After(Settled, Bottom.at)

(* These are finite sets. *)
LEMMA SettledFacts ==
    ASSUME TypeOK
    PROVE  /\ IsFiniteSet(Settled) /\ Cardinality(Settled) \in Nat
           /\ Settled \subseteq ToSet(downloads)
           /\ \A S \in SUBSET Settled : IsFiniteSet(S) /\ Cardinality(S) \in Nat
                                        /\ Cardinality(S) <= Cardinality(Settled)
<1>1. Settled \subseteq ActiveSet
  BY DEF Settled
<1> QED BY <1>1, ActiveFinite, FS_Subset, FS_CardinalityType

(* A step that settles nothing new *)
LEMMA LimitKept ==
    ASSUME TypeOK, LimitOK, Settled' \subseteq Settled, UNCHANGED stopped,
           Stopping <=> Stopping',
           stopped /\ Stopping =>
               /\ UNCHANGED downloads /\ Bottom' = Bottom /\ Len(stack) # 1
               /\ ~(Len(stack') = 1 /\ F'.pc = "enter")
    PROVE  LimitOK'
<1>1. Cardinality(Settled)' <= MaxActive
  <2>1. MaxActive \in Nat
    BY DownManAssumption DEF DownManAssumption
  <2> QED BY <2>1, SettledFacts DEF LimitOK
<1>2. CASE stopped /\ Stopping
  <2>1. After(Settled, Bottom.at)
    BY <1>2 DEF LimitOK
  <2>2. After(Settled, Bottom.at)'
    BY <1>2, <2>1 DEF After
  <2> QED BY <1>1, <1>2, <2>2 DEF LimitOK
<1>3. CASE ~(stopped /\ Stopping)
  BY <1>1, <1>3 DEF LimitOK
<1> QED BY <1>2, <1>3

(* How a step other than those of as_downman_stop_all moves on the stack *)
Stays(f) == f.fn # "stop_all" /\ (f.fn = "restart" => F.fn = "restart" /\ f.d = F.d)
Moves ==
    \/ \E f : Goes(f) /\ Stays(f)
    \/ \E f, g : Calls(g, f) /\ Stays(f)
    \/ Returns
    \/ Len(stack) = 1 /\ Calm'

(* Such a move leaves the outermost function what it was. *)
LEMMA MovesFacts ==
    ASSUME Base, ~Calm, F.fn # "stop_all", Moves
    PROVE  /\ Stopping <=> Stopping'
           /\ Stopping => /\ Bottom' = Bottom /\ Len(stack) # 1
                          /\ ~(Len(stack') = 1 /\ F'.pc = "enter")
           /\ ~Calm' /\ Bottom'.fn = "restart" =>
                 Bottom.fn = "restart" /\ Bottom'.d = Bottom.d
<1>1. /\ Len(stack) \in Nat \ {0}
      /\ Len(stack) = 1 => Bottom = F
      /\ Len(stack) > 1 => Len(stack) # 1
  BY TopFacts DEF Base
<1>2. CASE \E f : Goes(f) /\ Stays(f)
  BY <1>1, <1>2 DEF Goes, Stopping, Stays
<1>3. CASE \E f, g : Calls(g, f) /\ Stays(f)
  <2>1. Len(stack) + 1 # 1
    BY <1>1
  <2> QED BY <1>1, <1>3, <2>1 DEF Calls, Stopping, Stays
<1>4. CASE Returns
  <2>1. Calm' => Len(stack) = 1
    <3>1. Calm' => Len(stack) - 1 = 0
      BY <1>4 DEF Returns, Calm
    <3> QED BY <1>1, <3>1
  <2>2. ~Calm' => F'.pc # "enter"
    BY <1>4 DEF Returns, Callee, Waiting
  <2>3. ~Calm' => Bottom' = Bottom /\ Len(stack) > 1
    BY <1>4 DEF Returns
  <2>4. Calm' => ~Stopping
    BY <1>1, <2>1 DEF Stopping
  <2> QED BY <1>1, <2>1, <2>2, <2>3, <2>4 DEF Stopping
<1>5. CASE Len(stack) = 1 /\ Calm'
  BY <1>1, <1>5 DEF Stopping
<1> QED BY <1>2, <1>3, <1>4, <1>5 DEF Moves

(* Which downloads are active, and queued, after a step *)
LEMMA SetsSet ==
    ASSUME TypeOK, ListOK, NEW d \in Downloads, NEW st \in States \ {"free"}, SetState(d, st),
           dl[d].state # "free", UNCHANGED downloads
    PROVE  /\ ActiveSet' = IF st = "ACTIVE" THEN ActiveSet \cup {d} ELSE ActiveSet \ {d}
           /\ QueuedSet' = IF st = "QUEUED" THEN QueuedSet \cup {d} ELSE QueuedSet \ {d}
           /\ d \in ToSet(downloads)
<1>1. d \in ToSet(downloads)
  BY DEF ListOK, Listed
<1>2. \A e \in Downloads : dl'[e].state = IF e = d THEN st ELSE dl[e].state
  BY SetFacts
<1>3. ToSet(downloads) \subseteq Downloads
  BY LinkFacts
<1> QED BY <1>1, <1>2, <1>3 DEF ActiveSet, QueuedSet

(* A download is freed. *)
LEMMA SetsDrop ==
    ASSUME TypeOK, ListOK, NEW d \in Downloads, Listed(d), Drop(d)
    PROVE  ActiveSet' = ActiveSet \ {d} /\ QueuedSet' = QueuedSet \ {d}
<1>1. /\ ToSet(downloads') = ToSet(downloads) \ {d}
      /\ \A e \in Downloads : e # d => dl'[e] = dl[e]
  BY DropFacts
<1>2. ToSet(downloads) \subseteq Downloads
  BY LinkFacts
<1> QED BY <1>1, <1>2 DEF ActiveSet, QueuedSet

(* No state changes. *)
LEMMA SetsSame ==
    ASSUME UNCHANGED <<dl, downloads>>
    PROVE  ActiveSet' = ActiveSet /\ QueuedSet' = QueuedSet
BY DEF ActiveSet, QueuedSet

(* The states a download is set to *)
LEMMA StateNames ==
    {"ACTIVE", "QUEUED", "PAUSED", "VERIFYING", "COMPLETE", "FAILED", "CANCELLED"}
        \subseteq States \ {"free"}
BY DEF States, EndStates

(* Who is pending *)
LEMMA PendingFacts ==
    /\ (Calm \/ F.pc # "enter" \/ F.fn \notin {"state_cb", "queue", "pause"}) => Pending = {}
    /\ ~Calm /\ F.pc = "enter" /\ F.fn \in {"state_cb", "queue", "pause"} => Pending = {F.d}
BY DEF Pending

(* What a call of download_state_cb leaves pending *)
LEMMA ChangedPending ==
    ASSUME NEW d, ~Calm', F' = Changed(d) \/ F' = Frame("queue", d) \/ F' = Frame("pause", d)
    PROVE  Pending' = {d}
BY DEF Pending, Changed, Frame

(* What each step of a function makes of the stack and of the downloads that are
   settled *)
Steady ==
    aborted' = "no" =>
        /\ TypeOK' /\ Base' /\ Moves /\ Settled' \subseteq Settled
        /\ UNCHANGED stopped /\ (Stopping => UNCHANGED downloads)

(* It is enough to look at the downloads that are active after the step. *)
LEMMA SteadyFacts ==
    ASSUME TypeOK', Base', Moves, UNCHANGED stopped, Stopping => UNCHANGED downloads,
           \A e \in ActiveSet' : e \in Pending' \/ (e \in ActiveSet /\ e \notin Pending)
    PROVE  Steady
BY DEF Steady, Settled

(* The steps of the functions are steady, except two. *)
LEMMA SteadyCb ==
    ASSUME TypeOK, Base, CbNotify \/ CbNotifyRemoves \/ CbScan \/ CbResumed \/ CbTimer
    PROVE  Steady
<1>0. SUFFICES ASSUME aborted' = "no" PROVE Steady
  BY DEF Steady
<1>1. F.pc # "enter"
  BY DEF CbNotify, CbNotifyRemoves, CbScan, CbResumed, CbTimer, In, F
<1>2. Pending = {} /\ F.fn = "state_cb"
  BY <1>1, PendingFacts DEF CbNotify, CbNotifyRemoves, CbScan, CbResumed, CbTimer, In, F
<1>3. CASE CbNotify
  <2>1. TypeOK' /\ Base' /\ GoesTo(IF stopped THEN "timer" ELSE "scan", F.active, FirstLink)
    BY <1>3, CbNotifyBase
  <2>2. Moves /\ UNCHANGED <<dl, downloads, stopped>>
    BY <1>2, <1>3, <2>1 DEF Moves, Stays, GoesTo, CbNotify, man
  <2> QED BY <1>2, <2>1, <2>2, SetsSame, SteadyFacts
<1>4. CASE CbNotifyRemoves
  <2>1. /\ TypeOK' /\ Base' /\ Drop(F.d) /\ Listed(F.d) /\ UNCHANGED stopped
        /\ GoesTo(IF stopped THEN "timer" ELSE "scan", F.active, FirstLink')
    BY <1>0, <1>4, CbNotifyRemovesBase
  <2>2. /\ ~Calm /\ F.pc = "notify" /\ dl[F.d].state \in EndStates
        /\ TopFor(F, dl, ToSet(downloads), Len(stack), Bottom.fn, ret)
    BY <1>4, InFacts DEF CbNotifyRemoves
  <2>3. ~Stopping
    BY <1>2, <2>2 DEF TopFor, At, Stopping
  <2>4. ActiveSet' = ActiveSet \ {F.d}
    BY <1>2, <2>1, <2>2, SetsDrop, TopFacts DEF Base
  <2>5. Moves
    BY <1>2, <2>1 DEF Moves, Stays, GoesTo
  <2> QED BY <1>2, <2>1, <2>3, <2>4, <2>5, SteadyFacts
<1>5. CASE CbScan
  <2>1. /\ TypeOK' /\ Base' /\ UNCHANGED <<dl, downloads, stopped>>
    BY <1>5, CbScanBase DEF CbScan, man
  <2>2. Moves
    <3>1. CASE Calls(Frame("resume", F.at), Then("resumed"))
      <4>1. F \in FrameType /\ "resumed" \in {x[2] : x \in Places}
        BY <1>5, InFacts, TopFacts DEF CbScan, Base, Places, Waiting
      <4>2. Then("resumed").fn = F.fn /\ Then("resumed").d = F.d
        BY <4>1, ThenFacts
      <4> QED BY <1>2, <3>1, <4>2 DEF Moves, Stays
    <3>2. CASE GoesTo("scan", F.active, NextLink(F.at)) \/ GoesTo("timer", F.active, F.at)
      BY <1>2, <3>2 DEF Moves, Stays, GoesTo
    <3> QED BY <1>5, <3>1, <3>2, CbScanBase
  <2> QED BY <1>2, <2>1, <2>2, SetsSame, SteadyFacts
<1>6. CASE CbResumed
  <2>1. /\ TypeOK' /\ Base' /\ UNCHANGED <<dl, downloads, stopped>>
        /\ GoesTo("scan", IF ret THEN F.active + 1 ELSE F.active, NextLink(F.at))
    BY <1>0, <1>6, CbResumedBase
  <2>2. Moves
    BY <1>2, <2>1 DEF Moves, Stays, GoesTo
  <2> QED BY <1>2, <2>1, <2>2, SetsSame, SteadyFacts
<1>7. CASE CbTimer
  <2>1. TypeOK' /\ Base' /\ Moves /\ UNCHANGED <<dl, downloads, stopped>>
    BY <1>7, CbTimerBase DEF CbTimer, man, Moves
  <2> QED BY <1>2, <2>1, SetsSame, SteadyFacts
<1> QED BY <1>3, <1>4, <1>5, <1>6, <1>7

(* A call of download_state_cb after a change of the innermost download *)
LEMMA GoesChanged ==
    ASSUME Goes(Changed(F.d)) \/ Goes(Frame("queue", F.d)) \/ Goes(Frame("pause", F.d))
    PROVE  Moves /\ Pending' = {F.d} /\ ~Calm'
<1>1. Stays(Changed(F.d)) /\ Stays(Frame("queue", F.d)) /\ Stays(Frame("pause", F.d))
  BY DEF Stays, Changed, Frame
<1>2. Moves
  BY <1>1 DEF Moves
<1>3. ~Calm' /\ (F' = Changed(F.d) \/ F' = Frame("queue", F.d) \/ F' = Frame("pause", F.d))
  BY DEF Goes
<1>4. ASSUME NEW d, d = F.d PROVE Pending' = {d}
  BY <1>3, <1>4, ChangedPending
<1> QED BY <1>2, <1>3, <1>4

(* A call of another function settles no download. *)
LEMMA CallsChanged ==
    ASSUME Base, ~Calm, F.fn # "stop_all", NEW pc \in {x[2] : x \in Places}, NEW g,
           Calls(g, Then(pc))
    PROVE  /\ Moves /\ ~Calm'
           /\ g = Changed(F.d) \/ g = Frame("pause", F.d) => Pending' = {F.d}
<1>1. F \in FrameType
  BY TopFacts DEF Base
<1>2. Stays(Then(pc))
  BY <1>1, ThenFacts DEF Stays
<1>3. Moves
  BY <1>2 DEF Moves
<1>4. ~Calm' /\ F' = g
  BY DEF Calls
<1>5. ASSUME NEW d, d = F.d, g = Changed(d) \/ g = Frame("pause", d) PROVE Pending' = {d}
  BY <1>4, <1>5, ChangedPending
<1> QED BY <1>3, <1>4, <1>5

(* The second parts of the places are the names of the places. *)
LEMMA PCs ==
    {"resumed", "failed", "done", "verify", "started", "restarted", "index", "called"}
        \subseteq {x[2] : x \in Places}
<1> SUFFICES ASSUME NEW pc \in {"resumed", "failed", "done", "verify", "started",
                                "restarted", "index", "called"}
             PROVE  \E x \in Places : x[2] = pc
  OBVIOUS
<1>1. \E fn \in {"state_cb", "queue", "resume", "finish", "start", "restart", "stop_all"} :
         <<fn, pc>> \in Places
  BY DEF Places, Waiting
<1> QED BY <1>1

(* Pausing, queueing and resuming *)
LEMMA SteadyDownload ==
    ASSUME TypeOK, Base, Pause \/ Queue \/ QueueFailed \/ Resume \/ Resumed \/ ResumeDone
    PROVE  Steady
<1>1. /\ ~Calm /\ F.fn \in {"pause", "queue", "resume"}
      /\ F.fn = "resume" => Pending = {}
      /\ F.pc # "enter" => Pending = {}
      /\ F.fn # "resume" /\ F.pc = "enter" => Pending = {F.d}
  BY PendingFacts DEF Pause, Queue, QueueFailed, Resume, Resumed, ResumeDone, In, F, Calm
<1>2. F.d \in Downloads /\ F.fn # "stop_all"
  BY <1>1, TopFacts DEF Base
<1>3. UNCHANGED <<downloads, stopped>>
  BY DEF Pause, Queue, QueueFailed, Resume, Resumed, ResumeDone, man
<1>4. CASE Pause
  <2>1. F.pc = "enter" /\ F.fn = "pause"
    BY <1>4, InFacts DEF Pause
  <2>2. CASE dl[F.d].state \in {"ACTIVE", "QUEUED"}
    <3>1. TypeOK' /\ Base' /\ SetState(F.d, "PAUSED") /\ Goes(Changed(F.d))
      BY <1>4, <2>2, PauseBase
    <3>2. "PAUSED" \in States \ {"free"} /\ dl[F.d].state # "free"
      BY <2>2, StateNames
    <3>3. ActiveSet' = ActiveSet \ {F.d}
      BY <1>2, <1>3, <3>1, <3>2, SetsSet DEF Base
    <3> QED BY <1>1, <1>3, <2>1, <3>1, <3>3, GoesChanged, SteadyFacts
  <2>3. CASE dl[F.d].state \notin {"ACTIVE", "QUEUED"}
    <3>1. TypeOK' /\ Base' /\ UNCHANGED dl /\ Returns
      BY <1>4, <2>3, PauseBase
    <3>2. ActiveSet' = ActiveSet /\ F.d \notin ActiveSet /\ Moves
      BY <1>3, <2>3, <3>1, SetsSame DEF ActiveSet, Moves
    <3> QED BY <1>1, <1>3, <2>1, <3>1, <3>2, SteadyFacts
  <2> QED BY <2>2, <2>3
<1>5. CASE Queue
  <2>1. F.pc = "enter" /\ F.fn = "queue"
    BY <1>5, InFacts DEF Queue
  <2>2. CASE dl[F.d].state \notin {"ACTIVE", "PAUSED"}
    <3>1. TypeOK' /\ Base' /\ UNCHANGED dl /\ Returns
      BY <1>5, <2>2, QueueBase
    <3>2. ActiveSet' = ActiveSet /\ F.d \notin ActiveSet /\ Moves
      BY <1>3, <2>2, <3>1, SetsSame DEF ActiveSet, Moves
    <3> QED BY <1>1, <1>3, <2>1, <3>1, <3>2, SteadyFacts
  <2>3. CASE dl[F.d].state \in {"ACTIVE", "PAUSED"} /\ SetState(F.d, "QUEUED")
             /\ Goes(Changed(F.d))
    <3>1. TypeOK' /\ Base'
      BY <1>5, QueueBase
    <3>2. "QUEUED" \in States \ {"free"} /\ dl[F.d].state # "free"
      BY <2>3, StateNames
    <3>3. ActiveSet' = ActiveSet \ {F.d}
      BY <1>2, <1>3, <2>3, <3>2, SetsSet DEF Base
    <3> QED BY <1>1, <1>3, <2>1, <2>3, <3>1, <3>3, GoesChanged, SteadyFacts
  <2>4. CASE UNCHANGED dl /\ Calls(Frame("pause", F.d), Then("failed"))
    <3>1. TypeOK' /\ Base'
      BY <1>5, QueueBase
    <3>2. ActiveSet' = ActiveSet
      BY <1>3, <2>4, SetsSame
    <3>3. Moves /\ Pending' = {F.d}
      BY <1>1, <1>2, <2>4, PCs, CallsChanged
    <3> QED BY <1>1, <1>3, <2>1, <3>1, <3>2, <3>3, SteadyFacts
  <2> QED BY <1>5, <2>2, <2>3, <2>4, QueueBase
<1>6. CASE QueueFailed
  <2>1. TypeOK' /\ Base' /\ Moves /\ UNCHANGED dl /\ F.pc = "failed"
    BY <1>6, QueueFailedBase, InFacts DEF QueueFailed, Moves
  <2> QED BY <1>1, <1>3, <2>1, SetsSame, SteadyFacts
<1>7. CASE Resume
  <2>1. F.fn = "resume"
    BY <1>7, InFacts DEF Resume
  <2>2. CASE dl[F.d].state \in {"PAUSED", "QUEUED"}
    <3>1. /\ TypeOK' /\ Base' /\ SetState(F.d, "ACTIVE")
          /\ Calls(Changed(F.d), Then("resumed"))
      BY <1>7, <2>2, ResumeBase
    <3>2. "ACTIVE" \in States \ {"free"} /\ dl[F.d].state # "free"
      BY <2>2, StateNames
    <3>3. ActiveSet' = ActiveSet \cup {F.d}
      BY <1>2, <1>3, <3>1, <3>2, SetsSet DEF Base
    <3>4. Moves /\ Pending' = {F.d}
      BY <1>1, <1>2, <3>1, PCs, CallsChanged
    <3> QED BY <1>1, <1>3, <2>1, <3>1, <3>3, <3>4, SteadyFacts
  <2>3. CASE dl[F.d].state \notin {"PAUSED", "QUEUED"}
    <3>1. TypeOK' /\ Base' /\ UNCHANGED dl /\ Moves
      BY <1>7, <2>3, ResumeBase DEF Moves
    <3> QED BY <1>1, <1>3, <2>1, <3>1, SetsSame, SteadyFacts
  <2> QED BY <2>2, <2>3
<1>8. CASE Resumed
  <2>1. F.fn = "resume" /\ TypeOK' /\ Base' /\ UNCHANGED dl
    BY <1>8, InFacts, ResumedBase DEF Resumed
  <2>2. Moves
    <3>1. CASE Calls(Frame("finish", F.d), Then("done"))
      BY <1>1, <1>2, <3>1, PCs, CallsChanged
    <3>2. CASE Returns
      BY <3>2 DEF Moves
    <3> QED BY <1>8, <3>1, <3>2, ResumedBase
  <2> QED BY <1>1, <1>3, <2>1, <2>2, SetsSame, SteadyFacts
<1>9. CASE ResumeDone
  <2>1. F.fn = "resume" /\ TypeOK' /\ Base' /\ UNCHANGED dl /\ Moves
    BY <1>9, InFacts, ResumeDoneBase DEF ResumeDone, Moves
  <2> QED BY <1>1, <1>3, <2>1, SetsSame, SteadyFacts
<1> QED BY <1>4, <1>5, <1>6, <1>7, <1>8, <1>9

(* Finishing *)
LEMMA SteadyFinish ==
    ASSUME TypeOK, Base, Finish \/ Verify
    PROVE  Steady
<1>1. ~Calm /\ F.fn = "finish" /\ Pending = {}
  BY PendingFacts DEF Finish, Verify, In, F, Calm
<1>2. F.d \in Downloads /\ UNCHANGED <<downloads, stopped>>
  BY <1>1, TopFacts DEF Base, Finish, Verify, man
<1>3. CASE Finish
  <2>1. /\ TypeOK' /\ Base' /\ SetState(F.d, "VERIFYING") /\ dl[F.d].state = "ACTIVE"
        /\ Calls(Changed(F.d), Then("verify"))
    BY <1>3, FinishBase
  <2>2. "VERIFYING" \in States \ {"free"} /\ dl[F.d].state # "free"
    BY <2>1, StateNames
  <2>3. ActiveSet' = ActiveSet \ {F.d}
    BY <1>2, <2>1, <2>2, SetsSet DEF Base
  <2>4. Moves
    BY <1>1, <2>1, PCs, CallsChanged
  <2> QED BY <1>1, <1>2, <2>1, <2>3, <2>4, SteadyFacts
<1>4. CASE Verify
  <2>1. TypeOK' /\ Base' /\ dl[F.d].state = "VERIFYING"
    BY <1>4, VerifyBase
  <2>2. CASE ret
    <3>1. PICK st \in {"COMPLETE", "FAILED"} : SetState(F.d, st)
      BY <1>4, <2>2, VerifyBase
    <3>2. st \in States \ {"free"} /\ dl[F.d].state # "free" /\ st # "ACTIVE"
      BY <2>1, StateNames
    <3>3. ActiveSet' = ActiveSet \ {F.d}
      BY <1>2, <3>1, <3>2, SetsSet DEF Base
    <3>4. Moves
      BY <1>4, <2>2, VerifyBase, GoesChanged
    <3> QED BY <1>1, <1>2, <2>1, <3>3, <3>4, SteadyFacts
  <2>3. CASE ~ret
    <3>1. UNCHANGED dl /\ Moves
      BY <1>4, <2>3, VerifyBase DEF Moves
    <3> QED BY <1>1, <1>2, <2>1, <3>1, SetsSame, SteadyFacts
  <2> QED BY <2>2, <2>3
<1> QED BY <1>3, <1>4

(* What starts and restarts a download *)
LEMMA SteadyOutermost ==
    ASSUME TypeOK, Base, Start \/ Started \/ Restart \/ Restarted \/ RestartIndex
    PROVE  Steady
<1>0. SUFFICES ASSUME aborted' = "no" PROVE Steady
  BY DEF Steady
<1>1. ~Calm /\ F.fn \in {"start", "restart"} /\ Pending = {}
  BY PendingFacts DEF Start, Started, Restart, Restarted, RestartIndex, In, F, Calm
<1>2. F.d \in Downloads /\ Len(stack) = 1 /\ Bottom = F
  BY <1>1, TopFacts DEF Base, Outermost
<1>3. ~Stopping /\ F.fn # "stop_all"
  BY <1>1, <1>2 DEF Stopping
<1>4. CASE Start \/ Restart
  <2>1. TypeOK' /\ Base' /\ dl[F.d].state = "NEW" /\ UNCHANGED <<downloads, stopped>>
    BY <1>4, StartBase, RestartBase DEF Start, Restart, man
  <2>2. CASE \E st \in {"ACTIVE", "PAUSED"}, pc \in {"started", "restarted"} :
                SetState(F.d, st) /\ Calls(Changed(F.d), Then(pc))
    <3>1. PICK st \in {"ACTIVE", "PAUSED"}, pc \in {"started", "restarted"} :
             SetState(F.d, st) /\ Calls(Changed(F.d), Then(pc))
      BY <2>2
    <3>2. st \in States \ {"free"} /\ dl[F.d].state # "free"
      BY <2>1, StateNames
    <3>3. ActiveSet' \subseteq ActiveSet \cup {F.d}
      BY <1>2, <2>1, <3>1, <3>2, SetsSet DEF Base
    <3>4. Moves /\ Pending' = {F.d}
      BY <1>1, <1>3, <3>1, PCs, CallsChanged
    <3> QED BY <1>1, <1>3, <2>1, <3>3, <3>4, SteadyFacts
  <2>3. CASE UNCHANGED dl /\ \E pc \in {"started", "restarted"} : GoesTo(pc, F.active, F.at)
    <3>1. Moves
      BY <1>3, <2>3 DEF Moves, Stays, GoesTo
    <3> QED BY <1>1, <1>3, <2>1, <2>3, <3>1, SetsSame, SteadyFacts
  <2> QED BY <1>4, <2>2, <2>3, StartBase, RestartBase
<1>5. CASE Started
  <2>1. TypeOK' /\ Base' /\ UNCHANGED stopped
    BY <1>5, StartedBase DEF Started, man
  <2>2. CASE UNCHANGED <<dl, downloads, index>> /\ Returns
    BY <1>1, <1>3, <2>1, <2>2, SetsSame, SteadyFacts DEF Moves
  <2>3. CASE UNCHANGED <<dl, downloads, index>> /\ Goes(Frame("pause", F.d))
    <3>1. Moves
      BY <2>3, GoesChanged
    <3> QED BY <1>1, <1>3, <2>1, <2>3, <3>1, SetsSame, SteadyFacts
  <2>4. CASE Listed(F.d) /\ Drop(F.d) /\ Calm'
    <3>1. ActiveSet' = ActiveSet \ {F.d} /\ Moves
      BY <1>2, <2>4, SetsDrop DEF Base, Moves
    <3> QED BY <1>1, <1>3, <2>1, <3>1, SteadyFacts
  <2> QED BY <1>5, <2>2, <2>3, <2>4, StartedBase
<1>6. CASE Restarted
  <2>1. TypeOK' /\ Base' /\ UNCHANGED stopped
    BY <1>0, <1>6, RestartedBase
  <2>2. CASE UNCHANGED <<dl, downloads>> /\ Calls(Frame("finish", F.d), Then("index"))
    <3>1. Moves
      BY <1>1, <1>3, <2>2, PCs, CallsChanged
    <3> QED BY <1>1, <1>3, <2>1, <2>2, <3>1, SetsSame, SteadyFacts
  <2>3. CASE UNCHANGED <<dl, downloads>> /\ GoesTo("index", F.active, F.at)
    <3>1. Moves
      BY <1>3, <2>3 DEF Moves, Stays, GoesTo
    <3> QED BY <1>1, <1>3, <2>1, <2>3, <3>1, SetsSame, SteadyFacts
  <2>4. CASE Listed(F.d) /\ Drop(F.d) /\ Calm'
    <3>1. ActiveSet' = ActiveSet \ {F.d} /\ Moves
      BY <1>2, <2>4, SetsDrop DEF Base, Moves
    <3> QED BY <1>1, <1>3, <2>1, <3>1, SteadyFacts
  <2> QED BY <1>0, <1>6, <2>2, <2>3, <2>4, RestartedBase
<1>7. CASE RestartIndex
  <2>1. /\ TypeOK' /\ Base' /\ UNCHANGED stopped /\ Listed(F.d) /\ Calm'
        /\ Drop(F.d) \/ UNCHANGED <<dl, downloads>>
    BY <1>0, <1>7, RestartIndexBase
  <2>2. Moves
    BY <1>2, <2>1 DEF Moves
  <2>3. ActiveSet' \subseteq ActiveSet
    BY <1>2, <2>1, SetsSame, SetsDrop DEF Base
  <2> QED BY <1>1, <1>3, <2>1, <2>2, <2>3, SteadyFacts
<1> QED BY <1>4, <1>5, <1>6, <1>7

(* The loop that resumes downloads *)
LEMMA SteadyGoOn ==
    ASSUME TypeOK, Base, GoOnNext \/ GoOnCalled
    PROVE  Steady
<1>0. SUFFICES ASSUME aborted' = "no" PROVE Steady
  BY DEF Steady
<1>1. ~Calm /\ F.fn = "go_on" /\ Pending = {} /\ F.fn # "stop_all"
  BY PendingFacts DEF GoOnNext, GoOnCalled, In, F, Calm
<1>2. /\ TypeOK' /\ Base' /\ UNCHANGED <<dl, downloads, stopped>>
      /\ \/ Calls(Frame("resume", F.at), Then("called"))
         \/ \E n : GoesTo("enter", n, NextLink(F.at))
         \/ Returns
  BY <1>0, GoOnNextBase, GoOnCalledBase DEF GoOnNext, man
<1>3. Moves
  <2>1. CASE Calls(Frame("resume", F.at), Then("called"))
    BY <1>1, <2>1, PCs, CallsChanged
  <2>2. CASE \E n : GoesTo("enter", n, NextLink(F.at))
    BY <1>1, <2>2 DEF Moves, Stays, GoesTo
  <2> QED BY <1>2, <2>1, <2>2 DEF Moves
<1> QED BY <1>1, <1>2, <1>3, SetsSame, SteadyFacts

(* What counts is what is settled: download_state_cb lets a download through only
   while there are not too many, with it, and the manager is not stopped. *)
LEMMA CountedEnough ==
    ASSUME TypeOK, LimitOK, CbEnter, dl[F.d].state # "ACTIVE"
    PROVE  active_downloads <= MaxActive /\ ActiveSet = Settled
<1>1. Pending = {F.d}
  BY PendingFacts DEF CbEnter, In, F, Calm
<1>2. ActiveSet = Settled
  BY <1>1 DEF Settled, ActiveSet
<1> QED BY <1>2 DEF LimitOK, active_downloads

(* The step that counts queues the download or finds that there is room. *)
LEMMA LimitEnter ==
    ASSUME TypeOK, Base, LimitOK, CbEnter
    PROVE  TypeOK' /\ Base' /\ LimitOK'
<1>1. ~Calm /\ F.fn = "state_cb" /\ F.pc = "enter" /\ Pending = {F.d}
  BY PendingFacts DEF CbEnter, In, F, Calm
<1>2. UNCHANGED <<dl, downloads, stopped>>
  BY DEF CbEnter, man
<1>3. TypeOK' /\ Base'
  BY CbEnterBase, CountedEnough
<1>4. CASE dl[F.d].state = "ACTIVE" /\ OverLimit(active_downloads)
  <2>1. Goes(Frame("queue", F.d))
    BY <1>4, CbEnterBase
  <2>2. Moves /\ Pending' = {F.d}
    BY <2>1, GoesChanged
  <2>3. Settled' \subseteq Settled
    BY <1>1, <1>2, <2>2, SetsSame DEF Settled
  <2> QED BY <1>1, <1>2, <1>3, <2>2, <2>3, MovesFacts, LimitKept
<1>5. CASE ~(dl[F.d].state = "ACTIVE" /\ OverLimit(active_downloads))
  <2>1. GoesTo("notify", active_downloads, F.at)
    BY <1>5, CbEnterBase, CountedEnough
  <2>2. Moves /\ Pending' = {}
    BY <1>1, <2>1, PendingFacts DEF Moves, Stays, GoesTo, Goes, Pending
  <2>3. Settled' = ActiveSet
    BY <1>2, <2>2, SetsSame DEF Settled
  <2>4. CASE dl[F.d].state # "ACTIVE"
    <3>1. Settled' \subseteq Settled
      BY <2>3, <2>4, CountedEnough
    <3> QED BY <1>1, <1>2, <1>3, <2>2, <3>1, MovesFacts, LimitKept
  <2>5. CASE dl[F.d].state = "ACTIVE"
    <3>1. active_downloads <= MaxActive /\ ~stopped
      <4>1. active_downloads \in Nat /\ MaxActive \in Nat
        BY ActiveFinite, DownManAssumption DEF active_downloads, DownManAssumption
      <4> QED BY <1>5, <2>5, <4>1 DEF OverLimit
    <3> QED BY <1>2, <1>3, <2>3, <3>1 DEF LimitOK, active_downloads
  <2> QED BY <2>4, <2>5
<1> QED BY <1>4, <1>5

(* A steady step keeps the limit. *)
LEMMA SteadyLimit ==
    ASSUME TypeOK, Base, ~Calm, F.fn # "stop_all", LimitOK, Steady, aborted' = "no"
    PROVE  TypeOK' /\ Base' /\ LimitOK'
BY MovesFacts, LimitKept DEF Steady

(* as_downman_stop_all: the active downloads are those it has not come to. *)
LEMMA ListPlaces ==
    ASSUME TypeOK, ListOK
    PROVE  /\ downloads \in Seq(Downloads) /\ Len(downloads) \in Nat
           /\ DOMAIN downloads = 1 .. Len(downloads)
           /\ \A i, j \in DOMAIN downloads : downloads[i] = downloads[j] => i = j
           /\ Null \notin ToSet(downloads)
           /\ downloads # <<>> => FirstLink = downloads[1] /\ 1 \in DOMAIN downloads
           /\ downloads = <<>> => FirstLink = Null
           /\ \A i \in DOMAIN downloads :
                 NextLink(downloads[i]) = IF i = Len(downloads) THEN Null ELSE downloads[i + 1]
<1>1. /\ downloads \in Seq(Downloads) /\ Len(downloads) \in Nat
      /\ DOMAIN downloads = 1 .. Len(downloads)
      /\ \A i, j \in DOMAIN downloads : downloads[i] = downloads[j] => i = j
  BY DEF TypeOK, ListOK, IsInjective
<1>2. Null \notin ToSet(downloads)
  BY LinkFacts, DownManAssumption DEF DownManAssumption
<1>3. downloads # <<>> => FirstLink = downloads[1] /\ 1 \in DOMAIN downloads
  BY <1>1 DEF FirstLink
<1>4. ASSUME NEW i \in DOMAIN downloads
      PROVE  NextLink(downloads[i]) = IF i = Len(downloads) THEN Null ELSE downloads[i + 1]
  <2>1. (CHOOSE k \in DOMAIN downloads : downloads[k] = downloads[i]) = i
    BY <1>1
  <2> QED BY <2>1 DEF NextLink
<1> QED BY <1>1, <1>2, <1>3, <1>4 DEF FirstLink

(* From the links at one or behind it to those behind it, and on to the next *)
LEMMA PlaceFacts ==
    ASSUME TypeOK, ListOK, NEW S \in SUBSET ToSet(downloads)
    PROVE  /\ AtOrAfter(S, FirstLink)
           /\ AtOrAfter(S, Null) => S = {}
           /\ \A d \in ToSet(downloads) :
                 /\ AtOrAfter(S, d) => After(S \ {d}, d)
                 /\ After(S, d) => AtOrAfter(S, NextLink(d))
<1>1. /\ downloads \in Seq(Downloads) /\ Len(downloads) \in Nat
      /\ DOMAIN downloads = 1 .. Len(downloads)
      /\ \A i, j \in DOMAIN downloads : downloads[i] = downloads[j] => i = j
      /\ Null \notin ToSet(downloads)
  BY ListPlaces
<1>2. AtOrAfter(S, FirstLink)
  <2> SUFFICES ASSUME NEW i \in DOMAIN downloads
               PROVE  FirstLink # Null
                      /\ \A j \in DOMAIN downloads : downloads[j] = FirstLink => j <= i
    BY DEF AtOrAfter
  <2>1. downloads # <<>>
    BY <1>1
  <2>2. FirstLink = downloads[1] /\ 1 \in DOMAIN downloads
    BY <2>1, ListPlaces
  <2>3. FirstLink # Null
    BY <1>1, <2>2 DEF ToSet
  <2>4. \A j \in DOMAIN downloads : downloads[j] = FirstLink => j = 1
    BY <1>1, <2>2
  <2> QED BY <1>1, <2>3, <2>4
<1>3. AtOrAfter(S, Null) => S = {}
  BY DEF AtOrAfter, ToSet
<1>4. ASSUME NEW d \in ToSet(downloads)
      PROVE  /\ AtOrAfter(S, d) => After(S \ {d}, d)
             /\ After(S, d) => AtOrAfter(S, NextLink(d))
  <2>1. PICK m \in DOMAIN downloads : downloads[m] = d
    BY <1>4 DEF ToSet
  <2>2. \A j \in DOMAIN downloads : downloads[j] = d => j = m
    BY <1>1, <2>1
  <2>3. ASSUME AtOrAfter(S, d) PROVE After(S \ {d}, d)
    <3> SUFFICES ASSUME NEW i \in DOMAIN downloads, downloads[i] \in S \ {d}
                 PROVE  m < i
      BY <2>2 DEF After
    <3>1. m <= i /\ i # m
      BY <2>1, <2>3 DEF AtOrAfter
    <3> QED BY <1>1, <3>1
  <2>4. ASSUME After(S, d) PROVE AtOrAfter(S, NextLink(d))
    <3> SUFFICES ASSUME NEW i \in DOMAIN downloads, downloads[i] \in S
                 PROVE  NextLink(d) # Null
                        /\ \A j \in DOMAIN downloads : downloads[j] = NextLink(d) => j <= i
      BY DEF AtOrAfter
    <3>1. m < i
      BY <2>1, <2>4 DEF After
    <3>2. m # Len(downloads) /\ m + 1 \in DOMAIN downloads /\ m + 1 <= i
      BY <1>1, <3>1
    <3>3. NextLink(d) = downloads[m + 1]
      BY <2>1, <3>2, ListPlaces
    <3>4. NextLink(d) # Null
      BY <1>1, <3>2, <3>3 DEF ToSet
    <3>5. \A j \in DOMAIN downloads : downloads[j] = NextLink(d) => j = m + 1
      BY <1>1, <3>2, <3>3
    <3> QED BY <3>2, <3>4, <3>5
  <2> QED BY <2>3, <2>4
<1> QED BY <1>2, <1>3, <1>4

(* as_downman_stop_all has gone past the downloads that are no longer active. *)
LEMMA LimitStop ==
    ASSUME TypeOK, Base, LimitOK, StopNext \/ StopCalled, aborted' = "no"
    PROVE  TypeOK' /\ Base' /\ LimitOK'
<1>1. ~Calm /\ F.fn = "stop_all" /\ Pending = {}
  BY PendingFacts DEF StopNext, StopCalled, In, F, Calm
<1>2. /\ Len(stack) = 1 /\ stopped /\ F \in FrameType /\ Bottom = F /\ Stopping
  BY <1>1, TopFacts DEF Base, Outermost, FrameOK, Stopping
<1>3. Settled = ActiveSet /\ ActiveSet \subseteq ToSet(downloads)
  BY <1>1, ActiveFinite DEF Settled
<1>4. CASE StopNext
  <2>1. /\ F.pc = "enter" /\ UNCHANGED <<dl, downloads, stopped>>
        /\ F.at \in ToSet(downloads) \cup {Null}
    <3>1. F.pc = "enter" /\ UNCHANGED <<dl, downloads, stopped>>
      BY <1>4 DEF StopNext, man, In, F
    <3> QED BY <1>4, <3>1, StopNextBase
  <2>2. AtOrAfter(Settled, F.at) /\ ActiveSet' = ActiveSet /\ TypeOK' /\ Base'
    BY <1>2, <1>4, <2>1, SetsSame, StopNextBase DEF LimitOK
  <2>3. CASE F.at = Null
    <3>1. Calm' /\ ~Stopping'
      BY <1>4, <2>3, StopNextBase DEF Stopping
    <3>2. Settled = {}
      BY <1>3, <2>2, <2>3, PlaceFacts DEF Base
    <3>3. Settled' = {}
      BY <1>3, <2>2, <3>2 DEF Settled
    <3>4. Cardinality(Settled)' <= MaxActive
      BY <3>2, <3>3 DEF LimitOK
    <3> QED BY <2>2, <3>1, <3>3, <3>4 DEF LimitOK
  <2>4. CASE F.at # Null
    <3>1. Calls(Frame("queue", F.at), Then("called"))
      BY <1>4, <2>4, StopNextBase
    <3>2. Then("called").fn = "stop_all" /\ Then("called").at = F.at
      BY <1>1, <1>2, PCs, ThenFacts
    <3>3. /\ ~Calm' /\ Len(stack') = 2 /\ Bottom'.fn = "stop_all" /\ Bottom'.at = F.at
          /\ F' = Frame("queue", F.at)
      BY <1>2, <3>1, <3>2 DEF Calls
    <3>4. Pending' = {F.at}
      <4>1. ASSUME NEW d, d = F.at PROVE Pending' = {d}
        BY <3>3, <4>1, ChangedPending
      <4> QED BY <4>1
    <3>5. Settled' = Settled \ {F.at}
      BY <1>3, <2>2, <3>4 DEF Settled
    <3>6. After(Settled \ {F.at}, F.at)
      BY <1>3, <2>1, <2>2, <2>4, PlaceFacts DEF Base
    <3>7. After(Settled, Bottom.at)'
      BY <2>1, <3>3, <3>5, <3>6 DEF After
    <3>8. Cardinality(Settled)' <= MaxActive
      BY <3>5, SettledFacts, DownManAssumption DEF LimitOK, DownManAssumption
    <3> QED BY <2>2, <3>3, <3>7, <3>8 DEF LimitOK, Stopping
  <2> QED BY <2>3, <2>4
<1>5. CASE StopCalled
  <2>1. /\ F.pc = "called" /\ UNCHANGED <<dl, downloads, stopped>> /\ TypeOK' /\ Base'
        /\ Listed(F.at) /\ GoesTo("enter", F.active, NextLink(F.at))
    BY <1>5, InFacts, StopCalledBase DEF StopCalled
  <2>2. After(Settled, F.at) /\ ActiveSet' = ActiveSet
    BY <1>2, <2>1, SetsSame DEF LimitOK
  <2>3. AtOrAfter(Settled, NextLink(F.at))
    BY <1>3, <2>1, <2>2, PlaceFacts DEF Base, Listed
  <2>4. /\ ~Calm' /\ Len(stack') = 1 /\ F'.pc = "enter" /\ F'.at = NextLink(F.at)
        /\ F'.fn = "stop_all" /\ Bottom'.fn = "stop_all"
    BY <1>1, <1>2, <2>1 DEF GoesTo, Goes
  <2>5. Pending' = {} /\ Settled' = Settled
    BY <1>3, <2>2, <2>4, PendingFacts DEF Pending, Settled
  <2>6. AtOrAfter(Settled, F.at)'
    BY <2>1, <2>3, <2>4, <2>5 DEF AtOrAfter
  <2> QED BY <2>1, <2>4, <2>5, <2>6 DEF LimitOK, Stopping
<1> QED BY <1>4, <1>5

(* An event that begins a function *)
LEMMA LimitBegins ==
    ASSUME TypeOK, LimitOK, Calm, UNCHANGED stopped, ActiveSet' \subseteq ActiveSet, ~Stopping'
    PROVE  LimitOK'
<1>1. Pending = {} /\ ~Stopping
  BY PendingFacts DEF Stopping
<1>2. Settled' \subseteq Settled
  BY <1>1 DEF Settled
<1> QED BY <1>1, <1>2, LimitKept

(* An event, between which no function runs *)
LEMMA LimitEvent ==
    ASSUME TypeOK, Base, LimitOK, Event, aborted' = "no"
    PROVE  TypeOK' /\ Base' /\ LimitOK'
<1>0. Calm
  BY DEF Event, StartResult, RestartFile, PauseRequest, ResumeRequest, CancelRequest,
         RemoveRequest, Whole, WriteFails, StopAll, GoOn, ProgressTimer, SetProgressCb,
         Quiet, Calm
<1>1. ASSUME NEW h \in Hashes, NEW d \in Downloads, NEW whole \in BOOLEAN,
             StartResult(h, d) \/ RestartFile(h, d, whole)
      PROVE  TypeOK' /\ Base' /\ LimitOK'
  <2>1. /\ TypeOK' /\ Base' /\ ToSet(downloads') = {d} \cup ToSet(downloads)
        /\ dl'[d].state = "NEW" /\ \A e \in Downloads : e # d => dl'[e] = dl[e]
        /\ Bottom' = F' /\ ~Listed(d) /\ F'.fn \in {"start", "restart"}
    <3>1. Frame("start", d).fn = "start" /\ Frame("restart", d).fn = "restart"
      BY DEF Frame
    <3> QED BY <1>1, <3>1, NewBase
  <2>2. ActiveSet' \subseteq ActiveSet
    BY <2>1, LinkFacts DEF ActiveSet
  <2>3. ~Stopping' /\ UNCHANGED stopped
    BY <1>1, <2>1 DEF Stopping, StartResult, RestartFile
  <2> QED BY <1>0, <2>1, <2>2, <2>3, LimitBegins
<1>2. ASSUME NEW d \in Downloads,
             PauseRequest(d) \/ ResumeRequest(d) \/ Whole(d) \/ WriteFails(d)
      PROVE  TypeOK' /\ Base' /\ LimitOK'
  <2>1. PICK fn \in {"pause", "resume", "finish"} :
           /\ Begin(Frame(fn, d)) /\ (fn = "finish" => dl[d].state = "ACTIVE")
    BY <1>2 DEF PauseRequest, ResumeRequest, Whole, WriteFails, ActiveSet
  <2>2. Listed(d) /\ UNCHANGED <<dl, man, progress, odd, aborted>>
    BY <1>2 DEF PauseRequest, ResumeRequest, Whole, WriteFails, ActiveSet, Listed
  <2>3. TypeOK' /\ Base' /\ Bottom' = Frame(fn, d)
    BY <1>0, <2>1, <2>2, BeginSame
  <2>4. ~Stopping' /\ UNCHANGED <<dl, downloads, stopped>>
    BY <2>2, <2>3 DEF Stopping, man, Frame
  <2> QED BY <1>0, <2>3, <2>4, SetsSame, LimitBegins
<1>3. ASSUME NEW d \in Downloads, CancelRequest(d)
      PROVE  TypeOK' /\ Base' /\ LimitOK'
  <2>1. TypeOK' /\ Base' /\ Bottom' = Changed(d)
    BY <1>3, CancelBase
  <2>2. ~Stopping' /\ UNCHANGED <<downloads, stopped>>
    BY <1>3, <2>1 DEF Stopping, man, Changed, Frame, CancelRequest
  <2>3. SetState(d, "CANCELLED") /\ dl[d].state # "free"
    BY <1>3 DEF CancelRequest
  <2>4. ActiveSet' = ActiveSet \ {d}
    BY <2>2, <2>3, SetsSet, StateNames DEF Base
  <2> QED BY <1>0, <2>1, <2>2, <2>4, LimitBegins
<1>4. ASSUME NEW d \in Downloads, RemoveRequest(d)
      PROVE  TypeOK' /\ Base' /\ LimitOK'
  <2>1. TypeOK' /\ Base' /\ Calm' /\ Listed(d) /\ Drop(d) /\ UNCHANGED stopped
    BY <1>4, RemoveBase
  <2>2. ActiveSet' = ActiveSet \ {d} /\ ~Stopping'
    BY <2>1, SetsDrop DEF Base, Stopping
  <2> QED BY <1>0, <2>1, <2>2, LimitBegins
<1>5. CASE StopAll \/ GoOn
  <2>1. /\ TypeOK' /\ Base' /\ ~Calm' /\ Len(stack') = 1 /\ Bottom' = F'
        /\ UNCHANGED <<dl, downloads>>
        /\ F'.pc = "enter" /\ F'.at = FirstLink /\ F'.fn \in {"stop_all", "go_on"}
        /\ (F'.fn = "go_on" => ~stopped')
    BY <1>5, LoopBegins
  <2>2. Pending = {} /\ Pending' = {}
    BY <1>0, <2>1, PendingFacts DEF Pending
  <2>3. Settled' = Settled /\ Settled \subseteq ToSet(downloads)
    BY <2>1, <2>2, SetsSame, SettledFacts DEF Settled
  <2>4. AtOrAfter(Settled, FirstLink)
    BY <2>3, PlaceFacts DEF Base
  <2>5. AtOrAfter(Settled, F.at)'
    BY <2>1, <2>3, <2>4 DEF AtOrAfter
  <2> QED BY <2>1, <2>3, <2>5 DEF LimitOK, Stopping
<1>6. CASE ProgressTimer \/ \E cb \in BOOLEAN : SetProgressCb(cb)
  <2>1. /\ UNCHANGED <<dl, downloads, index, stopped, stack, ret, odd>>
        /\ progress_cb' \in BOOLEAN /\ progress_timer' \in BOOLEAN
    BY <1>6 DEF ProgressTimer, SetProgressCb, man, progress, TypeOK
  <2>2. Calm' /\ ~Stopping'
    BY <1>0, <2>1 DEF Calm, Stopping
  <2>3. TypeOK'
    BY <2>1 DEF TypeOK
  <2>4. StackOK' /\ TopOK'
    BY <2>2 DEF StackOK, TopOK, Calm
  <2>5. ListOK'
    <3>1. Mild /\ \A d \in Downloads : Restarting(d)' <=> Restarting(d)
      BY <1>0, <2>1, <2>2 DEF Mild, Restarting
    <3> QED BY <3>1, ListKept DEF Base
  <2> QED BY <1>0, <2>1, <2>2, <2>3, <2>4, <2>5, SetsSame, LimitBegins DEF Base
<1> QED BY <1>1, <1>2, <1>3, <1>4, <1>5, <1>6 DEF Event

(* Every step of a function *)
LEMMA LimitRunning ==
    ASSUME TypeOK, Base, LimitOK, Running, aborted' = "no"
    PROVE  TypeOK' /\ Base' /\ LimitOK'
<1>1. CASE CbEnter
  BY <1>1, LimitEnter
<1>2. CASE StopNext \/ StopCalled
  BY <1>2, LimitStop
<1>3. CASE ~CbEnter /\ ~(StopNext \/ StopCalled)
  <2>1. Steady
    BY <1>3, SteadyCb, SteadyDownload, SteadyFinish, SteadyOutermost, SteadyGoOn
       DEF Running, StateCb, Download
  <2>2. ~Calm /\ F.fn # "stop_all"
    BY <1>3 DEF Running, StateCb, Download, CbNotify, CbNotifyRemoves, CbScan, CbResumed,
                CbTimer, Pause, Queue, QueueFailed, Resume, Resumed, ResumeDone, Finish,
                Verify, Start, Started, Restart, Restarted, RestartIndex, GoOnNext,
                GoOnCalled, In, F, Calm
  <2> QED BY <2>1, <2>2, SteadyLimit
<1> QED BY <1>1, <1>2, <1>3

(* A step that ends the program *)
LEMMA CrashType ==
    ASSUME TypeOK, Base, LimitOK, Next, aborted = "no", aborted' # "no"
    PROVE  TypeOK'
<1>1. CASE Event
  <2>1. CASE \E d \in Downloads : RemoveRequest(d)
    BY <2>1, RemoveBase
  <2>2. CASE ProgressTimer
    <3>1. aborted' = "progress" /\ UNCHANGED <<dl, man, progress, stack, ret, odd>>
      BY <2>2 DEF ProgressTimer
    <3> QED BY <3>1, CrashFacts DEF Crash
  <2>3. CASE ~(\E d \in Downloads : RemoveRequest(d)) /\ ~ProgressTimer
    BY <1>1, <2>3 DEF Event, StartResult, RestartFile, PauseRequest, ResumeRequest,
                      CancelRequest, Whole, WriteFails, StopAll, GoOn, SetProgressCb
  <2> QED BY <2>1, <2>2, <2>3
<1>2. CASE Running
  <2>1. CASE CbNotifyRemoves
    BY <2>1, CbNotifyRemovesBase
  <2>2. CASE CbResumed
    BY <2>2, CbResumedBase
  <2>3. CASE Restarted
    BY <2>3, RestartedBase
  <2>4. CASE RestartIndex
    BY <2>4, RestartIndexBase
  <2>5. CASE StopCalled
    BY <2>5, StopCalledBase
  <2>6. CASE GoOnCalled
    BY <2>6, GoOnCalledBase
  <2>7. UNCHANGED aborted \/ CbNotifyRemoves \/ CbResumed \/ Restarted \/ RestartIndex
        \/ StopCalled \/ GoOnCalled
    BY <1>2 DEF Running, StateCb, Download, CbEnter, CbNotify, CbScan, CbTimer, Pause, Queue,
                QueueFailed, Resume, Resumed, ResumeDone, Finish, Verify, Start, Started,
                Restart, StopNext, GoOnNext
  <2> QED BY <2>1, <2>2, <2>3, <2>4, <2>5, <2>6, <2>7
<1> QED BY <1>1, <1>2 DEF Next

-----------------------------------------------------------------------------
(* The slots, and what can go wrong without odd files *)

(* The active downloads but the one that is about to be queued or paused *)
Staying ==
    ActiveSet \ IF ~Calm /\ F.pc = "enter" /\ F.fn \in {"queue", "pause"} THEN {F.d} ELSE {}

(* What a frame with n below it relies on as long as no odd file was restarted:
   nothing is found complete but by the event that says so, the link of a loop
   stays on the list, and a download that was counted or resumed leaves one active.
   L is the downloads on the list, S those settled and W those staying. *)
FrameGood(f, n, L, S, W) ==
    /\ f.fn = "finish" => n = 0
    /\ ~At(f, "resume", "done")
    /\ At(f, "state_cb", "resumed") \/ f.pc = "called" => f.at \in L
    /\ f.fn = "state_cb" /\ f.pc # "enter" /\ f.active > 0 => S # {}
    /\ At(f, "resume", "resumed") /\ n > 0 => W # {}
FramesOK ==
    \A k \in 1 .. Len(stack) :
        FrameGood(stack[k], Len(stack) - k, ToSet(downloads), Settled, Staying)

(* The innermost function is going to look at the progress timer again. *)
Excused ==
    /\ ~Calm
    /\ \/ F.fn = "state_cb" /\ F.pc # "resumed"
       \/ At(F, "resume", "enter") /\ dl[F.d].state = "QUEUED"

(* The innermost function then *)
TopPlain ==
    /\ ~Calm /\ F.fn = "state_cb" /\ F.pc \in {"enter", "notify"}
          /\ dl[F.d].state \in EndStates => Len(stack) = 1
    /\ ~Calm /\ At(F, "state_cb", "resumed") => Settled # {}
    /\ progress_timer /\ ActiveSet = {} => Excused

(* No odd file was restarted. *)
Plain ==
    /\ \A d \in Downloads : ~dl[d].whole
    /\ ~Calm /\ Bottom.fn = "restart" => Listed(Bottom.d)
    /\ FramesOK /\ TopPlain

(* A file that is restarted is not in the index before as_downman_restart_file
   ends, unless it is a twin. *)
TwinOK ==
    "twin" \notin odd /\ ~Calm /\ Bottom.fn = "restart" /\ Listed(Bottom.d)
        => index[dl[Bottom.d].hash] = Null

(* A download waits only while all slots are taken, or while the innermost
   function is going to look for one that waits. *)
Full == QueuedSet # {} => Cardinality(ActiveSet) >= MaxActive
Scanned(f) == f.active <= Cardinality(ActiveSet) /\ AtOrAfter(QueuedSet, f.at)
Looking ==
    /\ ~Calm
    /\ \/ At(F, "state_cb", "enter") \/ At(F, "state_cb", "notify")
       \/ (At(F, "state_cb", "scan") \/ At(F, "go_on", "enter")) /\ Scanned(F)
       \/ At(F, "resume", "enter") /\ dl[F.d].state = "QUEUED"
       \/ F.fn \in {"pause", "queue"} /\ F.pc = "enter" /\ dl[F.d].state = "ACTIVE"
       \/ At(F, "finish", "enter")
SlotsOK ==
    /\ ~Calm /\ At(F, "state_cb", "notify") => F.active = Cardinality(ActiveSet)
    /\ "twin" \notin odd /\ ~stopped => Full \/ Looking

Extra ==
    /\ progress_timer => progress_cb
    /\ TwinOK /\ SlotsOK
    /\ odd = {} => Plain

(* A step that activates and queues nothing, and after which the callback has not
   just counted *)
LEMMA SlotsKept ==
    ASSUME SlotsOK, UNCHANGED <<stopped, odd>>, Calm \/ ~Looking,
           ActiveSet' = ActiveSet, QueuedSet' \subseteq QueuedSet,
           ~Calm' => F'.pc # "notify"
    PROVE  SlotsOK'
<1>1. "twin" \notin odd /\ ~stopped => Full
  BY DEF SlotsOK, Looking
<1>2. Full => Full'
  BY DEF Full
<1> QED BY <1>1, <1>2 DEF SlotsOK, At

(* After a step the innermost function is going to look for a download. *)
LEMMA SlotsLook ==
    ASSUME ~Calm', F'.pc # "notify",
           \/ F'.fn = "state_cb" /\ F'.pc = "enter"
           \/ F'.fn = "finish" /\ F'.pc = "enter"
           \/ F'.fn = "resume" /\ F'.pc = "enter" /\ dl'[F'.d].state = "QUEUED"
           \/ F'.fn \in {"pause", "queue"} /\ F'.pc = "enter" /\ dl'[F'.d].state = "ACTIVE"
    PROVE  SlotsOK'
BY DEF SlotsOK, Looking, At

(* A loop over the list begins at its first link, *)
LEMMA FirstPlace ==
    ASSUME NEW q \in Seq(Downloads), IsInjective(q), NEW S,
           NEW at, at = IF q = <<>> THEN Null ELSE Head(q)
    PROVE  \A i \in DOMAIN q : q[i] \in S =>
               at # Null /\ \A j \in DOMAIN q : q[j] = at => j <= i
<1>1. DOMAIN q = 1 .. Len(q) /\ Len(q) \in Nat
  OBVIOUS
<1> SUFFICES ASSUME NEW i \in DOMAIN q
             PROVE  at # Null /\ \A j \in DOMAIN q : q[j] = at => j <= i
  OBVIOUS
<1>2. q # <<>> /\ 1 \in DOMAIN q
  BY <1>1
<1>3. at = q[1] /\ q[1] \in Downloads
  BY <1>2
<1>4. \A j \in DOMAIN q : q[j] = at => j = 1
  BY <1>2, <1>3 DEF IsInjective
<1> QED BY <1>1, <1>3, <1>4, DownManAssumption DEF DownManAssumption

(* and the loop of as_downman_set_stopped counts nothing before it. *)
LEMMA SlotsBegin ==
    ASSUME TypeOK', Base', ~Calm', F'.at = FirstLink',
           \/ F'.fn = "state_cb" /\ F'.pc = "scan"
           \/ F'.fn = "go_on" /\ F'.pc = "enter",
           F'.active <= Cardinality(ActiveSet')
    PROVE  SlotsOK'
<1>1. downloads' \in Seq(Downloads) /\ IsInjective(downloads')
  BY DEF TypeOK, Base, ListOK
<1>2. AtOrAfter(QueuedSet, F.at)'
  BY <1>1, FirstPlace DEF FirstLink, AtOrAfter
<1> QED BY <1>2 DEF SlotsOK, Looking, Scanned, At

(* A loop goes on to the next link, behind a download that does not wait. *)
LEMMA SlotsNext ==
    ASSUME TypeOK, Base, SlotsOK, ~Calm,
           At(F, "state_cb", "scan") \/ At(F, "go_on", "enter"),
           UNCHANGED <<dl, downloads, stopped, odd>>, Listed(F.at),
           dl[F.at].state # "QUEUED", ~Calm', F'.fn = F.fn, F'.pc = F.pc,
           F'.active = F.active, F'.at = NextLink(F.at)
    PROVE  SlotsOK'
<1>1. ActiveSet' = ActiveSet /\ QueuedSet' = QueuedSet
  BY SetsSame
<1>2. F'.pc # "notify"
  BY DEF At
<1>3. CASE Full
  BY <1>1, <1>2, <1>3 DEF SlotsOK, Full, At
<1>4. CASE Scanned(F)
  <2>1. QueuedSet \subseteq ToSet(downloads) /\ F.at \in ToSet(downloads) \ QueuedSet
    BY DEF QueuedSet, Listed
  <2>2. QueuedSet \ {F.at} = QueuedSet
    BY <2>1
  <2>3. AtOrAfter(QueuedSet, NextLink(F.at))
    BY <1>4, <2>1, <2>2, PlaceFacts DEF Scanned, Base
  <2>4. Scanned(F)'
    BY <1>1, <1>4, <2>3 DEF Scanned, AtOrAfter
  <2> QED BY <1>2, <2>4 DEF SlotsOK, Looking, At
<1>5. "twin" \in odd \/ stopped \/ Full \/ Scanned(F)
  BY DEF SlotsOK, Looking, At
<1>6. CASE "twin" \in odd \/ stopped
  BY <1>2, <1>6 DEF SlotsOK, At
<1> QED BY <1>3, <1>4, <1>5, <1>6

(* and it ends when all slots are taken or no download is left. *)
LEMMA SlotsEnd ==
    ASSUME TypeOK, Base, SlotsOK, ~Calm,
           At(F, "state_cb", "scan") \/ At(F, "go_on", "enter"),
           UNCHANGED <<dl, downloads, stopped, odd>>,
           ~(F.active < MaxActive /\ F.at # Null), ~Calm' => F'.pc # "notify"
    PROVE  SlotsOK'
<1>1. ActiveSet' = ActiveSet /\ QueuedSet' = QueuedSet
  BY SetsSame
<1>2. "twin" \in odd \/ stopped \/ Full \/ Scanned(F)
  BY DEF SlotsOK, Looking, At
<1>3. Scanned(F) => Full
  <2> SUFFICES ASSUME Scanned(F), QueuedSet # {} PROVE Cardinality(ActiveSet) >= MaxActive
    BY DEF Full
  <2>1. F.at # Null
    BY PlaceFacts DEF Scanned, Base, QueuedSet
  <2>2. Cardinality(ActiveSet) \in Nat /\ MaxActive \in Nat /\ F.active \in Nat
    BY ActiveFinite, DownManAssumption, TopFacts DEF DownManAssumption, Base, FrameType
  <2> QED BY <2>1, <2>2 DEF Scanned
<1>4. Full => Full'
  BY <1>1 DEF Full
<1> QED BY <1>2, <1>3, <1>4 DEF SlotsOK, At

(* The steps of the functions *)
LEMMA SlotsCb ==
    ASSUME TypeOK, Base, LimitOK, SlotsOK, StateCb, aborted' = "no"
    PROVE  SlotsOK'
<1>1. ~Calm /\ F.fn = "state_cb" /\ UNCHANGED <<stopped, odd>>
  BY DEF StateCb, CbEnter, CbNotify, CbNotifyRemoves, CbScan, CbResumed, CbTimer, In, F, Calm,
         man, Crash
<1>2. CASE CbEnter
  <2>1. /\ UNCHANGED <<dl, downloads>> /\ TypeOK' /\ Base'
        /\ IF dl[F.d].state = "ACTIVE" /\ OverLimit(active_downloads)
           THEN Goes(Frame("queue", F.d))
           ELSE GoesTo("notify", active_downloads, F.at)
    BY <1>2, CbEnterBase, CountedEnough DEF CbEnter, man
  <2>2. CASE Goes(Frame("queue", F.d)) /\ dl[F.d].state = "ACTIVE"
    <3>1. ~Calm' /\ F'.fn = "queue" /\ F'.pc = "enter" /\ F'.d = F.d
      BY <2>2 DEF Goes, Frame
    <3> QED BY <2>1, <2>2, <3>1, SlotsLook
  <2>3. CASE GoesTo("notify", active_downloads, F.at)
    <3>1. ~Calm' /\ F'.fn = "state_cb" /\ F'.pc = "notify" /\ F'.active = active_downloads
      BY <1>1, <2>3 DEF GoesTo, Goes
    <3>2. ActiveSet' = ActiveSet
      BY <2>1, SetsSame
    <3> QED BY <3>1, <3>2 DEF SlotsOK, Looking, At, active_downloads
  <2> QED BY <2>1, <2>2, <2>3
<1>3. CASE CbNotify \/ CbNotifyRemoves
  <2>1. /\ TypeOK' /\ Base'
        /\ GoesTo(IF stopped THEN "timer" ELSE "scan", F.active, FirstLink')
    <3>1. CASE CbNotify
      <4>1. FirstLink' = FirstLink
        BY <3>1 DEF CbNotify, man, FirstLink
      <4> QED BY <3>1, <4>1, CbNotifyBase
    <3> QED BY <1>3, <3>1, CbNotifyRemovesBase
  <2>2. /\ ~Calm' /\ F'.fn = "state_cb" /\ F'.pc = (IF stopped THEN "timer" ELSE "scan")
        /\ F'.active = F.active /\ F'.at = FirstLink'
    BY <1>1, <2>1 DEF GoesTo, Goes
  <2>3. ActiveSet' = ActiveSet
    <3>1. CASE CbNotify
      BY <3>1, SetsSame DEF CbNotify, man
    <3>2. CASE CbNotifyRemoves
      <4>1. dl[F.d].state \in EndStates /\ Drop(F.d) /\ Listed(F.d) /\ F.d \in Downloads
        BY <1>1, <3>2, CbNotifyRemovesBase, TopFacts DEF CbNotifyRemoves, Base
      <4>2. F.d \notin ActiveSet
        BY <4>1 DEF ActiveSet, EndStates
      <4> QED BY <4>1, <4>2, SetsDrop DEF Base
    <3> QED BY <1>3, <3>1, <3>2
  <2>4. CASE stopped
    BY <1>1, <2>2, <2>4 DEF SlotsOK, At
  <2>5. CASE ~stopped
    <3>1. At(F, "state_cb", "notify")
      BY <1>1, <1>3 DEF CbNotify, CbNotifyRemoves, In, F, At
    <3>2. F.active = Cardinality(ActiveSet) /\ Cardinality(ActiveSet) \in Nat
      BY <1>1, <3>1, ActiveFinite DEF SlotsOK
    <3>3. F'.active <= Cardinality(ActiveSet')
      BY <2>2, <2>3, <3>2
    <3> QED BY <2>1, <2>2, <2>5, <3>3, SlotsBegin
  <2> QED BY <2>4, <2>5
<1>4. CASE CbScan
  <2>1. /\ At(F, "state_cb", "scan") /\ UNCHANGED <<dl, downloads>>
        /\ IF F.active < MaxActive /\ F.at # Null
           THEN IF dl[F.at].state = "QUEUED"
                THEN Calls(Frame("resume", F.at), Then("resumed"))
                ELSE Listed(F.at) /\ GoesTo("scan", F.active, NextLink(F.at))
           ELSE GoesTo("timer", F.active, F.at)
    BY <1>4, CbScanBase DEF CbScan, In, F, At, man
  <2>2. CASE Calls(Frame("resume", F.at), Then("resumed")) /\ dl[F.at].state = "QUEUED"
    <3>1. ~Calm' /\ F'.fn = "resume" /\ F'.pc = "enter" /\ F'.d = F.at
      BY <2>2 DEF Calls, Frame
    <3> QED BY <2>1, <2>2, <3>1, SlotsLook
  <2>3. CASE /\ Listed(F.at) /\ GoesTo("scan", F.active, NextLink(F.at))
             /\ dl[F.at].state # "QUEUED"
    <3>1. /\ ~Calm' /\ F'.fn = F.fn /\ F'.pc = F.pc /\ F'.active = F.active
          /\ F'.at = NextLink(F.at)
      BY <2>1, <2>3 DEF GoesTo, Goes, At
    <3> QED BY <1>1, <2>1, <2>3, <3>1, SlotsNext
  <2>4. CASE GoesTo("timer", F.active, F.at) /\ ~(F.active < MaxActive /\ F.at # Null)
    <3>1. F'.pc # "notify"
      BY <2>4 DEF GoesTo, Goes
    <3> QED BY <1>1, <2>1, <2>4, <3>1, SlotsEnd
  <2> QED BY <2>1, <2>2, <2>3, <2>4
<1>5. CASE CbResumed \/ CbTimer
  <2>1. UNCHANGED <<dl, downloads>> /\ (~Calm' => F'.pc # "notify")
    <3>1. CASE CbResumed
      BY <3>1, CbResumedBase DEF GoesTo, Goes
    <3>2. CASE CbTimer
      BY <3>2, CbTimerBase DEF CbTimer, man, Returns, Callee, Waiting
    <3> QED BY <1>5, <3>1, <3>2
  <2>2. ~Looking
    BY <1>1, <1>5 DEF CbResumed, CbTimer, In, F, Looking, At
  <2> QED BY <1>1, <2>1, <2>2, SetsSame, SlotsKept
<1> QED BY <1>2, <1>3, <1>4, <1>5 DEF StateCb

(* Pausing, queueing, resuming and finishing leave a callback to come. *)
LEMMA SlotsDownload ==
    ASSUME TypeOK, Base, SlotsOK, Download
    PROVE  SlotsOK'
<1>1. /\ ~Calm /\ F.fn \in {"pause", "queue", "resume", "finish"}
      /\ UNCHANGED <<downloads, stopped, odd>>
  BY DEF Download, Pause, Queue, QueueFailed, Resume, Resumed, ResumeDone, Finish, Verify, In,
         F, Calm, man
<1>2. ASSUME Goes(Changed(F.d)) \/ \E f : Calls(Changed(F.d), f) PROVE SlotsOK'
  <2>1. ~Calm' /\ F'.fn = "state_cb" /\ F'.pc = "enter"
    BY <1>2 DEF Goes, Calls, Changed, Frame
  <2> QED BY <2>1, SlotsLook
<1>3. ASSUME Returns, UNCHANGED dl, ~Looking PROVE SlotsOK'
  <2>1. ~Calm' => F'.pc # "notify"
    BY <1>3 DEF Returns, Callee, Waiting
  <2> QED BY <1>1, <1>3, <2>1, SetsSame, SlotsKept
<1>4. CASE Pause
  <2>1. F.fn = "pause"
    BY <1>4, InFacts DEF Pause
  <2> QED BY <1>2, <1>3, <1>4, <2>1, PauseBase DEF Looking, At
<1>5. CASE Queue
  <2>1. /\ F.fn = "queue" /\ F.pc = "enter"
        /\ TopFor(F, dl, ToSet(downloads), Len(stack), Bottom.fn, ret)
    BY <1>5, InFacts DEF Queue
  <2>2. CASE dl[F.d].state \notin {"ACTIVE", "PAUSED"} /\ UNCHANGED dl /\ Returns
    BY <1>3, <2>1, <2>2 DEF Looking, At
  <2>3. CASE Goes(Changed(F.d))
    BY <1>2, <2>3
  <2>4. CASE UNCHANGED dl /\ Calls(Frame("pause", F.d), Then("failed"))
    <3>1. ~Calm' /\ F'.fn = "pause" /\ F'.pc = "enter" /\ F'.d = F.d
      BY <2>4 DEF Calls, Frame
    <3>2. CASE dl[F.d].state = "ACTIVE"
      BY <2>4, <3>1, <3>2, SlotsLook
    <3>3. CASE dl[F.d].state # "ACTIVE"
      BY <1>1, <2>1, <2>4, <3>1, <3>3, SetsSame, SlotsKept DEF Looking, At
    <3> QED BY <3>2, <3>3
  <2> QED BY <1>5, <2>2, <2>3, <2>4, QueueBase
<1>6. CASE QueueFailed
  <2>1. Returns /\ UNCHANGED dl /\ ~Looking
    BY <1>6, QueueFailedBase DEF QueueFailed, In, F, Looking, At
  <2> QED BY <1>3, <2>1
<1>7. CASE Resume
  <2>1. F.fn = "resume" /\ F.pc = "enter"
    BY <1>7, InFacts DEF Resume
  <2> QED BY <1>2, <1>3, <1>7, <2>1, ResumeBase DEF Looking, At
<1>8. CASE Resumed
  <2>1. F.fn = "resume" /\ F.pc = "resumed" /\ UNCHANGED dl
    BY <1>8, InFacts DEF Resumed
  <2>2. CASE Calls(Frame("finish", F.d), Then("done"))
    <3>1. ~Calm' /\ F'.fn = "finish" /\ F'.pc = "enter"
      BY <2>2 DEF Calls, Frame
    <3> QED BY <3>1, SlotsLook
  <2>3. CASE Returns
    BY <1>3, <2>1, <2>3 DEF Looking, At
  <2> QED BY <1>8, <2>2, <2>3, ResumedBase
<1>9. CASE ResumeDone
  <2>1. Returns /\ UNCHANGED dl /\ ~Looking
    BY <1>9, ResumeDoneBase DEF ResumeDone, In, F, Looking, At
  <2> QED BY <1>3, <2>1
<1>10. CASE Finish
  BY <1>2, <1>10, FinishBase
<1>11. CASE Verify
  <2>1. ~Looking
    BY <1>11 DEF Verify, In, F, Looking, At
  <2> QED BY <1>2, <1>3, <1>11, <2>1, VerifyBase
<1> QED BY <1>4, <1>5, <1>6, <1>7, <1>8, <1>9, <1>10, <1>11 DEF Download

(* Starting and restarting; only a twin is freed while it is active. *)
LEMMA SlotsOutermost ==
    ASSUME TypeOK, Base, SlotsOK, TwinOK, aborted' = "no",
           Start \/ Started \/ Restart \/ Restarted \/ RestartIndex
    PROVE  SlotsOK'
<1>1. ~Calm /\ F.fn \in {"start", "restart"} /\ UNCHANGED <<stopped, odd>>
  BY DEF Start, Started, Restart, Restarted, RestartIndex, In, F, Calm, man, Crash
<1>2. F.d \in Downloads /\ Len(stack) = 1 /\ Bottom = F /\ ~Looking
  BY <1>1, TopFacts DEF Base, Outermost, Looking, At
<1>3. ASSUME \E f : Calls(Changed(F.d), f) \/ Calls(Frame("finish", F.d), f) PROVE SlotsOK'
  <2>1. ~Calm' /\ F'.fn \in {"state_cb", "finish"} /\ F'.pc = "enter"
    BY <1>3 DEF Calls, Changed, Frame
  <2> QED BY <2>1, SlotsLook
<1>4. ASSUME UNCHANGED <<dl, downloads>>, ~Calm' => F'.pc # "notify" PROVE SlotsOK'
  BY <1>1, <1>2, <1>4, SetsSame, SlotsKept
<1>5. ASSUME Listed(F.d), Drop(F.d), Calm', dl[F.d].state # "ACTIVE" PROVE SlotsOK'
  <2>1. F.d \notin ActiveSet
    BY <1>5 DEF ActiveSet
  <2> QED BY <1>1, <1>2, <1>5, <2>1, SetsDrop, SlotsKept DEF Base
<1>6. ASSUME NEW pc \in {"started", "restarted", "index"}, GoesTo(pc, F.active, F.at)
      PROVE  ~Calm' => F'.pc # "notify"
  BY <1>6 DEF GoesTo, Goes
<1>7. CASE Start
  BY <1>3, <1>4, <1>6, <1>7, StartBase DEF Start, man
<1>8. CASE Restart
  BY <1>3, <1>4, <1>6, <1>8, RestartBase DEF Restart, man
<1>9. CASE Started
  <2>1. CASE UNCHANGED <<dl, downloads, index>> /\ Returns /\ Calm'
    BY <1>4, <2>1
  <2>2. CASE UNCHANGED <<dl, downloads, index>> /\ Goes(Frame("pause", F.d))
    <3>1. F'.pc # "notify"
      BY <2>2 DEF Goes, Frame
    <3> QED BY <1>4, <2>2, <3>1
  <2> QED BY <1>5, <1>9, <2>1, <2>2, StartedBase
<1>10. CASE Restarted
  BY <1>3, <1>4, <1>5, <1>6, <1>10, RestartedBase
<1>11. CASE RestartIndex
  <2>1. /\ Calm' /\ Listed(F.d)
        /\ \/ index[dl[F.d].hash] # Null /\ Drop(F.d)
           \/ UNCHANGED <<dl, downloads>>
    BY <1>11, RestartIndexBase
  <2>2. CASE UNCHANGED <<dl, downloads>>
    BY <1>4, <2>1, <2>2
  <2>3. CASE index[dl[F.d].hash] # Null
    <3>1. "twin" \in odd
      BY <1>1, <1>2, <1>11, <2>1, <2>3 DEF TwinOK, RestartIndex, In, F
    <3> QED BY <1>1, <2>1, <3>1 DEF SlotsOK
  <2> QED BY <2>1, <2>2, <2>3
<1> QED BY <1>7, <1>8, <1>9, <1>10, <1>11

(* The loops over the list *)
LEMMA SlotsLoops ==
    ASSUME TypeOK, Base, SlotsOK, aborted' = "no",
           StopNext \/ StopCalled \/ GoOnNext \/ GoOnCalled
    PROVE  SlotsOK'
<1>1. ~Calm /\ F.fn \in {"stop_all", "go_on"} /\ UNCHANGED <<stopped, odd>>
  BY DEF StopNext, StopCalled, GoOnNext, GoOnCalled, In, F, Calm, man, Crash
<1>2. CASE StopNext \/ StopCalled
  <2>1. stopped' /\ (~Calm' => F'.pc = "enter")
    <3>1. CASE StopNext
      <4>1. F.at # Null => F'.pc = "enter"
        BY <3>1, StopNextBase DEF Calls, Frame
      <4> QED BY <1>1, <3>1, <4>1, StopNextBase
    <3>2. CASE StopCalled
      BY <1>1, <3>2, StopCalledBase DEF GoesTo, Goes
    <3> QED BY <1>2, <3>1, <3>2
  <2> QED BY <2>1 DEF SlotsOK, At
<1>3. CASE GoOnNext
  <2>1. /\ At(F, "go_on", "enter") /\ UNCHANGED <<dl, downloads>>
        /\ F.at \in ToSet(downloads) \cup {Null}
        /\ IF F.active < MaxActive /\ F.at # Null
           THEN IF dl[F.at].state = "QUEUED"
                THEN Calls(Frame("resume", F.at), Then("called"))
                ELSE GoesTo("enter", F.active, NextLink(F.at))
           ELSE Returns /\ Calm'
    BY <1>3, GoOnNextBase DEF GoOnNext, In, F, At, man
  <2>2. CASE Calls(Frame("resume", F.at), Then("called")) /\ dl[F.at].state = "QUEUED"
    <3>1. ~Calm' /\ F'.fn = "resume" /\ F'.pc = "enter" /\ F'.d = F.at
      BY <2>2 DEF Calls, Frame
    <3> QED BY <2>1, <2>2, <3>1, SlotsLook
  <2>3. CASE /\ F.at # Null /\ GoesTo("enter", F.active, NextLink(F.at))
             /\ dl[F.at].state # "QUEUED"
    <3>1. /\ ~Calm' /\ F'.fn = F.fn /\ F'.pc = F.pc /\ F'.active = F.active
          /\ F'.at = NextLink(F.at) /\ Listed(F.at)
      BY <2>1, <2>3 DEF GoesTo, Goes, At, Listed
    <3> QED BY <1>1, <2>1, <2>3, <3>1, SlotsNext
  <2>4. CASE Calm' /\ ~(F.active < MaxActive /\ F.at # Null)
    BY <1>1, <2>1, <2>4, SlotsEnd
  <2> QED BY <2>1, <2>2, <2>3, <2>4
<1>4. CASE GoOnCalled
  <2>1. UNCHANGED <<dl, downloads>> /\ (~Calm' => F'.pc # "notify") /\ ~Looking
    BY <1>4, GoOnCalledBase DEF GoesTo, Goes, GoOnCalled, In, F, Looking, At
  <2> QED BY <1>1, <2>1, SetsSame, SlotsKept
<1> QED BY <1>2, <1>3, <1>4

(* The events *)
LEMMA SlotsEvent ==
    ASSUME TypeOK, Base, SlotsOK, Event, aborted' = "no"
    PROVE  SlotsOK'
<1>0. Calm
  BY DEF Event, StartResult, RestartFile, PauseRequest, ResumeRequest, CancelRequest,
         RemoveRequest, Whole, WriteFails, StopAll, GoOn, ProgressTimer, SetProgressCb,
         Quiet, Calm
<1>1. ASSUME NEW h \in Hashes, NEW d \in Downloads, NEW whole \in BOOLEAN,
             StartResult(h, d) \/ RestartFile(h, d, whole)
      PROVE  SlotsOK'
  <2>1. /\ ToSet(downloads') = {d} \cup ToSet(downloads) /\ ~Listed(d)
        /\ dl'[d].state = "NEW" /\ \A e \in Downloads : e # d => dl'[e] = dl[e]
        /\ F'.pc = "enter"
    <3>1. Frame("start", d).pc = "enter" /\ Frame("restart", d).pc = "enter"
      BY DEF Frame
    <3> QED BY <1>1, <3>1, NewBase
  <2>2. ActiveSet' = ActiveSet /\ QueuedSet' = QueuedSet
    BY <2>1, LinkFacts DEF ActiveSet, QueuedSet, Listed
  <2>3. stopped' = stopped /\ odd \subseteq odd'
    BY <1>1 DEF StartResult, RestartFile
  <2>4. "twin" \notin odd /\ ~stopped => Full
    BY <1>0 DEF SlotsOK, Looking
  <2>5. Full => Full'
    BY <2>2 DEF Full
  <2> QED BY <2>1, <2>3, <2>4, <2>5 DEF SlotsOK, At
<1>2. ASSUME NEW d \in Downloads,
             PauseRequest(d) \/ ResumeRequest(d) \/ Whole(d) \/ WriteFails(d)
      PROVE  SlotsOK'
  <2>1. UNCHANGED <<dl, downloads, stopped, odd>> /\ F'.pc # "notify"
    BY <1>2 DEF PauseRequest, ResumeRequest, Whole, WriteFails, man, Begin, Frame, F
  <2> QED BY <1>0, <2>1, SetsSame, SlotsKept
<1>3. ASSUME NEW d \in Downloads, CancelRequest(d) PROVE SlotsOK'
  <2>1. ~Calm' /\ F'.fn = "state_cb" /\ F'.pc = "enter"
    BY <1>3, CancelBase DEF Changed, Frame
  <2> QED BY <2>1, SlotsLook
<1>4. ASSUME NEW d \in Downloads, RemoveRequest(d) PROVE SlotsOK'
  <2>1. /\ Calm' /\ Listed(d) /\ Drop(d) /\ UNCHANGED <<stopped, odd>>
        /\ dl[d].state \in EndStates \cup {"NEW"}
    BY <1>4, RemoveBase
  <2>2. d \notin ActiveSet
    BY <2>1 DEF ActiveSet, EndStates
  <2> QED BY <1>0, <2>1, <2>2, SetsDrop, SlotsKept DEF Base
<1>5. CASE StopAll \/ GoOn
  <2>1. /\ TypeOK' /\ Base' /\ ~Calm' /\ UNCHANGED downloads
        /\ F'.pc = "enter" /\ F'.active = 0 /\ F'.at = FirstLink
        /\ stopped' \/ F'.fn = "go_on"
    BY <1>5, LoopBegins
  <2>2. CASE stopped'
    BY <2>1, <2>2 DEF SlotsOK, At
  <2>3. CASE F'.fn = "go_on"
    <3>1. FirstLink' = FirstLink
      BY <2>1 DEF FirstLink
    <3>2. Cardinality(ActiveSet') \in Nat
      <4>1. IsFiniteSet(ToSet(downloads')) /\ ActiveSet' \subseteq ToSet(downloads')
        BY <2>1, ListFinite DEF TypeOK, ActiveSet
      <4> QED BY <4>1, FS_Subset, FS_CardinalityType
    <3> QED BY <2>1, <2>3, <3>1, <3>2, SlotsBegin
  <2> QED BY <2>1, <2>2, <2>3
<1>6. CASE ProgressTimer \/ \E cb \in BOOLEAN : SetProgressCb(cb)
  <2>1. UNCHANGED <<dl, downloads, stopped, stack, odd>>
    BY <1>6 DEF ProgressTimer, SetProgressCb, man
  <2>2. Calm'
    BY <1>0, <2>1 DEF Calm
  <2> QED BY <1>0, <2>1, <2>2, SetsSame, SlotsKept
<1> QED BY <1>1, <1>2, <1>3, <1>4, <1>5, <1>6 DEF Event

(* A step of a function links nothing, and before the last function returns it
   enters nothing in the index. *)
Shrinks ==
    /\ ToSet(downloads') \subseteq ToSet(downloads) /\ odd' = odd
    /\ \A d \in Downloads : dl'[d].whole => dl[d].whole
    /\ \A d \in ToSet(downloads') : dl'[d].hash = dl[d].hash
    /\ \A h \in Hashes : index[h] = Null => index'[h] = Null \/ Calm'

(* Nothing changes, *)
LEMMA ShrinksSame ==
    ASSUME UNCHANGED <<dl, downloads, index, odd>>
    PROVE  Shrinks
BY DEF Shrinks

(* the state of a download changes, *)
LEMMA ShrinksSet ==
    ASSUME TypeOK, NEW d \in Downloads, NEW st, SetState(d, st),
           UNCHANGED <<downloads, index, odd>>
    PROVE  Shrinks
<1>1. \A e \in Downloads : dl'[e].whole = dl[e].whole /\ dl'[e].hash = dl[e].hash
  BY DEF TypeOK, SetState
<1>2. ToSet(downloads) \subseteq Downloads
  BY LinkFacts
<1> QED BY <1>1, <1>2 DEF Shrinks

(* or a download is freed. *)
LEMMA ShrinksDrop ==
    ASSUME TypeOK, Base, NEW d \in Downloads, Listed(d), Drop(d), odd' = odd,
           Unindex(dl[d].hash) \/ UNCHANGED index
    PROVE  Shrinks
<1>1. /\ ToSet(downloads') = ToSet(downloads) \ {d} /\ ~dl'[d].whole
      /\ \A e \in Downloads : e # d => dl'[e] = dl[e]
  BY DropFacts DEF Base
<1>2. ToSet(downloads) \subseteq Downloads
  BY LinkFacts
<1>3. \A h \in Hashes : index[h] = Null => index'[h] = Null
  BY DEF TypeOK, Unindex
<1> QED BY <1>1, <1>2, <1>3 DEF Shrinks

(* This covers every step of a function. *)
LEMMA ShrinksRunning ==
    ASSUME TypeOK, Base, Running, aborted' = "no"
    PROVE  Shrinks
<1>0. ~Calm /\ (F.fn \notin {"stop_all", "go_on"} => F.d \in Downloads)
  <2>1. ~Calm
    BY DEF Running, StateCb, Download, CbEnter, CbNotify, CbNotifyRemoves, CbScan, CbResumed,
           CbTimer, Pause, Queue, QueueFailed, Resume, Resumed, ResumeDone, Finish, Verify,
           Start, Started, Restart, Restarted, RestartIndex, StopNext, StopCalled, GoOnNext,
           GoOnCalled, In, Calm
  <2> QED BY <2>1, TopFacts DEF Base
<1>1. CASE CbEnter \/ CbNotify \/ CbScan \/ CbResumed \/ CbTimer \/ QueueFailed \/ Resumed
           \/ ResumeDone \/ StopNext \/ StopCalled \/ GoOnNext \/ GoOnCalled
  <2>1. UNCHANGED <<dl, downloads, index, odd>>
    BY <1>1 DEF CbEnter, CbNotify, CbScan, CbResumed, CbTimer, QueueFailed, Resumed,
                ResumeDone, StopNext, StopCalled, GoOnNext, GoOnCalled, man, Crash
  <2> QED BY <2>1, ShrinksSame
<1>2. CASE Pause \/ Queue \/ Resume \/ Finish \/ Verify \/ Start \/ Restart
  <2>1. F.d \in Downloads
    BY <1>0, <1>2 DEF Pause, Queue, Resume, Finish, Verify, Start, Restart, In, F
  <2>2. /\ UNCHANGED <<downloads, index, odd>>
        /\ UNCHANGED dl \/ \E st : SetState(F.d, st)
    BY <1>2 DEF Pause, Queue, Resume, Finish, Verify, Start, Restart, man
  <2> QED BY <2>1, <2>2, ShrinksSame, ShrinksSet
<1>3. CASE CbNotifyRemoves
  <2>1. F.d \in Downloads /\ Unindex(dl[F.d].hash)
    BY <1>0, <1>3 DEF CbNotifyRemoves, In, F, Crash
  <2> QED BY <1>3, <2>1, CbNotifyRemovesBase, ShrinksDrop
<1>4. CASE Started
  <2>1. /\ F.d \in Downloads /\ odd' = odd
        /\ UNCHANGED <<dl, downloads, index>>
           \/ (Listed(F.d) /\ Drop(F.d) /\ Unindex(dl[F.d].hash))
    BY <1>0, <1>4 DEF Started, In, F, man
  <2> QED BY <2>1, ShrinksSame, ShrinksDrop
<1>5. CASE Restarted
  <2>1. /\ F.d \in Downloads /\ UNCHANGED <<index, odd>>
        /\ UNCHANGED <<dl, downloads>> \/ (Listed(F.d) /\ Drop(F.d))
    BY <1>0, <1>5 DEF Restarted, In, F, Crash, man
  <2> QED BY <2>1, ShrinksSame, ShrinksDrop
<1>6. CASE RestartIndex
  <2>1. /\ F.d \in Downloads /\ odd' = odd /\ Listed(F.d) /\ Calm'
        /\ (UNCHANGED index /\ Drop(F.d)) \/ UNCHANGED <<dl, downloads>>
    BY <1>0, <1>6, RestartIndexBase DEF RestartIndex, In, F, Crash
  <2>2. CASE UNCHANGED <<dl, downloads>>
    BY <2>1, <2>2 DEF Shrinks
  <2> QED BY <2>1, <2>2, ShrinksDrop
<1> QED BY <1>1, <1>2, <1>3, <1>4, <1>5, <1>6 DEF Running, StateCb, Download

(* What the outermost function is after a step *)
LEMMA MovesRunning ==
    ASSUME TypeOK, Base, LimitOK, Running, aborted' = "no"
    PROVE  /\ ~Calm' /\ Bottom'.fn = "restart" =>
                 ~Calm /\ Bottom.fn = "restart" /\ Bottom'.d = Bottom.d
<1>1. CASE StopNext \/ StopCalled
  <2>1. F.fn = "stop_all" /\ F \in FrameType
    <3>1. ~Calm /\ F.fn = "stop_all"
      BY <1>1 DEF StopNext, StopCalled, In, F, Calm
    <3> QED BY <3>1, TopFacts DEF Base
  <2>2. ~Calm' => Bottom'.fn = "stop_all"
    <3>1. CASE StopNext
      <4>1. Then("called").fn = "stop_all"
        BY <2>1, PCs, ThenFacts
      <4> QED BY <3>1, <4>1, StopNextBase DEF Calls
    <3>2. CASE StopCalled
      BY <2>1, <3>2, StopCalledBase DEF GoesTo, Goes
    <3> QED BY <1>1, <3>1, <3>2
  <2> QED BY <2>2
<1>2. CASE ~(StopNext \/ StopCalled)
  <2>1. ~Calm /\ F.fn # "stop_all"
    BY <1>2 DEF Running, StateCb, Download, CbEnter, CbNotify, CbNotifyRemoves, CbScan, CbResumed,
           CbTimer, Pause, Queue, QueueFailed, Resume, Resumed, ResumeDone, Finish, Verify,
           Start, Started, Restart, Restarted, RestartIndex, GoOnNext, GoOnCalled, In, F, Calm
  <2>2. Moves
    <3>1. CASE CbEnter
      <4>1. F.fn = "state_cb"
        BY <3>1 DEF CbEnter, In, F
      <4>2. CASE Goes(Frame("queue", F.d))
        BY <4>2, GoesChanged
      <4>3. CASE GoesTo("notify", active_downloads, F.at)
        BY <4>1, <4>3 DEF Moves, Stays, GoesTo
      <4> QED BY <3>1, <4>2, <4>3, CbEnterBase, CountedEnough
    <3>2. CASE ~CbEnter
      <4>1. Steady
        BY <1>2, <3>2, SteadyCb, SteadyDownload, SteadyFinish, SteadyOutermost, SteadyGoOn
           DEF Running, StateCb, Download
      <4> QED BY <4>1 DEF Steady
    <3> QED BY <3>1, <3>2
  <2> QED BY <2>1, <2>2, MovesFacts
<1> QED BY <1>1, <1>2

(* A file that is restarted is found in the index only if it is a twin. *)
LEMMA TwinRunning ==
    ASSUME TypeOK, Base, LimitOK, TwinOK, Running, aborted' = "no"
    PROVE  TwinOK'
<1> SUFFICES ASSUME "twin" \notin odd', ~Calm', Bottom'.fn = "restart",
                    Bottom'.d \in ToSet(downloads')
             PROVE  index'[dl'[Bottom'.d].hash] = Null
  BY DEF TwinOK, Listed
<1>1. Shrinks /\ ~Calm /\ Bottom.fn = "restart" /\ Bottom'.d = Bottom.d
  BY ShrinksRunning, MovesRunning
<1>2. /\ "twin" \notin odd /\ Listed(Bottom.d) /\ dl'[Bottom.d].hash = dl[Bottom.d].hash
      /\ dl[Bottom.d].hash \in Hashes
  <2>1. ToSet(downloads) \subseteq Downloads
    BY LinkFacts
  <2>2. "twin" \notin odd /\ Listed(Bottom.d) /\ dl'[Bottom.d].hash = dl[Bottom.d].hash
    BY <1>1 DEF Shrinks, Listed
  <2> QED BY <2>1, <2>2 DEF Base, ListOK, Listed
<1>3. index[dl[Bottom.d].hash] = Null
  BY <1>1, <1>2 DEF TwinOK
<1> QED BY <1>1, <1>2, <1>3 DEF Shrinks

(* The event that begins it notes whether it is one. *)
LEMMA TwinEvent ==
    ASSUME TypeOK, Base, Event, aborted' = "no"
    PROVE  TwinOK'
<1>0. Calm
  BY DEF Event, StartResult, RestartFile, PauseRequest, ResumeRequest, CancelRequest,
         RemoveRequest, Whole, WriteFails, StopAll, GoOn, ProgressTimer, SetProgressCb,
         Quiet, Calm
<1>1. ASSUME ~Calm' => Bottom'.fn # "restart" PROVE TwinOK'
  BY <1>1 DEF TwinOK
<1>2. ASSUME NEW h \in Hashes, NEW d \in Downloads, NEW whole \in BOOLEAN,
             StartResult(h, d) \/ RestartFile(h, d, whole)
      PROVE  TwinOK'
  <2>1. CASE F' = Frame("start", d)
    <3>1. Bottom' = F'
      BY <1>2, NewBase
    <3> QED BY <1>1, <2>1, <3>1 DEF Frame
  <2>2. CASE RestartFile(h, d, whole) /\ F' = Frame("restart", d) /\ UNCHANGED index
    <3>1. Bottom'.d = d /\ dl'[d].hash = h
      <4>1. Bottom' = F' /\ dl'[d].hash = h
        BY <1>2, NewBase
      <4> QED BY <2>2, <4>1 DEF Frame
    <3>2. index[h] # Null => "twin" \in odd'
      BY <2>2 DEF RestartFile
    <3> QED BY <2>2, <3>1, <3>2 DEF TwinOK
  <2> QED BY <1>2, <2>1, <2>2, NewBase
<1>3. ASSUME NEW d \in Downloads,
             PauseRequest(d) \/ ResumeRequest(d) \/ CancelRequest(d) \/ Whole(d) \/ WriteFails(d)
      PROVE  TwinOK'
  <2>1. PICK fn \in {"state_cb", "pause", "resume", "finish"} : stack' = <<Frame(fn, d)>>
    BY <1>3 DEF PauseRequest, ResumeRequest, CancelRequest, Whole, WriteFails, Begin, Changed
  <2>2. Bottom' = Frame(fn, d)
    BY <2>1 DEF Bottom
  <2> QED BY <1>1, <2>2 DEF Frame
<1>4. ASSUME NEW d \in Downloads, RemoveRequest(d) PROVE TwinOK'
  BY <1>1, <1>4, RemoveBase
<1>5. CASE StopAll \/ GoOn
  BY <1>1, <1>5, LoopBegins
<1>6. CASE ProgressTimer \/ \E cb \in BOOLEAN : SetProgressCb(cb)
  BY <1>0, <1>1, <1>6 DEF ProgressTimer, SetProgressCb, Calm
<1> QED BY <1>2, <1>3, <1>4, <1>5, <1>6 DEF Event

-----------------------------------------------------------------------------
(* The frames as long as no odd file was restarted *)

(* The frames below the innermost rely on nothing that a step takes away. *)
LowerGood ==
    \A k \in 2 .. Len(stack) :
        FrameGood(stack[k], Len(stack) - k, ToSet(downloads'), Settled', Staying')

(* It takes nothing away as long as some download stays active. *)
LEMMA LowerHeld ==
    ASSUME Base, ~Calm, FramesOK, UNCHANGED downloads, Settled # {} => Settled' # {},
           \/ Staying' # {} \/ Staying = {}
           \/ \A k \in 2 .. Len(stack) - 1 : ~At(stack[k], "resume", "resumed")
    PROVE  LowerGood
<1>1. Len(stack) \in Nat \ {0}
  BY TopFacts DEF Base
<1> SUFFICES ASSUME NEW k \in 2 .. Len(stack)
             PROVE  FrameGood(stack[k], Len(stack) - k, ToSet(downloads'), Settled', Staying')
  BY DEF LowerGood
<1>2. FrameGood(stack[k], Len(stack) - k, ToSet(downloads), Settled, Staying)
  BY <1>1 DEF FramesOK
<1>3. Len(stack) - k > 0 => k \in 2 .. Len(stack) - 1
  BY <1>1
<1>4. ToSet(downloads') = ToSet(downloads)
  OBVIOUS
<1> QED BY <1>2, <1>3, <1>4 DEF FrameGood

(* The innermost function is the only one. *)
LEMMA LowerNone ==
    ASSUME Len(stack) = 1
    PROVE  LowerGood
BY DEF LowerGood

(* The innermost frame is one of them. *)
LEMMA FrameTop ==
    ASSUME Base, ~Calm, FramesOK
    PROVE  FrameGood(F, Len(stack) - 1, ToSet(downloads), Settled, Staying)
<1>1. Len(stack) \in Nat \ {0} /\ F = stack[1]
  BY TopFacts DEF Base
<1>2. 1 \in 1 .. Len(stack)
  BY <1>1
<1> QED BY <1>1, <1>2 DEF FramesOK

(* A frame that relies on nothing *)
LEMMA FrameFree ==
    ASSUME NEW f, NEW n, NEW L, NEW S, NEW W,
           f.fn # "finish" \/ n = 0, f.fn = "resume" => f.pc = "enter",
           f.fn = "state_cb" => f.pc = "enter", f.pc # "called"
    PROVE  FrameGood(f, n, L, S, W)
BY DEF FrameGood, At

(* The frames after a step of the innermost function, *)
LEMMA FramesGoes ==
    ASSUME Base, Base', ~Calm, LowerGood, NEW f, Goes(f),
           FrameGood(f, Len(stack) - 1, ToSet(downloads'), Settled', Staying')
    PROVE  FramesOK'
<1>1. Len(stack) \in Nat \ {0} /\ Len(stack') = Len(stack)
  BY TopFacts DEF Base, Goes
<1>2. stack'[1] = f
  BY <1>1 DEF Goes, Base, StackOK, F
<1> SUFFICES ASSUME NEW k \in 1 .. Len(stack')
             PROVE  FrameGood(stack'[k], Len(stack') - k, ToSet(downloads'), Settled', Staying')
  BY DEF FramesOK
<1>3. CASE k = 1
  BY <1>1, <1>2, <1>3
<1>4. CASE k # 1
  <2>1. k \in 2 .. Len(stack)
    BY <1>1, <1>4
  <2>2. stack'[k] = stack[k]
    BY <2>1 DEF Goes
  <2> QED BY <1>1, <2>1, <2>2 DEF LowerGood
<1> QED BY <1>3, <1>4

(* after a call, *)
LEMMA FramesCalls ==
    ASSUME Base, Base', ~Calm, LowerGood, NEW f, NEW g, Calls(g, f),
           FrameGood(f, Len(stack) - 1, ToSet(downloads'), Settled', Staying'),
           FrameGood(g, Len(stack), ToSet(downloads'), Settled', Staying')
    PROVE  FramesOK'
<1>1. Len(stack) \in Nat \ {0} /\ Len(stack') = Len(stack) + 1
  BY TopFacts DEF Base, Calls
<1>2. stack'[1] = g /\ stack'[2] = f
  BY <1>1 DEF Calls, Base, StackOK, F
<1> SUFFICES ASSUME NEW k \in 1 .. Len(stack')
             PROVE  FrameGood(stack'[k], Len(stack') - k, ToSet(downloads'), Settled', Staying')
  BY DEF FramesOK
<1>3. CASE k = 1
  <2>1. Len(stack') - 1 = Len(stack)
    BY <1>1
  <2> QED BY <1>2, <1>3, <2>1
<1>4. CASE k = 2
  <2>1. Len(stack') - 2 = Len(stack) - 1
    BY <1>1
  <2> QED BY <1>2, <1>4, <2>1
<1>5. CASE k # 1 /\ k # 2
  <2>1. k \in 3 .. Len(stack) + 1 /\ k - 1 \in 2 .. Len(stack)
        /\ Len(stack') - k = Len(stack) - (k - 1)
    BY <1>1, <1>5
  <2>2. stack'[k] = stack[k - 1]
    BY <2>1 DEF Calls
  <2>3. FrameGood(stack[k - 1], Len(stack) - (k - 1), ToSet(downloads'), Settled', Staying')
    BY <2>1 DEF LowerGood
  <2> QED BY <2>1, <2>2, <2>3
<1> QED BY <1>3, <1>4, <1>5

(* after a return, *)
LEMMA FramesReturns ==
    ASSUME Base, ~Calm, LowerGood, Returns
    PROVE  FramesOK'
<1>1. Len(stack) \in Nat \ {0} /\ Len(stack') = Len(stack) - 1
  BY TopFacts DEF Base, Returns
<1> SUFFICES ASSUME NEW k \in 1 .. Len(stack')
             PROVE  FrameGood(stack'[k], Len(stack') - k, ToSet(downloads'), Settled', Staying')
  BY DEF FramesOK
<1>2. k + 1 \in 2 .. Len(stack) /\ Len(stack') - k = Len(stack) - (k + 1)
  BY <1>1
<1>3. stack'[k] = stack[k + 1]
  BY DEF Returns
<1>4. FrameGood(stack[k + 1], Len(stack) - (k + 1), ToSet(downloads'), Settled', Staying')
  BY <1>2 DEF LowerGood
<1> QED BY <1>2, <1>3, <1>4

(* and after the last return *)
LEMMA FramesCalm ==
    ASSUME Calm'
    PROVE  FramesOK'
BY DEF FramesOK, Calm

(* The sets a frame relies on *)
LEMMA StayingFacts ==
    /\ (Calm \/ F.pc # "enter" \/ F.fn \notin {"queue", "pause"}) => Staying = ActiveSet
    /\ ~Calm /\ F.pc = "enter" /\ F.fn \in {"queue", "pause"} => Staying = ActiveSet \ {F.d}
BY DEF Staying

(* A step after which the innermost function is not at its beginning *)
LEMMA SetsAfter ==
    ASSUME ~Calm' => F'.pc # "enter"
    PROVE  Settled' = ActiveSet' /\ Staying' = ActiveSet'
BY DEF Settled, Staying, Pending

(* Both are active downloads. *)
LEMMA SetsFewer ==
    Settled \subseteq ActiveSet /\ Staying \subseteq ActiveSet
BY DEF Settled, Staying

(* The callback is called for the download that changed, instead of a return *)
LEMMA PlainChanged ==
    ASSUME Base, Base', ~Calm, LowerGood, Goes(Changed(F.d)),
           dl'[F.d].state \in EndStates => Len(stack) = 1
    PROVE  FramesOK' /\ TopPlain'
<1>1. /\ Changed(F.d).fn = "state_cb" /\ Changed(F.d).pc = "enter" /\ Changed(F.d).d = F.d
  BY DEF Changed, Frame
<1>2. ~Calm' /\ F' = Changed(F.d) /\ Len(stack') = Len(stack)
  BY DEF Goes
<1>3. FramesOK'
  BY <1>1, FrameFree, FramesGoes
<1>4. TopPlain'
  BY <1>1, <1>2 DEF TopPlain, Excused, At
<1> QED BY <1>3, <1>4

(* or before it goes on. *)
LEMMA PlainCallChanged ==
    ASSUME Base, Base', ~Calm, LowerGood, NEW f, Calls(Changed(F.d), f),
           dl'[F.d].state \notin EndStates,
           FrameGood(f, Len(stack) - 1, ToSet(downloads'), Settled', Staying')
    PROVE  FramesOK' /\ TopPlain'
<1>1. /\ Changed(F.d).fn = "state_cb" /\ Changed(F.d).pc = "enter" /\ Changed(F.d).d = F.d
  BY DEF Changed, Frame
<1>2. ~Calm' /\ F' = Changed(F.d)
  BY DEF Calls
<1>3. FramesOK'
  BY <1>1, FrameFree, FramesCalls
<1>4. TopPlain'
  BY <1>1, <1>2 DEF TopPlain, Excused, At
<1> QED BY <1>3, <1>4

(* A function returns that did not change anything. *)
LEMMA PlainReturns ==
    ASSUME Base, ~Calm, FramesOK, Returns, UNCHANGED <<dl, downloads>>,
           progress_timer' => ActiveSet # {},
           ~Calm' /\ stack[2].fn = "state_cb" => ActiveSet # {}
    PROVE  FramesOK' /\ TopPlain'
<1>1. ~Calm' => F' = stack[2] /\ F'.pc \notin {"enter", "notify"}
  BY DEF Returns, Callee, Waiting
<1>2. /\ ActiveSet' = ActiveSet /\ Settled' = ActiveSet /\ Staying' = ActiveSet
  BY <1>1, SetsSame, SetsAfter
<1>3. LowerGood
  BY <1>2, SetsFewer, LowerHeld
<1>4. FramesOK'
  BY <1>3, FramesReturns
<1>5. TopPlain'
  BY <1>1, <1>2 DEF TopPlain, At
<1> QED BY <1>4, <1>5

(* A step that activates and queues nothing, of a function that does not look
   at the timer *)
LEMMA TopKept ==
    ASSUME TopPlain, ~Excused, UNCHANGED progress_timer, ActiveSet' = ActiveSet,
           ~Calm' => F'.fn # "state_cb"
    PROVE  TopPlain'
BY DEF TopPlain, At

-----------------------------------------------------------------------------
(* The steps as long as no odd file was restarted *)

(* What the callbacks of resumed downloads show when one is to be queued: there is
   room for another. *)
LEMMA RoomForTwo ==
    ASSUME TypeOK, Base, ~Calm, active_downloads > MaxActive, F.d \in ActiveSet,
           ActiveSet \ {F.d} = {}
    PROVE  MaxActive = 0
<1>1. ActiveSet = {F.d} /\ MaxActive \in Nat
  BY DownManAssumption DEF DownManAssumption
<1>2. active_downloads = 1
  BY <1>1, FS_Singleton DEF active_downloads
<1> QED BY <1>1, <1>2

(* Who resumed a download that another function waits for had room for it. *)
LEMMA ResumedBelow ==
    ASSUME Base, ~Calm, NEW k \in 2 .. Len(stack) - 1, At(stack[k], "resume", "resumed")
    PROVE  ~stopped /\ MaxActive # 0
<1>1. Len(stack) \in Nat \ {0} /\ stack \in Seq(FrameType)
  BY TopFacts DEF Base
<1>2. k \in 1 .. Len(stack) - 1 /\ k + 1 \in 1 .. Len(stack)
  BY <1>1
<1>3. Callee(stack[k], stack[k + 1]) /\ FrameOK(stack[k + 1], dl, stopped)
  BY <1>2 DEF Base, StackOK
<1>4. stack[k + 1].fn = "state_cb" \/ stack[k + 1].fn = "go_on"
  BY <1>3 DEF Callee, At
<1>5. At(stack[k + 1], "state_cb", "resumed") \/ At(stack[k + 1], "go_on", "called")
  BY <1>3, <1>4 DEF Callee, Waiting, At
<1>6. /\ stack[k + 1].active < MaxActive /\ ~stopped
      /\ stack[k + 1].active \in Nat
  BY <1>3, <1>5 DEF FrameOK, FrameType, At
<1> QED BY <1>6, DownManAssumption DEF DownManAssumption

(* The callback counts, or has the download queued. *)
LEMMA PlainEnter ==
    ASSUME TypeOK, Base, LimitOK, Plain, CbEnter
    PROVE  FramesOK' /\ TopPlain'
<1>1. /\ ~Calm /\ F.fn = "state_cb" /\ F.pc = "enter" /\ F.d \in Downloads
      /\ UNCHANGED <<dl, downloads, progress_timer>>
  <2>1. ~Calm /\ F.fn = "state_cb" /\ F.pc = "enter"
    BY InFacts DEF CbEnter
  <2> QED BY <2>1, TopFacts DEF Base, CbEnter, man, progress
<1>2. /\ Base' /\ ActiveSet' = ActiveSet /\ Settled = ActiveSet \ {F.d} /\ Staying = ActiveSet
      /\ IF dl[F.d].state = "ACTIVE" /\ OverLimit(active_downloads)
         THEN Goes(Frame("queue", F.d))
         ELSE GoesTo("notify", active_downloads, F.at)
  BY <1>1, CbEnterBase, CountedEnough, SetsSame, PendingFacts, StayingFacts DEF Settled
<1>3. FramesOK /\ TopPlain
  BY DEF Plain
<1>4. CASE dl[F.d].state = "ACTIVE" /\ OverLimit(active_downloads)
  <2>1. Goes(Frame("queue", F.d)) /\ F.d \in ActiveSet
    BY <1>1, <1>2, <1>4 DEF ActiveSet, Base, ListOK, Listed
  <2>2. /\ Frame("queue", F.d).fn = "queue" /\ Frame("queue", F.d).pc = "enter"
        /\ Frame("queue", F.d).d = F.d
    BY DEF Frame
  <2>3. ~Calm' /\ F'.fn = "queue" /\ F'.pc = "enter" /\ F'.d = F.d
    BY <2>1, <2>2 DEF Goes
  <2>4. Settled' = Settled /\ Staying' = ActiveSet \ {F.d}
    BY <1>2, <2>3 DEF Settled, Pending, Staying
  <2>5. CASE Staying' # {}
    <3>1. LowerGood
      BY <1>1, <1>3, <2>4, <2>5, LowerHeld
    <3>2. FramesOK'
      BY <1>1, <1>2, <2>1, <2>2, <3>1, FrameFree, FramesGoes
    <3> QED BY <1>2, <2>1, <2>3, <3>2 DEF TopPlain, At
  <2>6. CASE Staying' = {}
    <3>1. ASSUME NEW k \in 2 .. Len(stack) - 1, At(stack[k], "resume", "resumed") PROVE FALSE
      BY <1>1, <1>4, <2>1, <2>4, <2>6, <3>1, ResumedBelow, RoomForTwo DEF OverLimit
    <3>2. LowerGood
      BY <1>1, <1>3, <2>4, <3>1, LowerHeld
    <3>3. FramesOK'
      BY <1>1, <1>2, <2>1, <2>2, <3>2, FrameFree, FramesGoes
    <3> QED BY <1>2, <2>1, <2>3, <3>3 DEF TopPlain, At
  <2> QED BY <2>5, <2>6
<1>5. CASE GoesTo("notify", active_downloads, F.at)
  <2>1. PICK f \in FrameType : /\ Goes(f) /\ f.fn = "state_cb" /\ f.d = F.d
                               /\ f.pc = "notify" /\ f.active = active_downloads
    BY <1>1, <1>5 DEF GoesTo
  <2>2. ~Calm' /\ F' = f /\ Len(stack') = Len(stack)
    BY <2>1 DEF Goes
  <2>3. Settled' = ActiveSet /\ Staying' = ActiveSet
    BY <1>2, <2>1, <2>2, SetsAfter
  <2>4. LowerGood
    BY <1>1, <1>2, <1>3, <2>3, LowerHeld
  <2>5. f.active > 0 => Settled' # {}
    BY <2>1, <2>3, FS_EmptySet DEF active_downloads
  <2>6. FrameGood(f, Len(stack) - 1, ToSet(downloads'), Settled', Staying')
    BY <2>1, <2>5 DEF FrameGood, At
  <2>7. FramesOK'
    BY <1>1, <1>2, <2>1, <2>4, <2>6, FramesGoes
  <2> QED BY <1>1, <1>3, <2>1, <2>2, <2>7 DEF TopPlain, Excused, At
<1> QED BY <1>2, <1>4, <1>5

(* It tells the owner. *)
LEMMA PlainNotify ==
    ASSUME TypeOK, Base, Plain, CbNotify \/ CbNotifyRemoves, aborted' = "no"
    PROVE  FramesOK' /\ TopPlain'
<1>1. /\ ~Calm /\ F.fn = "state_cb" /\ F.pc = "notify" /\ F.d \in Downloads
      /\ FramesOK /\ TopPlain
  <2>1. ~Calm /\ F.fn = "state_cb" /\ F.pc = "notify"
    BY DEF CbNotify, CbNotifyRemoves, In, F, Calm
  <2> QED BY <2>1, TopFacts DEF Base, Plain
<1>2. Base' /\ \E at : GoesTo(IF stopped THEN "timer" ELSE "scan", F.active, at)
  BY CbNotifyBase, CbNotifyRemovesBase
<1>3. PICK f \in FrameType : /\ Goes(f) /\ f.fn = "state_cb" /\ f.pc \in {"timer", "scan"}
                             /\ f.active = F.active
  BY <1>1, <1>2 DEF GoesTo
<1>4. ~Calm' /\ F' = f
  BY <1>3 DEF Goes
<1>5. Settled = ActiveSet /\ Staying = ActiveSet
  BY <1>1, PendingFacts, StayingFacts DEF Settled
<1>6. ActiveSet' = ActiveSet /\ (UNCHANGED downloads \/ Len(stack) = 1)
  <2>1. CASE CbNotify
    BY <2>1, SetsSame DEF CbNotify, man
  <2>2. CASE CbNotifyRemoves
    <3>1. dl[F.d].state \in EndStates /\ Drop(F.d) /\ Listed(F.d)
      BY <2>2, CbNotifyRemovesBase DEF CbNotifyRemoves
    <3>2. F.d \notin ActiveSet
      BY <3>1 DEF ActiveSet, EndStates
    <3>3. ActiveSet' = ActiveSet
      BY <1>1, <3>1, <3>2, SetsDrop DEF Base
    <3> QED BY <1>1, <3>1, <3>3 DEF TopPlain
  <2> QED BY <2>1, <2>2
<1>7. Settled' = Settled /\ Staying' = Staying
  BY <1>3, <1>4, <1>5, <1>6, SetsAfter
<1>8. LowerGood
  BY <1>1, <1>6, <1>7, LowerHeld, LowerNone
<1>9. FrameGood(f, Len(stack) - 1, ToSet(downloads'), Settled', Staying')
  <2>1. FrameGood(F, Len(stack) - 1, ToSet(downloads), Settled, Staying)
    BY <1>1, FrameTop
  <2> QED BY <1>1, <1>3, <1>7, <2>1 DEF FrameGood, At
<1>10. FramesOK'
  BY <1>1, <1>2, <1>3, <1>8, <1>9, FramesGoes
<1> QED BY <1>3, <1>4, <1>10 DEF TopPlain, Excused, At

(* The loop of the callback *)
LEMMA PlainLoop ==
    ASSUME TypeOK, Base, Plain, CbScan \/ CbResumed, aborted' = "no"
    PROVE  FramesOK' /\ TopPlain'
<1>1. /\ ~Calm /\ F.fn = "state_cb" /\ F.pc \in {"scan", "resumed"}
      /\ FramesOK /\ TopPlain /\ UNCHANGED <<dl, downloads>> /\ F \in FrameType
  <2>1. ~Calm /\ F.fn = "state_cb" /\ F.pc \in {"scan", "resumed"}
    BY DEF CbScan, CbResumed, In, F, Calm
  <2>2. UNCHANGED <<dl, downloads>>
    BY CbResumedBase DEF CbScan, man
  <2> QED BY <2>1, <2>2, TopFacts DEF Base, Plain
<1>2. Base' /\ ActiveSet' = ActiveSet /\ Settled = ActiveSet /\ Staying = ActiveSet
  <2>1. F.pc # "enter"
    BY <1>1
  <2>2. Base'
    BY CbScanBase, CbResumedBase
  <2> QED BY <1>1, <2>1, <2>2, PendingFacts, StayingFacts, SetsSame DEF Settled
<1>3. FrameGood(F, Len(stack) - 1, ToSet(downloads), Settled, Staying)
  BY <1>1, FrameTop
<1>4. F.active > 0 => ActiveSet # {}
  BY <1>1, <1>2, <1>3 DEF FrameGood
<1>5. ASSUME NEW pc \in {"scan", "timer"}, NEW n, NEW at, GoesTo(pc, n, at),
             n > 0 => ActiveSet # {}
      PROVE  FramesOK' /\ TopPlain'
  <2>1. PICK f \in FrameType : Goes(f) /\ f.fn = "state_cb" /\ f.pc = pc /\ f.active = n
    BY <1>1, <1>5 DEF GoesTo
  <2>2. ~Calm' /\ F' = f
    BY <2>1 DEF Goes
  <2>3. Settled' = ActiveSet /\ Staying' = ActiveSet
    BY <1>2, <2>1, <2>2, SetsAfter
  <2>4. LowerGood
    BY <1>1, <1>2, <2>3, LowerHeld
  <2>5. FrameGood(f, Len(stack) - 1, ToSet(downloads'), Settled', Staying')
    BY <1>5, <2>1, <2>3 DEF FrameGood, At
  <2>6. FramesOK'
    BY <1>1, <1>2, <2>1, <2>4, <2>5, FramesGoes
  <2> QED BY <2>1, <2>2, <2>6 DEF TopPlain, Excused, At
<1>6. CASE CbScan
  <2>1. IF F.active < MaxActive /\ F.at # Null
        THEN IF dl[F.at].state = "QUEUED"
             THEN Calls(Frame("resume", F.at), Then("resumed"))
             ELSE Listed(F.at) /\ GoesTo("scan", F.active, NextLink(F.at))
        ELSE GoesTo("timer", F.active, F.at)
    BY <1>6, CbScanBase
  <2>2. CASE /\ F.at # Null /\ dl[F.at].state = "QUEUED"
             /\ Calls(Frame("resume", F.at), Then("resumed"))
    <3> DEFINE g == Frame("resume", F.at)
               f == Then("resumed")
    <3>1. g.fn = "resume" /\ g.pc = "enter" /\ g.d = F.at
      BY DEF Frame
    <3>2. f.fn = "state_cb" /\ f.pc = "resumed" /\ f.at = F.at /\ f.active = F.active
      BY <1>1, PCs, ThenFacts
    <3>3. Calls(g, f)
      BY <2>2
    <3> HIDE DEF f, g
    <3>4. ~Calm' /\ F' = g
      BY <3>3 DEF Calls
    <3>5. Settled' = ActiveSet /\ Staying' = ActiveSet
      BY <1>2, <3>1, <3>4 DEF Settled, Pending, Staying
    <3>6. F.at \in ToSet(downloads)
      BY <1>1, <1>6, <2>2, InFacts DEF CbScan, TopFor, At
    <3>7. LowerGood
      BY <1>1, <1>2, <3>5, LowerHeld
    <3>8. FrameGood(f, Len(stack) - 1, ToSet(downloads'), Settled', Staying')
      BY <1>1, <1>4, <3>2, <3>5, <3>6 DEF FrameGood, At
    <3>9. FrameGood(g, Len(stack), ToSet(downloads'), Settled', Staying')
      BY <3>1, FrameFree
    <3>10. FramesOK'
      BY <1>1, <1>2, <3>3, <3>7, <3>8, <3>9, FramesCalls
    <3> QED BY <1>1, <2>2, <3>1, <3>4, <3>10 DEF TopPlain, Excused, At
  <2> QED BY <1>4, <1>5, <2>1, <2>2
<1>7. CASE CbResumed
  <2>1. At(F, "state_cb", "resumed")
    BY <1>7 DEF CbResumed, In, F, At
  <2>2. ActiveSet # {}
    BY <1>1, <1>2, <2>1 DEF TopPlain
  <2>3. GoesTo("scan", IF ret THEN F.active + 1 ELSE F.active, NextLink(F.at))
    BY <1>7, CbResumedBase
  <2> QED BY <1>5, <2>2, <2>3
<1> QED BY <1>6, <1>7

(* It looks at the progress timer and returns. *)
LEMMA PlainTimer ==
    ASSUME TypeOK, Base, Plain, CbTimer
    PROVE  FramesOK' /\ TopPlain'
<1>1. ~Calm /\ F.fn = "state_cb" /\ F.pc = "timer" /\ FramesOK /\ F \in FrameType
  <2>1. ~Calm /\ F.fn = "state_cb" /\ F.pc = "timer"
    BY InFacts DEF CbTimer
  <2> QED BY <2>1, TopFacts DEF Base, Plain
<1>2. Returns /\ UNCHANGED <<dl, downloads>> /\ (progress_timer' => F.active > 0)
  BY CbTimerBase DEF CbTimer, man
<1>3. F.active > 0 => ActiveSet # {}
  <2>1. FrameGood(F, Len(stack) - 1, ToSet(downloads), Settled, Staying)
    BY <1>1, FrameTop
  <2> QED BY <1>1, <2>1, SetsFewer DEF FrameGood
<1>4. ~Calm' => stack[2].fn # "state_cb"
  BY <1>1, <1>2 DEF Returns, Callee
<1> QED BY <1>1, <1>2, <1>3, <1>4, PlainReturns

(* What the manager calls in as_download.c *)
LEMMA PlainPause ==
    ASSUME TypeOK, Base, Plain, Pause \/ Queue \/ QueueFailed
    PROVE  FramesOK' /\ TopPlain'
<1>1. /\ ~Calm /\ F.fn \in {"pause", "queue"} /\ F.d \in Downloads /\ FramesOK /\ TopPlain
      /\ Base' /\ UNCHANGED <<downloads, progress_timer>> /\ F \in FrameType
  <2>1. ~Calm /\ F.fn \in {"pause", "queue"}
    BY DEF Pause, Queue, QueueFailed, In, F, Calm
  <2>2. UNCHANGED <<downloads, progress_timer>>
    BY DEF Pause, Queue, QueueFailed, man, progress
  <2> QED BY <2>1, <2>2, TopFacts, PauseBase, QueueBase, QueueFailedBase DEF Base, Plain
<1>2. ~Excused /\ (progress_timer => ActiveSet # {})
  BY <1>1 DEF Excused, TopPlain, At
<1>3. ASSUME Returns, UNCHANGED dl PROVE FramesOK' /\ TopPlain'
  <2>1. ~Calm' => stack[2].fn # "state_cb"
    BY <1>1, <1>3 DEF Returns, Callee
  <2> QED BY <1>1, <1>2, <1>3, <2>1, PlainReturns
<1>4. ASSUME F.pc = "enter", NEW st \in {"PAUSED", "QUEUED"}, SetState(F.d, st),
             dl[F.d].state # "free", Goes(Changed(F.d))
      PROVE  FramesOK' /\ TopPlain'
  <2>1. dl'[F.d].state = st /\ ActiveSet' = ActiveSet \ {F.d}
    BY <1>1, <1>4, StateNames, SetFacts, SetsSet DEF Base
  <2>2. Settled = ActiveSet \ {F.d} /\ Staying = ActiveSet \ {F.d}
    BY <1>1, <1>4, PendingFacts, StayingFacts DEF Settled
  <2>3. /\ ~Calm' /\ F'.fn = "state_cb" /\ F'.d = F.d
    BY <1>4 DEF Goes, Changed, Frame
  <2>4. Settled' = Settled /\ Staying' = Staying
    BY <2>1, <2>2, <2>3 DEF Settled, Pending, Staying
  <2>5. LowerGood
    BY <1>1, <2>4, LowerHeld
  <2>6. dl'[F.d].state \notin EndStates
    BY <2>1 DEF EndStates
  <2> QED BY <1>1, <1>4, <2>5, <2>6, PlainChanged
<1>5. CASE Pause
  <2>1. F.pc = "enter"
    BY <1>5, InFacts DEF Pause
  <2>2. IF dl[F.d].state \in {"ACTIVE", "QUEUED"}
        THEN SetState(F.d, "PAUSED") /\ Goes(Changed(F.d)) ELSE UNCHANGED dl /\ Returns
    BY <1>5, PauseBase
  <2>3. dl[F.d].state \in {"ACTIVE", "QUEUED"} => dl[F.d].state # "free"
    OBVIOUS
  <2> QED BY <1>3, <1>4, <2>1, <2>2, <2>3
<1>6. CASE Queue
  <2>1. F.fn = "queue" /\ F.pc = "enter"
    BY <1>6, InFacts DEF Queue
  <2>2. \/ UNCHANGED dl /\ Returns
        \/ /\ dl[F.d].state \in {"ACTIVE", "PAUSED"}
           /\ SetState(F.d, "QUEUED") /\ Goes(Changed(F.d))
        \/ UNCHANGED dl /\ Calls(Frame("pause", F.d), Then("failed"))
    BY <1>6, QueueBase
  <2>3. dl[F.d].state \in {"ACTIVE", "PAUSED"} => dl[F.d].state # "free"
    OBVIOUS
  <2>4. CASE UNCHANGED dl /\ Calls(Frame("pause", F.d), Then("failed"))
    <3> DEFINE g == Frame("pause", F.d)
               f == Then("failed")
    <3>1. g.fn = "pause" /\ g.pc = "enter" /\ g.d = F.d
      BY DEF Frame
    <3>2. f.fn = "queue" /\ f.pc = "failed"
      BY <1>1, <2>1, PCs, ThenFacts
    <3>3. Calls(g, f)
      BY <2>4
    <3> HIDE DEF f, g
    <3>4. ~Calm' /\ F' = g
      BY <3>3 DEF Calls
    <3>5. ActiveSet' = ActiveSet
      BY <1>1, <2>4, SetsSame
    <3>6. Settled' = ActiveSet \ {F.d} /\ Staying' = ActiveSet \ {F.d}
      BY <3>1, <3>4, <3>5 DEF Settled, Pending, Staying
    <3>7. Settled = ActiveSet \ {F.d} /\ Staying = ActiveSet \ {F.d}
      BY <1>1, <2>1, PendingFacts, StayingFacts DEF Settled
    <3>8. LowerGood
      BY <1>1, <3>6, <3>7, LowerHeld
    <3>9. /\ FrameGood(f, Len(stack) - 1, ToSet(downloads'), Settled', Staying')
          /\ FrameGood(g, Len(stack), ToSet(downloads'), Settled', Staying')
      BY <3>1, <3>2, FrameFree
    <3>10. FramesOK'
      BY <1>1, <3>3, <3>8, <3>9, FramesCalls
    <3>11. TopPlain'
      BY <1>1, <1>2, <3>1, <3>4, <3>5, TopKept
    <3> QED BY <3>10, <3>11
  <2> QED BY <1>3, <1>4, <2>1, <2>2, <2>3, <2>4
<1>7. CASE QueueFailed
  <2>1. Returns /\ UNCHANGED dl
    BY <1>7, QueueFailedBase DEF QueueFailed
  <2> QED BY <1>3, <2>1
<1> QED BY <1>5, <1>6, <1>7

(* A resumed download is active until its caller goes on. *)
LEMMA PlainResume ==
    ASSUME TypeOK, Base, Plain, Resume \/ Resumed \/ ResumeDone
    PROVE  FramesOK' /\ TopPlain'
<1>1. /\ ~Calm /\ F.fn = "resume" /\ F.d \in Downloads /\ FramesOK /\ TopPlain
      /\ Base' /\ UNCHANGED <<downloads, progress_timer>> /\ F \in FrameType
      /\ Len(stack) \in Nat \ {0}
  <2>1. ~Calm /\ F.fn = "resume"
    BY DEF Resume, Resumed, ResumeDone, In, F, Calm
  <2>2. UNCHANGED <<downloads, progress_timer>>
    BY DEF Resume, Resumed, ResumeDone, man, progress
  <2> QED BY <2>1, <2>2, TopFacts, ResumeBase, ResumedBase, ResumeDoneBase DEF Base, Plain
<1>2. FrameGood(F, Len(stack) - 1, ToSet(downloads), Settled, Staying)
  BY <1>1, FrameTop
<1>3. Settled = ActiveSet /\ Staying = ActiveSet
  BY <1>1, PendingFacts, StayingFacts DEF Settled
<1>4. CASE Resume
  <2>1. F.pc = "enter" /\ TopFor(F, dl, ToSet(downloads), Len(stack), Bottom.fn, ret)
    BY <1>4, InFacts DEF Resume
  <2>2. CASE /\ dl[F.d].state \in {"PAUSED", "QUEUED"} /\ SetState(F.d, "ACTIVE")
             /\ Calls(Changed(F.d), Then("resumed"))
    <3>1. /\ dl'[F.d].state = "ACTIVE" /\ ActiveSet' = ActiveSet \cup {F.d}
          /\ F.d \notin ActiveSet
      <4>1. dl[F.d].state # "free" /\ dl[F.d].state # "ACTIVE"
        BY <2>2
      <4> QED BY <1>1, <2>2, <4>1, StateNames, SetFacts, SetsSet DEF Base, ActiveSet
    <3>2. ~Calm' /\ F'.fn = "state_cb" /\ F'.pc = "enter" /\ F'.d = F.d
      BY <2>2 DEF Calls, Changed, Frame
    <3>3. Settled' = ActiveSet /\ Staying' = ActiveSet'
      BY <3>1, <3>2 DEF Settled, Pending, Staying
    <3>4. LowerGood
      BY <1>1, <1>3, <3>1, <3>3, LowerHeld
    <3>5. Then("resumed").fn = "resume" /\ Then("resumed").pc = "resumed"
      BY <1>1, PCs, ThenFacts
    <3>6. FrameGood(Then("resumed"), Len(stack) - 1, ToSet(downloads'), Settled', Staying')
      BY <3>1, <3>3, <3>5 DEF FrameGood, At
    <3>7. dl'[F.d].state \notin EndStates
      BY <3>1 DEF EndStates
    <3> QED BY <1>1, <2>2, <3>4, <3>6, <3>7, PlainCallChanged
  <2>3. CASE dl[F.d].state \notin {"PAUSED", "QUEUED"} /\ UNCHANGED dl /\ Returns
    <3>1. Len(stack) = 1 /\ ~Excused
      BY <1>1, <2>1, <2>3 DEF TopFor, Excused, At
    <3>2. Calm' /\ (progress_timer' => ActiveSet # {})
      BY <1>1, <2>3, <3>1 DEF Returns, TopPlain
    <3> QED BY <1>1, <2>3, <3>2, PlainReturns
  <2> QED BY <1>4, <2>2, <2>3, ResumeBase
<1>5. CASE Resumed
  <2>1. F.pc = "resumed" /\ UNCHANGED dl
    BY <1>5, InFacts DEF Resumed
  <2>2. Returns
    <3>1. ~dl[F.d].whole
      BY <1>1 DEF Plain
    <3> QED BY <1>5, <3>1, ResumedBase
  <2>3. ~Excused /\ (progress_timer' => ActiveSet # {})
    BY <1>1, <2>1 DEF Excused, TopPlain, At
  <2>4. ~Calm' => ActiveSet # {}
    <3>1. ~Calm' => Len(stack) - 1 > 0
      BY <1>1, <2>2 DEF Returns
    <3> QED BY <1>1, <1>2, <1>3, <2>1, <3>1 DEF FrameGood, At
  <2> QED BY <1>1, <2>1, <2>2, <2>3, <2>4, PlainReturns
<1>6. CASE ResumeDone
  <2>1. F.pc = "done"
    BY <1>6, InFacts DEF ResumeDone
  <2> QED BY <1>1, <1>2, <2>1 DEF FrameGood, At
<1> QED BY <1>4, <1>5, <1>6

(* Only an event finds a download complete. *)
LEMMA PlainFinish ==
    ASSUME TypeOK, Base, Plain, Finish \/ Verify
    PROVE  FramesOK' /\ TopPlain'
<1>1. /\ ~Calm /\ F.fn = "finish" /\ F.d \in Downloads /\ FramesOK /\ TopPlain
      /\ Base' /\ UNCHANGED <<downloads, progress_timer>> /\ F \in FrameType
      /\ Len(stack) \in Nat \ {0}
  <2>1. ~Calm /\ F.fn = "finish"
    BY DEF Finish, Verify, In, F, Calm
  <2>2. UNCHANGED <<downloads, progress_timer>>
    BY DEF Finish, Verify, man, progress
  <2> QED BY <2>1, <2>2, TopFacts, FinishBase, VerifyBase DEF Base, Plain
<1>2. Len(stack) = 1 /\ LowerGood
  <2>1. FrameGood(F, Len(stack) - 1, ToSet(downloads), Settled, Staying)
    BY <1>1, FrameTop
  <2>2. Len(stack) - 1 = 0
    BY <1>1, <2>1 DEF FrameGood
  <2> QED BY <1>1, <2>2, LowerNone
<1>3. CASE Finish
  <2>1. /\ SetState(F.d, "VERIFYING") /\ dl[F.d].state = "ACTIVE"
        /\ Calls(Changed(F.d), Then("verify"))
    BY <1>3, FinishBase
  <2>2. dl'[F.d].state \notin EndStates
    <3>1. dl'[F.d].state = "VERIFYING"
      BY <1>1, <2>1 DEF SetState, TypeOK
    <3> QED BY <3>1 DEF EndStates
  <2>3. Then("verify").fn = "finish" /\ Then("verify").pc = "verify"
    BY <1>1, PCs, ThenFacts
  <2>4. Len(stack) - 1 = 0
    BY <1>2
  <2>5. FrameGood(Then("verify"), Len(stack) - 1, ToSet(downloads'), Settled', Staying')
    BY <2>3, <2>4, FrameFree
  <2> QED BY <1>1, <1>2, <2>1, <2>2, <2>5, PlainCallChanged
<1>4. CASE Verify
  <2>1. CASE Goes(Changed(F.d))
    BY <1>1, <1>2, <2>1, PlainChanged
  <2>2. CASE UNCHANGED dl /\ Returns
    <3>1. Calm' /\ ~Excused
      BY <1>1, <1>2, <2>2 DEF Returns, Excused, At
    <3>2. progress_timer' => ActiveSet # {}
      BY <1>1, <3>1 DEF TopPlain
    <3> QED BY <1>1, <2>2, <3>1, <3>2, PlainReturns
  <2> QED BY <1>4, <2>1, <2>2, VerifyBase
<1> QED BY <1>3, <1>4

(* The functions that an event calls *)
LEMMA PlainOutermost ==
    ASSUME TypeOK, Base, Plain, TwinOK, odd = {}, aborted' = "no",
           Start \/ Started \/ Restart \/ Restarted \/ RestartIndex
    PROVE  FramesOK' /\ TopPlain'
<1>1. /\ ~Calm /\ F.fn \in {"start", "restart"} /\ F.d \in Downloads /\ FramesOK /\ TopPlain
      /\ UNCHANGED progress_timer /\ F \in FrameType /\ Len(stack) = 1 /\ Bottom = F
  <2>1. ~Calm /\ F.fn \in {"start", "restart"}
    BY DEF Start, Started, Restart, Restarted, RestartIndex, In, F, Calm
  <2>2. UNCHANGED progress_timer
    BY DEF Start, Started, Restart, Restarted, RestartIndex, progress, Crash
  <2> QED BY <2>1, <2>2, TopFacts DEF Base, Plain, Outermost
<1>2. ~Excused /\ LowerGood
  BY <1>1, LowerNone DEF Excused, At
<1>3. ASSUME Base', NEW pc \in {"started", "restarted"}, NEW st \in {"ACTIVE", "PAUSED"},
             SetState(F.d, st), Calls(Changed(F.d), Then(pc))
      PROVE  FramesOK' /\ TopPlain'
  <2>1. dl'[F.d].state = st
    BY <1>1, <1>3 DEF SetState, TypeOK
  <2>2. dl'[F.d].state \notin EndStates
    BY <2>1 DEF EndStates
  <2>3. Then(pc).fn = F.fn /\ Then(pc).pc = pc
    BY <1>1, PCs, ThenFacts
  <2>4. FrameGood(Then(pc), Len(stack) - 1, ToSet(downloads'), Settled', Staying')
    BY <1>1, <2>3, FrameFree
  <2> QED BY <1>1, <1>2, <1>3, <2>2, <2>4, PlainCallChanged
<1>4. ASSUME Base', ActiveSet' = ActiveSet, NEW f, Goes(f),
             f.fn \in {"start", "restart", "pause"}, f.pc # "called"
      PROVE  FramesOK' /\ TopPlain'
  <2>1. FrameGood(f, Len(stack) - 1, ToSet(downloads'), Settled', Staying')
    BY <1>4, FrameFree
  <2>2. FramesOK'
    BY <1>1, <1>2, <1>4, <2>1, FramesGoes
  <2>3. F'.fn # "state_cb"
    BY <1>4 DEF Goes
  <2> QED BY <1>1, <1>2, <1>4, <2>2, <2>3, TopKept
<1>5. ASSUME NEW pc \in {"started", "restarted", "index"}, GoesTo(pc, F.active, F.at),
             Base', UNCHANGED <<dl, downloads>>
      PROVE  FramesOK' /\ TopPlain'
  <2>1. PICK f : Goes(f) /\ f.fn = F.fn /\ f.pc = pc
    BY <1>5 DEF GoesTo
  <2> QED BY <1>1, <1>4, <1>5, <2>1, SetsSame
<1>6. ASSUME Calm', ActiveSet' = ActiveSet PROVE FramesOK' /\ TopPlain'
  BY <1>1, <1>2, <1>6, FramesCalm, TopKept
<1>7. ASSUME Calm', Listed(F.d), Drop(F.d), dl[F.d].state # "ACTIVE"
      PROVE  FramesOK' /\ TopPlain'
  <2>1. F.d \notin ActiveSet
    BY <1>7 DEF ActiveSet
  <2> QED BY <1>1, <1>6, <1>7, <2>1, SetsDrop DEF Base
<1>8. CASE Start
  <2>1. UNCHANGED downloads
    BY <1>8 DEF Start, man
  <2> QED BY <1>3, <1>5, <1>8, <2>1, StartBase
<1>9. CASE Restart
  <2>1. UNCHANGED downloads
    BY <1>9 DEF Restart, man
  <2> QED BY <1>3, <1>5, <1>9, <2>1, RestartBase
<1>10. CASE Started
  <2>1. CASE UNCHANGED <<dl, downloads>> /\ Calm'
    BY <1>6, <2>1, SetsSame
  <2>2. CASE UNCHANGED <<dl, downloads>> /\ Goes(Frame("pause", F.d))
    <3>1. Frame("pause", F.d).fn = "pause" /\ Frame("pause", F.d).pc = "enter"
      BY DEF Frame
    <3> QED BY <1>4, <1>10, <2>2, <3>1, SetsSame, StartedBase
  <2> QED BY <1>7, <1>10, <2>1, <2>2, StartedBase
<1>11. CASE Restarted
  <2>1. ~dl[F.d].whole
    BY <1>1 DEF Plain
  <2> QED BY <1>5, <1>7, <1>11, <2>1, RestartedBase
<1>12. CASE RestartIndex
  <2>1. index[dl[F.d].hash] = Null
    BY <1>1, <1>12, RestartIndexBase DEF TwinOK, RestartIndex, In, F
  <2> QED BY <1>6, <1>12, <2>1, RestartIndexBase, SetsSame
<1> QED BY <1>8, <1>9, <1>10, <1>11, <1>12

(* The loops over the list stay on links that are listed. *)
LEMMA PlainLoops ==
    ASSUME TypeOK, Base, Plain, aborted' = "no",
           StopNext \/ StopCalled \/ GoOnNext \/ GoOnCalled
    PROVE  FramesOK' /\ TopPlain'
<1>1. /\ ~Calm /\ F.fn \in {"stop_all", "go_on"} /\ FramesOK /\ TopPlain /\ Base'
      /\ UNCHANGED <<dl, downloads, progress_timer>> /\ F \in FrameType /\ Len(stack) = 1
  <2>1. ~Calm /\ F.fn \in {"stop_all", "go_on"}
    BY DEF StopNext, StopCalled, GoOnNext, GoOnCalled, In, F, Calm
  <2>2. UNCHANGED <<dl, downloads, progress_timer>>
    BY DEF StopNext, StopCalled, GoOnNext, GoOnCalled, man, progress, Crash
  <2>3. Base'
    BY StopNextBase, StopCalledBase, GoOnNextBase, GoOnCalledBase
  <2> QED BY <2>1, <2>2, <2>3, TopFacts DEF Base, Plain, Outermost
<1>2. ~Excused /\ LowerGood /\ ActiveSet' = ActiveSet
  BY <1>1, LowerNone, SetsSame DEF Excused, At
<1>3. ASSUME NEW fn \in {"queue", "resume"}, F.at \in ToSet(downloads),
             Calls(Frame(fn, F.at), Then("called"))
      PROVE  FramesOK' /\ TopPlain'
  <2> DEFINE g == Frame(fn, F.at)
             f == Then("called")
  <2>1. g.fn = fn /\ g.pc = "enter"
    BY DEF Frame
  <2>2. f.fn = F.fn /\ f.pc = "called" /\ f.at = F.at
    BY <1>1, PCs, ThenFacts
  <2>3. Calls(g, f)
    BY <1>3
  <2> HIDE DEF f, g
  <2>4. F'.fn # "state_cb"
    BY <2>1, <2>3 DEF Calls
  <2>5. FrameGood(f, Len(stack) - 1, ToSet(downloads'), Settled', Staying')
    BY <1>1, <1>3, <2>2 DEF FrameGood, At
  <2>6. FrameGood(g, Len(stack), ToSet(downloads'), Settled', Staying')
    BY <2>1, FrameFree
  <2>7. FramesOK'
    BY <1>1, <1>2, <2>3, <2>5, <2>6, FramesCalls
  <2> QED BY <1>1, <1>2, <2>4, <2>7, TopKept
<1>4. ASSUME NEW n, NEW at, GoesTo("enter", n, at) PROVE FramesOK' /\ TopPlain'
  <2>1. PICK f : Goes(f) /\ f.fn = F.fn /\ f.pc = "enter"
    BY <1>4 DEF GoesTo
  <2>2. FrameGood(f, Len(stack) - 1, ToSet(downloads'), Settled', Staying')
    BY <1>1, <2>1, FrameFree
  <2>3. FramesOK'
    BY <1>1, <1>2, <2>1, <2>2, FramesGoes
  <2>4. F'.fn # "state_cb"
    BY <1>1, <2>1 DEF Goes
  <2> QED BY <1>1, <1>2, <2>3, <2>4, TopKept
<1>5. ASSUME Calm' PROVE FramesOK' /\ TopPlain'
  BY <1>1, <1>2, <1>5, FramesCalm, TopKept
<1>6. CASE StopNext
  BY <1>3, <1>5, <1>6, StopNextBase
<1>7. CASE StopCalled
  BY <1>4, <1>7, StopCalledBase
<1>8. CASE GoOnNext
  BY <1>3, <1>4, <1>5, <1>8, GoOnNextBase
<1>9. CASE GoOnCalled
  BY <1>4, <1>9, GoOnCalledBase
<1> QED BY <1>6, <1>7, <1>8, <1>9

(* Nothing ends the program as long as no odd file was restarted. *)
LEMMA NoCrash ==
    ASSUME TypeOK, Base, Plain, progress_timer => progress_cb, Next, aborted = "no"
    PROVE  aborted' = "no"
<1>1. ASSUME ~Calm, At(F, "state_cb", "resumed") \/ F.pc = "called" PROVE Listed(F.at)
  <2>1. FrameGood(F, Len(stack) - 1, ToSet(downloads), Settled, Staying)
    BY <1>1, FrameTop DEF Plain
  <2> QED BY <1>1, <2>1 DEF FrameGood, Listed
<1>2. ASSUME ~Calm, F.fn = "restart" PROVE Listed(F.d)
  <2>1. Bottom = F
    BY <1>2, TopFacts DEF Base, Outermost
  <2> QED BY <1>2, <2>1 DEF Plain
<1>3. CASE CbNotifyRemoves
  <2>1. /\ ~Calm /\ F.fn = "state_cb" /\ F.pc = "notify" /\ dl[F.d].state \in EndStates
        /\ TopFor(F, dl, ToSet(downloads), Len(stack), Bottom.fn, ret)
    BY <1>3, InFacts DEF CbNotifyRemoves
  <2>2. Len(stack) = 1 /\ F.d \in Downloads /\ dl[F.d].state # "free"
    BY <2>1, TopFacts DEF Base, Plain, TopPlain, TopFor, At
  <2>3. ~Restarting(F.d)
    BY <2>1, <2>2, TopFacts DEF Base, Restarting
  <2>4. index[dl[F.d].hash] = F.d
    BY <2>2, <2>3 DEF Base, ListOK
  <2> QED BY <1>3, <2>4 DEF CbNotifyRemoves, F
<1>4. CASE CbResumed
  BY <1>1, <1>4 DEF CbResumed, In, F, Calm, At
<1>5. CASE StopCalled \/ GoOnCalled
  BY <1>1, <1>5 DEF StopCalled, GoOnCalled, In, F, Calm
<1>6. CASE Restarted \/ RestartIndex
  BY <1>2, <1>6 DEF Restarted, RestartIndex, In, F, Calm
<1>7. ASSUME NEW d \in Downloads, RemoveRequest(d) PROVE aborted' = "no"
  <2>1. ~Restarting(d) /\ Listed(d)
    BY <1>7 DEF RemoveRequest, Quiet, Restarting, Calm
  <2>2. index[dl[d].hash] = d
    BY <2>1 DEF Base, ListOK
  <2> QED BY <1>7, <2>2 DEF RemoveRequest
<1>8. CASE ProgressTimer
  <2>1. Calm /\ progress_timer
    BY <1>8 DEF ProgressTimer, Quiet, Calm
  <2>2. progress_cb /\ ActiveSet # {}
    BY <2>1 DEF Plain, TopPlain, Excused
  <2> QED BY <1>8, <2>2 DEF ProgressTimer
<1>9. UNCHANGED aborted \/ CbNotifyRemoves \/ CbResumed \/ Restarted \/ RestartIndex
      \/ StopCalled \/ GoOnCalled \/ ProgressTimer \/ \E d \in Downloads : RemoveRequest(d)
  BY DEF Next, Running, StateCb, Download, CbEnter, CbNotify, CbScan, CbTimer, Pause, Queue,
         QueueFailed, Resume, Resumed, ResumeDone, Finish, Verify, Start, Started, Restart,
         StopNext, GoOnNext, Event, StartResult, RestartFile, PauseRequest, ResumeRequest,
         CancelRequest, Whole, WriteFails, StopAll, GoOn, SetProgressCb
<1> QED BY <1>3, <1>4, <1>5, <1>6, <1>7, <1>8, <1>9

(* Every step of a function *)
LEMMA PlainRunning ==
    ASSUME TypeOK, Base, LimitOK, Plain, TwinOK, odd = {}, Running, aborted' = "no"
    PROVE  Plain'
<1>1. FramesOK' /\ TopPlain'
  BY PlainEnter, PlainNotify, PlainLoop, PlainTimer, PlainPause, PlainResume, PlainFinish,
     PlainOutermost, PlainLoops DEF Running, StateCb, Download
<1>2. \A d \in Downloads : ~dl'[d].whole
  BY ShrinksRunning DEF Plain, Shrinks
<1>3. ~Calm' /\ Bottom'.fn = "restart" => Bottom'.d \in ToSet(downloads')
  <2> SUFFICES ASSUME ~Calm', Bottom'.fn = "restart" PROVE Bottom'.d \in ToSet(downloads')
    OBVIOUS
  <2>1. ~Calm /\ Bottom.fn = "restart" /\ Bottom'.d = Bottom.d /\ Bottom.d \in ToSet(downloads)
    BY MovesRunning DEF Plain, Listed
  <2>2. CASE CbNotifyRemoves
    <3>1. ~Calm /\ F.fn = "state_cb" /\ F.pc = "notify" /\ dl[F.d].state \in EndStates
      BY <2>2 DEF CbNotifyRemoves, In, F, Calm
    <3>2. Bottom = F
      BY <3>1, TopFacts DEF Base, Plain, TopPlain
    <3> QED BY <2>1, <3>1, <3>2
  <2>3. CASE Started
    <3>1. ~Calm /\ F.fn = "start"
      BY <2>3 DEF Started, In, F, Calm
    <3>2. Bottom = F
      BY <3>1, TopFacts DEF Base, Outermost
    <3> QED BY <2>1, <3>1, <3>2
  <2>4. CASE Restarted
    <3>1. UNCHANGED downloads
      BY <2>4, RestartedBase
    <3> QED BY <2>1, <3>1
  <2>5. CASE RestartIndex
    BY <2>5, RestartIndexBase
  <2>6. UNCHANGED downloads \/ CbNotifyRemoves \/ Started \/ Restarted \/ RestartIndex
    BY DEF Running, StateCb, Download, CbEnter, CbNotify, CbScan, CbResumed, CbTimer, Pause,
           Queue, QueueFailed, Resume, Resumed, ResumeDone, Finish, Verify, Start, Restart,
           StopNext, StopCalled, GoOnNext, GoOnCalled, man, Crash
  <2>7. CASE UNCHANGED downloads
    BY <2>1, <2>7
  <2> QED BY <2>2, <2>3, <2>4, <2>5, <2>6, <2>7
<1> QED BY <1>1, <1>2, <1>3 DEF Plain, Listed

(* The events *)
LEMMA PlainBegins ==
    ASSUME Base', ~Calm', Len(stack') = 1, Bottom' = F', TopPlain',
           \A d \in Downloads : ~dl'[d].whole,
           F'.fn = "restart" => F'.d \in ToSet(downloads'),
           F'.pc = "enter"
    PROVE  Plain'
<1>1. FramesOK'
  <2> SUFFICES ASSUME NEW k \in 1 .. Len(stack')
               PROVE  FrameGood(stack'[k], Len(stack') - k, ToSet(downloads'), Settled', Staying')
    BY DEF FramesOK
  <2>1. k = 1 /\ Len(stack') - k = 0 /\ stack'[k] = F'
    BY DEF Bottom
  <2>2. FrameGood(F', 0, ToSet(downloads'), Settled', Staying')
    BY FrameFree
  <2> QED BY <2>1, <2>2
<1> QED BY <1>1 DEF Plain, Listed

(* A new download is not active yet. *)
LEMMA NewActive ==
    ASSUME TypeOK, Base, NEW h \in Hashes, NEW d \in Downloads, NEW whole \in BOOLEAN,
           StartResult(h, d) \/ RestartFile(h, d, whole)
    PROVE  /\ Base' /\ ~Calm' /\ Len(stack') = 1 /\ Bottom' = F'
           /\ ToSet(downloads') = {d} \cup ToSet(downloads) /\ ActiveSet' = ActiveSet
           /\ \A e \in Downloads : e # d => dl'[e] = dl[e]
<1>1. /\ Base' /\ ~Calm' /\ Len(stack') = 1 /\ Bottom' = F' /\ ~Listed(d)
      /\ ToSet(downloads') = {d} \cup ToSet(downloads)
      /\ dl'[d].state = "NEW" /\ \A e \in Downloads : e # d => dl'[e] = dl[e]
  BY NewBase
<1> QED BY <1>1, LinkFacts DEF ActiveSet, Listed

(* Every event *)
LEMMA PlainEvent ==
    ASSUME TypeOK, Base, Plain, Event, aborted' = "no", odd' = {}
    PROVE  Plain'
<1>0. Calm /\ TopPlain /\ (progress_timer => ActiveSet # {}) /\ \A d \in Downloads : ~dl[d].whole
  <2>1. Calm
    BY DEF Event, StartResult, RestartFile, PauseRequest, ResumeRequest, CancelRequest,
           RemoveRequest, Whole, WriteFails, StopAll, GoOn, ProgressTimer, SetProgressCb,
           Quiet, Calm
  <2> QED BY <2>1 DEF Plain, TopPlain, Excused
<1>1. ASSUME NEW h \in Hashes, NEW d \in Downloads, NEW whole \in BOOLEAN,
             StartResult(h, d) \/ RestartFile(h, d, whole)
      PROVE  Plain'
  <2>1. /\ Base' /\ ~Calm' /\ Len(stack') = 1 /\ Bottom' = F'
        /\ ToSet(downloads') = {d} \cup ToSet(downloads) /\ ActiveSet' = ActiveSet
        /\ \A e \in Downloads : e # d => dl'[e] = dl[e]
    BY <1>1, NewActive
  <2>2. /\ F'.fn \in {"start", "restart"} /\ F'.d = d /\ F'.pc = "enter"
        /\ ~dl'[d].whole
    <3>1. CASE F' = Frame("start", d) /\ ~dl'[d].whole
      BY <3>1 DEF Frame
    <3>2. CASE RestartFile(h, d, whole) /\ dl'[d].whole = whole /\ F' = Frame("restart", d)
      <4>1. whole => "whole" \in odd'
        BY <3>2 DEF RestartFile
      <4> QED BY <3>2, <4>1 DEF Frame
    <3> QED BY <1>1, <3>1, <3>2, NewBase
  <2>3. UNCHANGED progress_timer
    BY <1>1 DEF StartResult, RestartFile, progress
  <2>4. TopPlain'
    BY <1>0, <2>1, <2>2, <2>3 DEF TopPlain, At
  <2> QED BY <1>0, <2>1, <2>2, <2>4, PlainBegins
<1>2. ASSUME NEW d \in Downloads,
             PauseRequest(d) \/ ResumeRequest(d) \/ Whole(d) \/ WriteFails(d)
      PROVE  Plain'
  <2>1. PICK fn \in {"pause", "resume", "finish"} :
           /\ Begin(Frame(fn, d)) /\ (fn = "finish" => dl[d].state = "ACTIVE")
    BY <1>2 DEF PauseRequest, ResumeRequest, Whole, WriteFails, ActiveSet
  <2>2. Listed(d) /\ UNCHANGED <<dl, man, progress, odd, aborted>>
    BY <1>2 DEF PauseRequest, ResumeRequest, Whole, WriteFails, ActiveSet, Listed
  <2>3. Base' /\ ~Calm' /\ Len(stack') = 1 /\ F' = Frame(fn, d) /\ Bottom' = F'
    BY <1>0, <2>1, <2>2, BeginSame
  <2>4. F'.fn = fn /\ F'.pc = "enter"
    BY <2>3 DEF Frame
  <2>5. ActiveSet' = ActiveSet
    BY <2>2, SetsSame DEF man
  <2>6. TopPlain'
    BY <1>0, <2>2, <2>4, <2>5 DEF TopPlain, At, progress
  <2> QED BY <1>0, <2>2, <2>3, <2>4, <2>6, PlainBegins
<1>3. ASSUME NEW d \in Downloads, CancelRequest(d) PROVE Plain'
  <2>1. /\ Base' /\ ~Calm' /\ Len(stack') = 1 /\ F' = Changed(d) /\ Bottom' = F'
    BY <1>3, CancelBase
  <2>2. F'.fn = "state_cb" /\ F'.pc = "enter"
    BY <2>1 DEF Changed, Frame
  <2>3. TopPlain'
    BY <2>1, <2>2 DEF TopPlain, Excused, At
  <2>4. \A e \in Downloads : ~dl'[e].whole
    BY <1>0, <1>3 DEF CancelRequest, SetState, TypeOK
  <2> QED BY <2>1, <2>2, <2>3, <2>4, PlainBegins
<1>4. ASSUME Calm', ActiveSet' = ActiveSet, \A e \in Downloads : ~dl'[e].whole,
             progress_timer' => ActiveSet # {}
      PROVE  Plain'
  BY <1>4, FramesCalm DEF Plain, TopPlain
<1>5. ASSUME NEW d \in Downloads, RemoveRequest(d) PROVE Plain'
  <2>1. /\ Calm' /\ Listed(d) /\ Drop(d) /\ UNCHANGED progress
        /\ dl[d].state \in EndStates \cup {"NEW"}
    BY <1>5, RemoveBase
  <2>2. d \notin ActiveSet
    BY <2>1 DEF ActiveSet, EndStates
  <2>3. ActiveSet' = ActiveSet
    BY <2>1, <2>2, SetsDrop DEF Base
  <2>4. \A e \in Downloads : ~dl'[e].whole
    BY <1>0, <2>1, DropFacts DEF Base
  <2> QED BY <1>0, <1>4, <2>1, <2>3, <2>4 DEF progress
<1>6. CASE StopAll \/ GoOn
  <2>1. /\ Base' /\ ~Calm' /\ Len(stack') = 1 /\ Bottom' = F' /\ F'.pc = "enter"
        /\ F'.fn \in {"stop_all", "go_on"} /\ UNCHANGED <<dl, downloads, progress_timer>>
    BY <1>6, LoopBegins DEF progress
  <2>2. TopPlain'
    BY <1>0, <2>1, SetsSame DEF TopPlain, At
  <2> QED BY <1>0, <2>1, <2>2, PlainBegins
<1>7. CASE ProgressTimer \/ \E cb \in BOOLEAN : SetProgressCb(cb)
  <2>1. UNCHANGED <<dl, downloads, stack>> /\ (progress_timer' => ActiveSet # {})
    BY <1>0, <1>7 DEF ProgressTimer, SetProgressCb, man, progress
  <2> QED BY <1>0, <1>4, <2>1, SetsSame DEF Calm
<1> QED BY <1>1, <1>2, <1>3, <1>4, <1>5, <1>6, <1>7 DEF Event

(* What is known of the files that were restarted is not forgotten. *)
LEMMA OddKept ==
    ASSUME Next
    PROVE  odd \subseteq odd'
BY DEF Next, Running, StateCb, Download, CbEnter, CbNotify, CbNotifyRemoves, CbScan,
       CbResumed, CbTimer, Pause, Queue, QueueFailed, Resume, Resumed, ResumeDone, Finish,
       Verify, Start, Started, Restart, Restarted, RestartIndex, StopNext, StopCalled,
       GoOnNext, GoOnCalled, Event, StartResult, RestartFile, PauseRequest, ResumeRequest,
       CancelRequest, RemoveRequest, Whole, WriteFails, StopAll, GoOn, ProgressTimer,
       SetProgressCb, Crash

(* Together *)
LEMMA ExtraNext ==
    ASSUME TypeOK, Base, LimitOK, Extra, Next, aborted = "no", aborted' = "no"
    PROVE  Extra'
<1>1. progress_timer' => progress_cb'
  <2>1. CASE CbTimer
    BY <2>1 DEF CbTimer, Extra
  <2>2. CASE \E cb \in BOOLEAN : SetProgressCb(cb)
    BY <2>2 DEF SetProgressCb
  <2>3. UNCHANGED progress \/ CbTimer \/ \E cb \in BOOLEAN : SetProgressCb(cb)
    BY DEF Next, Running, StateCb, Download, CbEnter, CbNotify, CbNotifyRemoves, CbScan,
           CbResumed, Pause, Queue, QueueFailed, Resume, Resumed, ResumeDone, Finish, Verify,
           Start, Started, Restart, Restarted, RestartIndex, StopNext, StopCalled, GoOnNext,
           GoOnCalled, Event, StartResult, RestartFile, PauseRequest, ResumeRequest,
           CancelRequest, RemoveRequest, Whole, WriteFails, StopAll, GoOn, ProgressTimer, Crash
  <2> QED BY <2>1, <2>2, <2>3 DEF Extra, progress
<1>2. TwinOK'
  BY TwinRunning, TwinEvent DEF Next, Extra
<1>3. SlotsOK'
  BY SlotsCb, SlotsDownload, SlotsOutermost, SlotsLoops, SlotsEvent DEF Next, Running, Extra
<1>4. odd \subseteq odd'
  BY OddKept
<1>5. odd' = {} => Plain'
  <2>1. odd' = {} => odd = {} /\ Plain /\ TwinOK
    BY <1>4 DEF Extra
  <2> QED BY <2>1, PlainRunning, PlainEvent DEF Next
<1> QED BY <1>1, <1>2, <1>3, <1>5 DEF Extra

(* The inductive invariant.  What follows a crash is not described. *)
Inv ==
    /\ TypeOK /\ OnlyOddFilesHurt
    /\ aborted = "no" => Base /\ LimitOK /\ Extra

(* The invariant holds in every reachable state. *)
THEOREM Inductive == Spec => []Inv
<1>1. Init => Inv
  <2> SUFFICES ASSUME Init PROVE Inv
    OBVIOUS
  <2>1. /\ Calm /\ downloads = <<>> /\ ToSet(downloads) = {} /\ ~stopped
        /\ dl = [d \in Downloads |-> Freed] /\ index = [h \in Hashes |-> Null]
    BY DEF Init, Calm, ToSet
  <2>2. TypeOK
    <3>1. Freed \in [state : States, hash : Hashes \cup {Null}, whole : BOOLEAN]
      BY DEF Freed, States
    <3> HIDE DEF Freed
    <3>2. stack \in Seq(FrameType) /\ downloads \in Seq(Downloads)
      BY DEF Init
    <3> QED BY <2>1, <3>1, <3>2 DEF Init, TypeOK
  <2>3. StackOK /\ TopOK
    BY <2>1 DEF StackOK, TopOK, Calm
  <2>4. ListOK
    BY <2>1 DEF ListOK, Listed, IsInjective, Freed
  <2>5. ActiveSet = {} /\ Settled = {}
    BY <2>1 DEF ActiveSet, Settled
  <2>6. LimitOK
    BY <2>1, <2>5, FS_EmptySet, DownManAssumption DEF LimitOK, DownManAssumption
  <2>7. Extra
    <3>1. QueuedSet = {} /\ ~progress_timer /\ \A d \in Downloads : ~dl[d].whole
      BY <2>1 DEF QueuedSet, Init, Freed
    <3>2. FramesOK /\ TopPlain
      BY <2>1, <3>1 DEF FramesOK, TopPlain, Calm
    <3> QED BY <2>1, <3>1, <3>2 DEF Extra, TwinOK, SlotsOK, Full, Plain
  <2>8. OnlyOddFilesHurt
    BY DEF Init, OnlyOddFilesHurt
  <2> QED BY <2>2, <2>3, <2>4, <2>6, <2>7, <2>8 DEF Inv, Base
<1>2. Inv /\ [Next]_vars => Inv'
  <2> SUFFICES ASSUME Inv, [Next]_vars PROVE Inv'
    OBVIOUS
  <2>1. CASE UNCHANGED vars
    <3>1. UNCHANGED <<dl, downloads, index, stopped, stack, ret, odd, aborted>> /\ TypeOK'
      BY <2>1 DEF vars, Inv, TypeOK
    <3>2. Calm' = Calm /\ F' = F /\ Bottom' = Bottom
      BY <3>1 DEF Calm, F, Bottom
    <3>3. StackOK' = StackOK /\ TopOK' = TopOK
      BY <3>1, <3>2 DEF StackOK, TopOK
    <3>4. ListOK' = ListOK
      BY <3>1, <3>2 DEF ListOK, Listed, Restarting
    <3>5. Base' = Base
      BY <3>3, <3>4 DEF Base
    <3>6. Settled' = Settled /\ ActiveSet' = ActiveSet /\ Stopping' = Stopping
      BY <3>1, <3>2 DEF Settled, Pending, ActiveSet, Stopping, AtOrAfter, After
    <3>7. LimitOK' = LimitOK
      BY <3>1, <3>2, <3>6 DEF LimitOK, AtOrAfter, After
    <3>8. /\ QueuedSet' = QueuedSet /\ Full' = Full /\ UNCHANGED progress
          /\ Staying' = Staying /\ Excused' = Excused
      <4>1. QueuedSet' = QueuedSet
        BY <3>1, SetsSame
      <4>2. Full' = Full
        BY <3>6, <4>1 DEF Full
      <4>3. Staying' = Staying /\ Excused' = Excused
        BY <3>1, <3>2, <3>6 DEF Staying, Excused
      <4> QED BY <2>1, <4>1, <4>2, <4>3 DEF vars, progress
    <3>9. FramesOK' = FramesOK /\ TopPlain' = TopPlain
      BY <3>1, <3>2, <3>6, <3>8 DEF FramesOK, TopPlain, progress
    <3>10. Plain' = Plain /\ TwinOK' = TwinOK
      BY <3>1, <3>2, <3>9 DEF Plain, TwinOK, Listed
    <3>11. Looking' = Looking
      BY <3>1, <3>2, <3>6, <3>8 DEF Looking, Scanned, AtOrAfter
    <3>12. Extra' = Extra
      BY <3>1, <3>2, <3>6, <3>8, <3>10, <3>11 DEF Extra, SlotsOK, progress
    <3>13. OnlyOddFilesHurt' = OnlyOddFilesHurt
      BY <3>1 DEF OnlyOddFilesHurt
    <3> QED BY <3>1, <3>5, <3>7, <3>12, <3>13 DEF Inv
  <2>2. CASE Next
    <3>1. aborted = "no"
      BY <2>2 DEF Next, Running, StateCb, Download, CbEnter, CbNotify, CbNotifyRemoves, CbScan,
                  CbResumed, CbTimer, Pause, Queue, QueueFailed, Resume, Resumed, ResumeDone,
                  Finish, Verify, Start, Started, Restart, Restarted, RestartIndex, StopNext,
                  StopCalled, GoOnNext, GoOnCalled, In, Event, StartResult, RestartFile,
                  PauseRequest, ResumeRequest, CancelRequest, RemoveRequest, Whole, WriteFails,
                  StopAll, GoOn, ProgressTimer, SetProgressCb, Quiet
    <3>2. TypeOK /\ Base /\ LimitOK /\ Extra
      BY <3>1 DEF Inv
    <3>3. CASE aborted' = "no"
      <4>1. TypeOK' /\ Base' /\ LimitOK'
        BY <2>2, <3>2, <3>3, LimitRunning, LimitEvent DEF Next
      <4>2. Extra'
        BY <2>2, <3>1, <3>2, <3>3, ExtraNext
      <4> QED BY <3>3, <4>1, <4>2 DEF Inv, OnlyOddFilesHurt
    <3>4. CASE aborted' # "no"
      <4>1. TypeOK'
        BY <2>2, <3>1, <3>2, <3>4, CrashType
      <4>2. odd # {}
        BY <2>2, <3>1, <3>2, <3>4, NoCrash DEF Extra
      <4>3. odd' # {}
        BY <2>2, <4>2, OddKept
      <4> QED BY <3>4, <4>1, <4>3 DEF Inv, OnlyOddFilesHurt
    <3> QED BY <3>3, <3>4
  <2> QED BY <2>1, <2>2
<1> QED BY <1>1, <1>2, PTL DEF Spec

(* Between events no more downloads are active than AS_DOWNLOAD_MAX_ACTIVE, and
   none while the manager is stopped. *)
THEOREM LimitSafe == Spec => []LimitHeld
<1>1. Inv => LimitHeld
  <2> SUFFICES ASSUME Inv, Quiet
               PROVE  active_downloads <= IF stopped THEN 0 ELSE MaxActive
    BY DEF LimitHeld
  <2>1. Calm /\ LimitOK /\ ~Stopping
    BY DEF Inv, Quiet, Calm, Stopping
  <2>2. Settled = ActiveSet
    BY <2>1, PendingFacts DEF Settled
  <2>3. stopped => active_downloads = 0
    BY <2>1, <2>2, FS_EmptySet DEF LimitOK, active_downloads
  <2>4. active_downloads <= MaxActive
    BY <2>1, <2>2 DEF LimitOK, active_downloads
  <2> QED BY <2>3, <2>4
<1> QED BY <1>1, Inductive, PTL

(* Between events list and hash index hold the same downloads. *)
THEOREM IndexSafe == Spec => []IndexConsistent
<1>1. Inv => IndexConsistent
  <2> SUFFICES ASSUME Inv PROVE IndexConsistent
    OBVIOUS
  <2>1. TypeOK
    BY DEF Inv
  <2>2. ASSUME Quiet
        PROVE  /\ \A d \in ToSet(downloads) :
                     dl[d].state # "free" /\ index[dl[d].hash] = d
               /\ \A h \in Hashes : index[h] # Null => Listed(index[h])
               /\ IsInjective(downloads)
    <3>1. ListOK /\ \A d : ~Restarting(d)
      BY <2>2 DEF Inv, Base, Quiet, Calm, Restarting
    <3>2. ToSet(downloads) \subseteq Downloads
      BY <2>1, LinkFacts
    <3> QED BY <3>1, <3>2 DEF ListOK, Listed
  <2> QED BY <2>1, <2>2 DEF IndexConsistent
<1> QED BY <1>1, Inductive, PTL

(* Between events a download waits in the queue only while all slots are taken, as
   long as no file was restarted that is being downloaded already. *)
THEOREM SlotsSafe == Spec => []SlotsUsed
<1>1. Inv => SlotsUsed
  <2> SUFFICES ASSUME Inv, Quiet, ~stopped, "twin" \notin odd,
                      NEW d \in ToSet(downloads), dl[d].state = "QUEUED"
               PROVE  active_downloads >= MaxActive
    BY DEF SlotsUsed
  <2>1. Calm /\ SlotsOK
    BY DEF Inv, Extra, Quiet, Calm
  <2>2. Full
    BY <2>1 DEF SlotsOK, Looking
  <2>3. d \in QueuedSet
    BY DEF QueuedSet
  <2> QED BY <2>2, <2>3 DEF Full, active_downloads
<1> QED BY <1>1, Inductive, PTL

(* Nothing is used after it was freed and no assert () fails, as long as the files
   restarted miss some data and have hashes of their own. *)
THEOREM HurtSafe == Spec => []OnlyOddFilesHurt
<1>1. Inv => OnlyOddFilesHurt
  BY DEF Inv
<1> QED BY <1>1, Inductive, PTL
=============================================================================
