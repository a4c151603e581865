-------------------------- MODULE FrameLoopProofs --------------------------
(***************************************************************************)
(* What FrameLoop keeps for swap chains of any number of images.           *)
(***************************************************************************)
EXTENDS FrameLoop, FiniteSetTheorems, TLAPS

\* A submission that is outstanding has its fence unsignalled, and no two of them
\* are of one frame; the frame about to be recorded is of none of them.  There are
\* none before the first frame.
FencesInv ==
    /\ \A k \in DOMAIN queue : ~fence[queue[k].frame]
    /\ \A j, k \in DOMAIN queue : queue[j].frame = queue[k].frame => j = k
    /\ pc = "start" => queue = <<>>
    /\ pc = "record" => /\ ~fence[frame]
                        /\ \A k \in DOMAIN queue : queue[k].frame # frame

\* What the program holds of the swap chain at each place of the loop, as long as
\* the swap chain is not to be rebuilt.
HeldInv ==
    /\ ~rebuild /\ pc \in {"start", "poll", "resize", "main", "acquire"} =>
           signalled = {} /\ \A i \in Index : image[i] = "free"
    /\ pc \in {"fence", "record"} =>
           /\ ~rebuild /\ signalled = {sem}
           /\ image[frame] = "acquired"
           /\ \A i \in Index \ {frame} : image[i] = "free"
    /\ ~rebuild /\ pc = "present" =>
           /\ signalled = {}
           /\ image[frame] = "drawn"
           /\ \A i \in Index \ {frame} : image[i] = "free"
    /\ pc = "main" => ~(rebuild /\ area)
    /\ pc \in {"start", "acquire"} => ~rebuild

\* The set of semaphores that was in use d frames ago.
Ago(d) == IF sem >= d THEN sem - d ELSE sem - d + ImageCount

\* The outstanding submissions used the sets just before the current one, and
\* there are no more of them than images.
SetsInv ==
    ~rebuild /\ pc \notin Over =>
        /\ Len(queue) <= ImageCount
        /\ \A k \in DOMAIN queue :
               queue[k].sem = Ago(IF pc = "present" THEN Len(queue) - k
                                                    ELSE Len(queue) - k + 1)

\* The inductive invariant.
IInv == TypeOK /\ FencesInv /\ HeldInv /\ SetsInv

-----------------------------------------------------------------------------
(* Lemmas.                                                                   *)

\* The index after the last set is the first (GuiApp.cpp:329).
LEMMA NextSet ==
    ASSUME NEW x \in Index
    PROVE  (x + 1) % ImageCount = IF x + 1 = ImageCount THEN 0 ELSE x + 1
BY ImageCountAssumption, SMT DEF Index

\* A sequence, element by element.
LEMMA SeqFacts ==
    ASSUME NEW S, NEW q \in Seq(S)
    PROVE  /\ Len(q) \in Nat /\ DOMAIN q = 1 .. Len(q)
           /\ \A k \in 1 .. Len(q) : q[k] \in S
OBVIOUS

\* What is left of a queue of submissions when the oldest completes.
LEMMA TailFacts ==
    ASSUME NEW S, NEW q \in Seq(S), q # <<>>
    PROVE  /\ Tail(q) \in Seq(S) /\ Head(q) \in S /\ Head(q) = q[1]
           /\ Len(q) \in Nat /\ Len(q) >= 1 /\ 1 \in DOMAIN q
           /\ Len(Tail(q)) = Len(q) - 1
           /\ \A k \in DOMAIN Tail(q) :
                  k + 1 \in DOMAIN q /\ k + 1 # 1 /\ Tail(q)[k] = q[k + 1]
OBVIOUS

\* A queue of submissions with one more at its end.
LEMMA AppendFacts ==
    ASSUME NEW S, NEW q \in Seq(S), NEW e \in S
    PROVE  /\ Append(q, e) \in Seq(S)
           /\ Len(q) \in Nat /\ Len(Append(q, e)) = Len(q) + 1
           /\ Append(q, e)[Len(q) + 1] = e
           /\ \A k \in DOMAIN Append(q, e) :
                  \/ k \in DOMAIN q /\ k # Len(q) + 1 /\ Append(q, e)[k] = q[k]
                  \/ k = Len(q) + 1 /\ k \notin DOMAIN q
OBVIOUS

\* When a frame is about to be recorded, fewer submissions are outstanding than
\* there are images: they and it are of different images.
LEMMA RoomForOne ==
    ASSUME TypeOK, FencesInv, pc = "record"
    PROVE  Len(queue) < ImageCount
<1> DEFINE n == Len(queue)
           f == [k \in 1 .. n + 1 |-> IF k = n + 1 THEN frame ELSE queue[k].frame]
<1>1. /\ n \in Nat /\ DOMAIN queue = 1 .. n /\ frame \in Index
      /\ \A k \in 1 .. n : queue[k].frame \in Index
  <2>1. queue \in Seq([frame : Index, sem : Index]) /\ frame \in Index
    BY DEF TypeOK
  <2>2. /\ n \in Nat /\ DOMAIN queue = 1 .. n
        /\ \A k \in 1 .. n : queue[k] \in [frame : Index, sem : Index]
    BY <2>1, SeqFacts
  <2> QED
    BY <2>1, <2>2
<1>2. f \in [1 .. n + 1 -> Index]
  BY <1>1
<1>3. ASSUME NEW j \in 1 .. n + 1, NEW k \in 1 .. n + 1, f[j] = f[k]
      PROVE  j = k
  BY <1>1, <1>3 DEF FencesInv
<1>4. /\ IsFiniteSet(1 .. n + 1) /\ Cardinality(1 .. n + 1) = n + 1
      /\ IsFiniteSet(Index) /\ Cardinality(Index) = ImageCount
  <2>1. 1 \in Int /\ n + 1 \in Int /\ 0 \in Int /\ ImageCount - 1 \in Int
    BY <1>1, ImageCountAssumption
  <2> QED
    BY <1>1, <2>1, FS_Interval, ImageCountAssumption DEF Index
<1>5. ~(ImageCount < n + 1)
  <2> SUFFICES ASSUME ImageCount < n + 1
               PROVE  FALSE
    OBVIOUS
  <2>1. \E j, k \in 1 .. n + 1 : j # k /\ f[j] = f[k]
    <3> HIDE DEF n, f
    <3> QED
      BY <1>2, <1>4, FS_PigeonHole
  <2> QED
    BY <1>3, <2>1
<1> QED
  BY <1>1, <1>5, ImageCountAssumption

-----------------------------------------------------------------------------
(* The inductive invariant.                                                  *)

\* The invariant holds when the program starts.
LEMMA InitInv == Init => IInv
<1> SUFFICES ASSUME Init PROVE IInv
  OBVIOUS
<1>1. 0 \in Index
  BY ImageCountAssumption DEF Index
<1>2. TypeOK
  BY <1>1 DEF Init, TypeOK
<1>3. FencesInv /\ HeldInv
  BY DEF Init, FencesInv, HeldInv
<1>4. SetsInv
  BY ImageCountAssumption DEF Init, SetsInv
<1> QED
  BY <1>2, <1>3, <1>4 DEF IInv

\* Every step of the loop, of the driver and of the GPU keeps the invariant.
LEMMA StepInv == IInv /\ [Next]_vars => IInv'
<1> SUFFICES ASSUME IInv, [Next]_vars PROVE IInv'
  OBVIOUS
<1> USE DEF IInv
<1>0. /\ ImageCount \in Nat /\ ImageCount >= 2 /\ 0 \in Index
  BY ImageCountAssumption DEF Index
<1>1. CASE InitGui
  <2>1. TypeOK'
    BY <1>0, <1>1 DEF TypeOK, InitGui, CreateWindow, window, swapchain, Over
  <2>2. FencesInv'
    BY <1>1 DEF FencesInv, TypeOK, InitGui, CreateWindow, swapchain
  <2>3. HeldInv'
    BY <1>1 DEF HeldInv, TypeOK, InitGui, CreateWindow, window, swapchain
  <2>4. SetsInv'
    BY <1>0, <1>1 DEF SetsInv, Ago, Over, InitGui, CreateWindow, swapchain
  <2> QED
    BY <2>1, <2>2, <2>3, <2>4
<1>2. CASE Abort
  <2>1. TypeOK'
    BY <1>0, <1>2 DEF TypeOK, Abort, window, swapchain, Over
  <2>2. FencesInv'
    BY <1>2 DEF FencesInv, TypeOK, Abort, swapchain
  <2>3. HeldInv'
    BY <1>2 DEF HeldInv, TypeOK, Abort, window, swapchain
  <2>4. SetsInv'
    BY <1>0, <1>2 DEF SetsInv, Ago, Over, Abort, swapchain
  <2> QED
    BY <2>1, <2>2, <2>3, <2>4
<1>3. CASE Poll
  <2>1. TypeOK'
    BY <1>0, <1>3 DEF TypeOK, Poll, window, swapchain, Over
  <2>2. FencesInv'
    BY <1>3 DEF FencesInv, TypeOK, Poll, swapchain
  <2>3. HeldInv'
    BY <1>3 DEF HeldInv, TypeOK, Poll, window, swapchain
  <2>4. SetsInv'
    BY <1>0, <1>3 DEF SetsInv, Ago, Over, Poll, swapchain
  <2> QED
    BY <2>1, <2>2, <2>3, <2>4
<1>4. CASE LeaveLoop
  <2>1. TypeOK'
    BY <1>0, <1>4 DEF TypeOK, LeaveLoop, window, swapchain, Over
  <2>2. FencesInv'
    BY <1>4 DEF FencesInv, TypeOK, LeaveLoop, swapchain
  <2>3. HeldInv'
    BY <1>4 DEF HeldInv, TypeOK, LeaveLoop, window, swapchain
  <2>4. SetsInv'
    BY <1>0, <1>4 DEF SetsInv, Ago, Over, LeaveLoop, swapchain
  <2> QED
    BY <2>1, <2>2, <2>3, <2>4
<1>5. CASE Rebuild
  <2>1. TypeOK'
    BY <1>0, <1>5 DEF TypeOK, Rebuild, CreateWindow, window, swapchain, Over
  <2>2. FencesInv'
    BY <1>5 DEF FencesInv, TypeOK, Rebuild, CreateWindow, swapchain
  <2>3. HeldInv'
    BY <1>5 DEF HeldInv, TypeOK, Rebuild, CreateWindow, window, swapchain
  <2>4. SetsInv'
    BY <1>0, <1>5 DEF SetsInv, Ago, Over, Rebuild, CreateWindow, swapchain
  <2> QED
    BY <2>1, <2>2, <2>3, <2>4
<1>6. CASE NoRebuild
  <2>1. TypeOK'
    BY <1>0, <1>6 DEF TypeOK, NoRebuild, window, swapchain, Over
  <2>2. FencesInv'
    BY <1>6 DEF FencesInv, TypeOK, NoRebuild, swapchain
  <2>3. HeldInv'
    BY <1>6 DEF HeldInv, TypeOK, NoRebuild, window, swapchain
  <2>4. SetsInv'
    BY <1>0, <1>6 DEF SetsInv, Ago, Over, NoRebuild, swapchain
  <2> QED
    BY <2>1, <2>2, <2>3, <2>4
<1>7. CASE CallMain
  <2>1. TypeOK'
    BY <1>0, <1>7 DEF TypeOK, CallMain, window, swapchain, Over
  <2>2. FencesInv'
    BY <1>7 DEF FencesInv, TypeOK, CallMain, swapchain
  <2>3. HeldInv'
    BY <1>7 DEF HeldInv, TypeOK, CallMain, window, swapchain
  <2>4. SetsInv'
    BY <1>0, <1>7 DEF SetsInv, Ago, Over, CallMain, swapchain
  <2> QED
    BY <2>1, <2>2, <2>3, <2>4
<1>8. CASE Acquire
  <2>1. TypeOK'
    BY <1>0, <1>8 DEF TypeOK, Acquire, TakeImage, window, swapchain, Over
  <2>2. FencesInv'
    BY <1>8 DEF FencesInv, TypeOK, Acquire, TakeImage, swapchain
  <2>3. HeldInv'
    BY <1>8 DEF HeldInv, TypeOK, Acquire, TakeImage, window, swapchain
  <2>4. SetsInv'
    BY <1>0, <1>8 DEF SetsInv, Ago, Over, Acquire, TakeImage, swapchain
  <2> QED
    BY <2>1, <2>2, <2>3, <2>4
<1>9. CASE AcquireSuboptimal
  <2>1. TypeOK'
    BY <1>0, <1>9 DEF TypeOK, AcquireSuboptimal, TakeImage, window, swapchain, Over
  <2>2. FencesInv'
    BY <1>9 DEF FencesInv, TypeOK, AcquireSuboptimal, TakeImage, swapchain
  <2>3. HeldInv'
    BY <1>9 DEF HeldInv, TypeOK, AcquireSuboptimal, TakeImage, window, swapchain
  <2>4. SetsInv'
    BY <1>0, <1>9 DEF SetsInv, Ago, Over, AcquireSuboptimal, TakeImage, swapchain
  <2> QED
    BY <2>1, <2>2, <2>3, <2>4
<1>10. CASE AcquireOutOfDate
  <2>1. TypeOK'
    BY <1>0, <1>10 DEF TypeOK, AcquireOutOfDate, window, swapchain, Over
  <2>2. FencesInv'
    BY <1>10 DEF FencesInv, TypeOK, AcquireOutOfDate, swapchain
  <2>3. HeldInv'
    BY <1>10 DEF HeldInv, TypeOK, AcquireOutOfDate, window, swapchain
  <2>4. SetsInv'
    BY <1>0, <1>10 DEF SetsInv, Ago, Over, AcquireOutOfDate, swapchain
  <2> QED
    BY <2>1, <2>2, <2>3, <2>4
<1>11. CASE WaitForFence
  <2>1. TypeOK'
    BY <1>0, <1>11 DEF TypeOK, WaitForFence, window, swapchain, Over
  <2>2. FencesInv'
    BY <1>11 DEF FencesInv, TypeOK, WaitForFence, swapchain
  <2>3. HeldInv'
    BY <1>11 DEF HeldInv, TypeOK, WaitForFence, window, swapchain
  <2>4. SetsInv'
    BY <1>0, <1>11 DEF SetsInv, Ago, Over, WaitForFence, swapchain
  <2> QED
    BY <2>1, <2>2, <2>3, <2>4
<1>12. CASE Submit
  <2> DEFINE e == [frame |-> frame, sem |-> sem]
  <2>1. /\ queue \in Seq([frame : Index, sem : Index])
        /\ e \in [frame : Index, sem : Index] /\ e.frame = frame /\ e.sem = sem
        /\ queue' = Append(queue, e) /\ pc = "record" /\ pc' = "present"
        /\ frame' = frame /\ sem' = sem /\ rebuild' = rebuild /\ fence' = fence
    BY <1>12 DEF Submit, TypeOK
  <2>2. /\ queue' \in Seq([frame : Index, sem : Index])
        /\ Len(queue) \in Nat /\ Len(queue') = Len(queue) + 1
        /\ queue'[Len(queue) + 1] = e
        /\ \A k \in DOMAIN queue' :
               \/ k \in DOMAIN queue /\ k # Len(queue) + 1 /\ queue'[k] = queue[k]
               \/ k = Len(queue) + 1 /\ k \notin DOMAIN queue
    BY <2>1, AppendFacts
  <2> HIDE DEF e
  <2>3. TypeOK'
    BY <1>12, <2>2 DEF TypeOK, Submit, window
  <2>4. FencesInv'
    BY <2>1, <2>2 DEF FencesInv
  <2>5. HeldInv'
    BY <1>12 DEF HeldInv, TypeOK, Submit
  <2>6. SetsInv'
    <3>1. Len(queue) < ImageCount
      BY <2>1, RoomForOne
    <3>2. /\ ~rebuild /\ pc \notin Over
          /\ \A k \in DOMAIN queue : queue[k].sem = Ago(Len(queue) - k + 1)
      BY <2>1 DEF HeldInv, SetsInv, Over
    <3>3. ASSUME NEW k \in DOMAIN queue'
          PROVE  queue'[k].sem = Ago(Len(queue) - k)'
      <4>1. k \in Nat
        BY <2>2
      <4>2. CASE k \in DOMAIN queue /\ k # Len(queue) + 1 /\ queue'[k] = queue[k]
        BY <2>1, <2>2, <3>2, <4>1, <4>2 DEF Ago
      <4>3. CASE k = Len(queue) + 1
        BY <2>1, <2>2, <4>3, <1>0 DEF Ago, TypeOK, Index
      <4> QED
        BY <2>2, <4>2, <4>3
    <3> QED
      BY <1>0, <2>1, <2>2, <3>1, <3>3 DEF SetsInv, Ago
  <2> QED
    BY <2>3, <2>4, <2>5, <2>6
<1>13. CASE NoPresent
  <2>1. TypeOK'
    BY <1>0, <1>13 DEF TypeOK, NoPresent, window, swapchain, Over
  <2>2. FencesInv'
    BY <1>13 DEF FencesInv, TypeOK, NoPresent, swapchain
  <2>3. HeldInv'
    BY <1>13 DEF HeldInv, TypeOK, NoPresent, window, swapchain
  <2>4. SetsInv'
    BY <1>0, <1>13 DEF SetsInv, Ago, Over, NoPresent, swapchain
  <2> QED
    BY <2>1, <2>2, <2>3, <2>4
<1>14. CASE Present
  <2>0. /\ sem' = IF sem + 1 = ImageCount THEN 0 ELSE sem + 1
        /\ sem' \in Index /\ sem \in Nat
    <3>1. sem \in Index /\ sem' = (sem + 1) % ImageCount
      BY <1>14 DEF TypeOK, Present
    <3> QED
      BY <1>0, <3>1, NextSet DEF Index
  <2>1. TypeOK'
    BY <1>14, <2>0 DEF TypeOK, Present, window
  <2>2. FencesInv'
    BY <1>14 DEF FencesInv, TypeOK, Present
  <2>3. HeldInv'
    BY <1>14 DEF HeldInv, TypeOK, Present
  <2>4. SetsInv'
    <3>1. /\ queue' = queue /\ pc' = "poll" /\ ~rebuild /\ rebuild' = rebuild
          /\ Len(queue) \in Nat /\ DOMAIN queue = 1 .. Len(queue)
          /\ Len(queue) <= ImageCount
          /\ \A k \in DOMAIN queue : queue[k].sem = Ago(Len(queue) - k)
      BY <1>14 DEF Present, TypeOK, SetsInv, Over
    <3> QED
      BY <1>0, <2>0, <3>1 DEF SetsInv, Ago, Index
  <2> QED
    BY <2>1, <2>2, <2>3, <2>4
<1>15. CASE PresentOutOfDate
  <2>1. TypeOK'
    BY <1>0, <1>15 DEF TypeOK, PresentOutOfDate, window, swapchain, Over
  <2>2. FencesInv'
    BY <1>15 DEF FencesInv, TypeOK, PresentOutOfDate, swapchain
  <2>3. HeldInv'
    BY <1>15 DEF HeldInv, TypeOK, PresentOutOfDate, window, swapchain
  <2>4. SetsInv'
    BY <1>0, <1>15 DEF SetsInv, Ago, Over, PresentOutOfDate, swapchain
  <2> QED
    BY <2>1, <2>2, <2>3, <2>4
<1>16. CASE Internal_CleanUp
  <2>1. TypeOK'
    BY <1>0, <1>16 DEF TypeOK, Internal_CleanUp, window, swapchain, Over
  <2>2. FencesInv'
    BY <1>16 DEF FencesInv, TypeOK, Internal_CleanUp, swapchain
  <2>3. HeldInv'
    BY <1>16 DEF HeldInv, TypeOK, Internal_CleanUp, window, swapchain
  <2>4. SetsInv'
    BY <1>0, <1>16 DEF SetsInv, Ago, Over, Internal_CleanUp, swapchain
  <2> QED
    BY <2>1, <2>2, <2>3, <2>4
<1>17. CASE Complete
  <2>1. /\ queue \in Seq([frame : Index, sem : Index]) /\ queue # <<>>
        /\ queue' = Tail(queue)
        /\ fence' = [fence EXCEPT ![Head(queue).frame] = TRUE]
        /\ UNCHANGED <<pc, rebuild, frame, sem, image, signalled>>
        /\ UNCHANGED <<m_Run, shut, area>>
    BY <1>17 DEF Complete, TypeOK, window
  <2>2. /\ queue' \in Seq([frame : Index, sem : Index])
        /\ Head(queue) \in [frame : Index, sem : Index] /\ Head(queue) = queue[1]
        /\ Len(queue) \in Nat /\ Len(queue) >= 1 /\ 1 \in DOMAIN queue
        /\ Len(queue') = Len(queue) - 1
        /\ \A k \in DOMAIN queue' :
               k + 1 \in DOMAIN queue /\ k + 1 # 1 /\ queue'[k] = queue[k + 1]
    BY <2>1, TailFacts
  <2>3. TypeOK'
    BY <2>1, <2>2 DEF TypeOK
  <2>4. FencesInv'
    BY <2>1, <2>2 DEF FencesInv, TypeOK
  <2>5. HeldInv'
    BY <2>1 DEF HeldInv
  <2>6. SetsInv'
    BY <1>0, <2>1, <2>2 DEF SetsInv, Ago, Over
  <2> QED
    BY <2>3, <2>4, <2>5, <2>6
<1>18. CASE UNCHANGED vars
  BY <1>18 DEF vars, window, swapchain, TypeOK, FencesInv, HeldInv, SetsInv, Ago
<1> QED
  BY <1>1, <1>2, <1>3, <1>4, <1>5, <1>6, <1>7, <1>8, <1>9, <1>10, <1>11, <1>12,
     <1>13, <1>14, <1>15, <1>16, <1>17, <1>18
     DEF Next, Step, Refusal

\* The inductive invariant gives the properties of the states.
LEMMA InvFacts == IInv => TypeOK /\ CleanStart /\ CommandPoolIdle /\ SetInUseIsOldest
<1> SUFFICES ASSUME IInv
             PROVE  TypeOK /\ CleanStart /\ CommandPoolIdle /\ SetInUseIsOldest
  OBVIOUS
<1>1. TypeOK /\ CleanStart /\ CommandPoolIdle
  BY DEF IInv, HeldInv, FencesInv, CleanStart, CommandPoolIdle
<1>2. SetInUseIsOldest
  <2> SUFFICES ASSUME pc \in {"acquire", "fence", "record"},
                      NEW k \in DOMAIN queue, queue[k].sem = sem
               PROVE  pc # "record" /\ k = 1 /\ Len(queue) = ImageCount
    BY DEF SetInUseIsOldest
  <2>1. Len(queue) <= ImageCount /\ queue[k].sem = Ago(Len(queue) - k + 1)
    BY DEF IInv, HeldInv, SetsInv, Over
  <2>2. Len(queue) \in Nat /\ k \in 1 .. Len(queue)
    BY DEF IInv, TypeOK
  <2>3. Len(queue) - k + 1 = ImageCount
    <3>1. PICK d : d = Len(queue) - k + 1
      OBVIOUS
    <3>2. d \in 1 .. ImageCount /\ sem \in 0 .. ImageCount - 1
      BY <2>1, <2>2, <3>1, ImageCountAssumption DEF IInv, TypeOK, Index
    <3>3. sem = IF sem >= d THEN sem - d ELSE sem - d + ImageCount
      BY <2>1, <3>1 DEF Ago
    <3> QED
      BY <3>1, <3>2, <3>3, ImageCountAssumption
  <2>4. k = 1 /\ Len(queue) = ImageCount
    BY <2>1, <2>2, <2>3, ImageCountAssumption
  <2>5. pc = "record" => Len(queue) < ImageCount
    BY RoomForOne DEF IInv
  <2> QED
    BY <2>2, <2>4, <2>5, ImageCountAssumption
<1> QED
  BY <1>1, <1>2

-----------------------------------------------------------------------------
(* Theorems.                                                                 *)

\* The inductive invariant holds of the loop.
THEOREM Invariance == Spec => []IInv
BY InitInv, StepInv, PTL DEF Spec

\* SemaphoreIndex and FrameIndex stay within the arrays of the swap chain, and the
\* rest of the loop's state has its type (GuiApp.cpp:243-330).
THEOREM TypeCorrect == Spec => []TypeOK
BY Invariance, InvFacts, PTL

\* Every frame that is drawn begins with a clean, up-to-date swap chain, however
\* many frames before it were abandoned (GuiApp.cpp:250, 312, 323, 551).
THEOREM FramesStartClean == Spec => []CleanStart
BY Invariance, InvFacts, PTL

\* No command pool is reset while the GPU works on its buffer (GuiApp.cpp:259-266).
THEOREM CommandPoolsAreIdle == Spec => []CommandPoolIdle
BY Invariance, InvFacts, PTL

\* For any number of images, a set of semaphores comes round while the GPU still uses
\* it only when the GPU is as many submissions behind as there are images; by the time
\* the set is submitted again it is idle (GuiApp.cpp:249, 259, 305, 329).
THEOREM SetsInUseAreOldest == Spec => []SetInUseIsOldest
BY Invariance, InvFacts, PTL

\* An image that was not drawn never goes to the screen (GuiApp.cpp:312).
THEOREM ScreenShowsDrawnImages == Spec => OnlyDrawnImagesAreShown
<1>1. IInv /\ [Next]_vars =>
          [\A i \in Index : image[i] = "acquired" /\ image'[i] = "free"
                                 => rebuild /\ ~rebuild']_vars
  <2> SUFFICES ASSUME IInv, Next, NEW i \in Index,
                      image[i] = "acquired", image'[i] = "free"
               PROVE  rebuild /\ ~rebuild'
    BY DEF vars, swapchain
  <2>1. CASE InitGui \/ Rebuild
    BY <2>1 DEF InitGui, Rebuild, IInv, HeldInv
  <2>2. CASE Present \/ PresentOutOfDate
    BY <2>2 DEF Present, PresentOutOfDate, IInv, TypeOK, HeldInv
  <2>3. CASE Acquire \/ AcquireSuboptimal \/ Submit
    BY <2>3 DEF Acquire, AcquireSuboptimal, TakeImage, Submit, IInv, TypeOK
  <2>4. CASE \/ Abort \/ Poll \/ LeaveLoop \/ NoRebuild \/ CallMain \/ AcquireOutOfDate
             \/ WaitForFence \/ NoPresent \/ Internal_CleanUp \/ Complete
    BY <2>4 DEF Abort, Poll, LeaveLoop, NoRebuild, CallMain, AcquireOutOfDate,
                WaitForFence, NoPresent, Internal_CleanUp, Complete, swapchain
  <2> QED
    BY <2>1, <2>2, <2>3, <2>4 DEF Next, Step, Refusal
<1> QED
  BY Invariance, <1>1, PTL DEF Spec, OnlyDrawnImagesAreShown
=============================================================================
