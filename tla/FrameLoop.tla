----------------------------- MODULE FrameLoop -----------------------------
(***************************************************************************)
(* The main loop of GuiApp (Gui/GuiApp.cpp) and its swap chain: Run polls  *)
(* the window, rebuilds the swap chain if it is out of date, calls GUIMain, *)
(* draws into an image of the swap chain (FrameRender) and hands the image *)
(* back to the screen (FramePresent).                                      *)
(*                                                                         *)
(* The GPU works behind the program's back.  Submissions to the one queue  *)
(* complete in order, each signalling its fence; a fence, a command pool   *)
(* and two semaphores are shared by all the frames that use one index.     *)
(***************************************************************************)
EXTENDS Naturals, Sequences

CONSTANT ImageCount    \* wd->ImageCount: what the driver makes of g_MinImageCount

\* g_MinImageCount is 2, and SetupVulkanWindow asserts it.
ASSUME ImageCountAssumption == ImageCount \in Nat /\ ImageCount >= 2

VARIABLES
    pc,         \* where Run is
    m_Run,      \* cleared by the Exit item and the close button of the main pane
    shut,       \* glfwWindowShouldClose
    area,       \* the framebuffer has an area: the window is not minimised
    rebuild,    \* g_SwapChainRebuild
    frame,      \* wd->FrameIndex
    sem,        \* wd->SemaphoreIndex
    image,      \* per image: "free" to acquire, "acquired", or "drawn": submitted
    signalled,  \* ImageAcquiredSemaphores that are signalled and nothing waits for
    fence,      \* per image: its fence is signalled
    queue       \* the submissions the GPU has not completed

window == <<m_Run, shut, area>>
swapchain == <<frame, sem, image, signalled, fence>>
vars == <<pc, window, rebuild, swapchain, queue>>

Index == 0 .. ImageCount - 1

\* Run has returned, and so has main; or the process was ended on the way.
Over == {"ended", "aborted"}

-----------------------------------------------------------------------------
(* InitGui.                                                                  *)

\* ImGui_ImplVulkanH_CreateOrResizeWindow: a new swap chain, and for each of
\* its images a signalled fence and two unsignalled semaphores.
CreateWindow ==
    /\ image' = [i \in Index |-> "free"]
    /\ fence' = [i \in Index |-> TRUE]
    /\ signalled' = {}

Init ==
    /\ pc = "start"
    /\ m_Run = FALSE /\ shut = FALSE /\ area = TRUE
    /\ rebuild = FALSE
    /\ frame = 0 /\ sem = 0
    /\ image = [i \in Index |-> "free"]
    /\ signalled = {}
    /\ fence = [i \in Index |-> TRUE]
    /\ queue = <<>>

InitGui ==
    /\ pc = "start"
    /\ CreateWindow
    /\ m_Run' = TRUE
    /\ pc' = "poll"
    /\ UNCHANGED <<shut, area, rebuild, frame, sem, queue>>

\* The exception of the constructor, exit in SetupVulkanWindow, abort in
\* check_vk_result, or an exception that leaves GUIMain: nothing catches one.
Abort ==
    /\ pc \notin {"poll"} \union Over
    /\ pc' = "aborted"
    /\ UNCHANGED <<window, rebuild, swapchain, queue>>

-----------------------------------------------------------------------------
(* One turn of Run.                                                          *)

\* (mutant) Either flag alone keeps the loop going.
GoOnForEither == ~shut \/ m_Run

GoOn == ~shut /\ m_Run

\* The loop's test, and glfwPollEvents: the window may have been minimised,
\* restored or closed.
Poll ==
    /\ pc = "poll"
    /\ GoOn
    /\ area' \in BOOLEAN
    /\ shut' \in {shut, TRUE}
    /\ pc' = "resize"
    /\ UNCHANGED <<m_Run, rebuild, swapchain, queue>>

LeaveLoop ==
    /\ pc = "poll"
    /\ ~GoOn
    /\ pc' = "cleanup"
    /\ UNCHANGED <<window, rebuild, swapchain, queue>>

\* (mutant) The rebuild leaves the flag to the next frame that finds it set.
RebuildKeepingFlag ==
    /\ pc = "resize"
    /\ rebuild /\ area
    /\ queue = <<>>
    /\ CreateWindow
    /\ frame' = 0
    /\ pc' = "main"
    /\ UNCHANGED <<window, rebuild, sem, queue>>

\* The helper begins with vkDeviceWaitIdle.
Rebuild ==
    /\ pc = "resize"
    /\ rebuild /\ area
    /\ queue = <<>>
    /\ CreateWindow
    /\ frame' = 0
    /\ rebuild' = FALSE
    /\ pc' = "main"
    /\ UNCHANGED <<window, sem, queue>>

NoRebuild ==
    /\ pc = "resize"
    /\ ~(rebuild /\ area)
    /\ pc' = "main"
    /\ UNCHANGED <<window, rebuild, swapchain, queue>>

\* m_Function, which is GUIMain.  A minimised window is not drawn.
CallMain ==
    /\ pc = "main"
    /\ m_Run' \in {m_Run, FALSE}
    /\ pc' = IF area THEN "acquire" ELSE "poll"
    /\ UNCHANGED <<shut, area, rebuild, swapchain, queue>>

-----------------------------------------------------------------------------
(* FrameRender.                                                              *)

\* vkAcquireNextImageKHR gives an image that is not acquired already, and will
\* signal the semaphore; it waits for as long as there is none.
TakeImage(i) ==
    /\ image[i] = "free"
    /\ frame' = i
    /\ image' = [image EXCEPT ![i] = "acquired"]
    /\ signalled' = signalled \union {sem}

Acquire ==
    /\ pc = "acquire"
    /\ \E i \in Index : TakeImage(i)
    /\ pc' = "fence"
    /\ UNCHANGED <<window, rebuild, sem, fence, queue>>

\* (mutant) A suboptimal swap chain is not worth a rebuild.
SkipSuboptimal ==
    /\ pc = "acquire"
    /\ \E i \in Index : TakeImage(i)
    /\ pc' = "present"
    /\ UNCHANGED <<window, rebuild, sem, fence, queue>>

\* (mutant) After a suboptimal image the loop goes straight to the next frame.
RetrySuboptimal ==
    /\ pc = "acquire"
    /\ \E i \in Index : TakeImage(i)
    /\ pc' = "poll"
    /\ UNCHANGED <<window, rebuild, sem, fence, queue>>

\* VK_SUBOPTIMAL_KHR: an image has been acquired all the same.
AcquireSuboptimal ==
    /\ pc = "acquire"
    /\ \E i \in Index : TakeImage(i)
    /\ rebuild' = TRUE
    /\ pc' = "present"
    /\ UNCHANGED <<window, sem, fence, queue>>

\* VK_ERROR_OUT_OF_DATE_KHR.
AcquireOutOfDate ==
    /\ pc = "acquire"
    /\ rebuild' = TRUE
    /\ pc' = "present"
    /\ UNCHANGED <<window, swapchain, queue>>

\* (mutant) The fence is reset without waiting for it.
ResetFenceOnly ==
    /\ pc = "fence"
    /\ fence' = [fence EXCEPT ![frame] = FALSE]
    /\ pc' = "record"
    /\ UNCHANGED <<window, rebuild, frame, sem, image, signalled, queue>>

\* vkWaitForFences with no time limit, vkResetFences.
WaitForFence ==
    /\ pc = "fence"
    /\ fence[frame]
    /\ fence' = [fence EXCEPT ![frame] = FALSE]
    /\ pc' = "record"
    /\ UNCHANGED <<window, rebuild, frame, sem, image, signalled, queue>>

\* The command pool of the frame is reset and its command buffer recorded and
\* submitted: the GPU will wait for the one semaphore of the set and signal the
\* other.  The other windows of ImGui are drawn after it, on swap chains of
\* their own.
Submit ==
    /\ pc = "record"
    /\ queue' = Append(queue, [frame |-> frame, sem |-> sem])
    /\ signalled' = signalled \ {sem}
    /\ image' = [image EXCEPT ![frame] = "drawn"]
    /\ pc' = "present"
    /\ UNCHANGED <<window, rebuild, frame, sem, fence>>

-----------------------------------------------------------------------------
(* FramePresent.                                                             *)

\* The early return.
NoPresent ==
    /\ pc = "present"
    /\ rebuild
    /\ pc' = "poll"
    /\ UNCHANGED <<window, rebuild, swapchain, queue>>

\* (mutant) The next frame uses the same set of semaphores again.
PresentOnly ==
    /\ pc = "present"
    /\ ~rebuild
    /\ image' = [image EXCEPT ![frame] = "free"]
    /\ pc' = "poll"
    /\ UNCHANGED <<window, rebuild, frame, sem, signalled, fence, queue>>

\* (mutant) The index of the set of semaphores runs past the last one.
PresentUnwrapped ==
    /\ pc = "present"
    /\ ~rebuild
    /\ image' = [image EXCEPT ![frame] = "free"]
    /\ sem' = sem + 1
    /\ pc' = "poll"
    /\ UNCHANGED <<window, rebuild, frame, signalled, fence, queue>>

\* (mutant) The flag is not looked at.
PresentAnyway ==
    /\ pc = "present"
    /\ image' = [image EXCEPT ![frame] = "free"]
    /\ sem' = (sem + 1) % ImageCount
    /\ pc' = "poll"
    /\ UNCHANGED <<window, rebuild, frame, signalled, fence, queue>>

Present ==
    /\ pc = "present"
    /\ ~rebuild
    /\ image' = [image EXCEPT ![frame] = "free"]
    /\ sem' = (sem + 1) % ImageCount
    /\ pc' = "poll"
    /\ UNCHANGED <<window, rebuild, frame, signalled, fence, queue>>

\* vkQueuePresentKHR answers VK_SUBOPTIMAL_KHR, and has taken the image, or
\* VK_ERROR_OUT_OF_DATE_KHR, and may have.
PresentOutOfDate ==
    /\ pc = "present"
    /\ ~rebuild
    /\ image' \in {image, [image EXCEPT ![frame] = "free"]}
    /\ rebuild' = TRUE
    /\ pc' = "poll"
    /\ UNCHANGED <<window, frame, sem, signalled, fence, queue>>

-----------------------------------------------------------------------------

\* The destructor of the static instance, after main: vkDeviceWaitIdle, and
\* everything is destroyed.
Internal_CleanUp ==
    /\ pc = "cleanup"
    /\ queue = <<>>
    /\ pc' = "ended"
    /\ UNCHANGED <<window, rebuild, swapchain, queue>>

\* The GPU ends the oldest submission and signals its fence.
Complete ==
    /\ pc \notin Over
    /\ queue # <<>>
    /\ fence' = [fence EXCEPT ![Head(queue).frame] = TRUE]
    /\ queue' = Tail(queue)
    /\ UNCHANGED <<pc, window, rebuild, frame, sem, image, signalled>>

\* What the thread does when the driver answers VK_SUCCESS.
Step ==
    \/ InitGui \/ Poll \/ LeaveLoop \/ Rebuild \/ NoRebuild \/ CallMain
    \/ Acquire \/ WaitForFence \/ Submit \/ NoPresent \/ Present
    \/ Internal_CleanUp

\* The other answers.
Refusal == AcquireSuboptimal \/ AcquireOutOfDate \/ PresentOutOfDate

Next == Step \/ Refusal \/ Abort \/ Complete

\* The thread runs and the GPU ends what it was given; no answer but success is
\* owed, so that a call that waits is not saved by being refused.
Spec == Init /\ [][Next]_vars /\ WF_vars(Step) /\ WF_vars(Complete)

-----------------------------------------------------------------------------
(* Properties.                                                               *)

\* The type of the loop's state.
TypeOK ==
    /\ pc \in {"start", "poll", "resize", "main", "acquire", "fence", "record",
               "present", "cleanup"} \union Over
    /\ m_Run \in BOOLEAN /\ shut \in BOOLEAN /\ area \in BOOLEAN
    /\ rebuild \in BOOLEAN
    /\ frame \in Index /\ sem \in Index
    /\ image \in [Index -> {"free", "acquired", "drawn"}]
    /\ signalled \subseteq Index
    /\ fence \in [Index -> BOOLEAN]
    /\ queue \in Seq([frame : Index, sem : Index])

\* Whatever became of the frames before it, a frame that is drawn begins with
\* every image free, no semaphore left signalled and an up-to-date swap chain:
\* a frame that FrameRender or FramePresent abandons half way (GuiApp.cpp:250,
\* 323) leaves nothing behind, minimised or not.
CleanStart ==
    pc = "acquire" =>
        /\ ~rebuild
        /\ \A i \in Index : image[i] = "free"
        /\ signalled = {}

\* When vkResetCommandPool runs (GuiApp.cpp:266), the GPU has completed every
\* submission of the command buffers of that pool.
CommandPoolIdle ==
    pc = "record" => \A k \in DOMAIN queue : queue[k].frame # frame

\* There are as many sets of semaphores as images, they are taken in turn, the images
\* come back in any order, and the fence that is waited for is that of the image.  The
\* next set can be used as GuiApp.cpp:329 says, but for one case: when the image is
\* asked for (GuiApp.cpp:249), the GPU may still work on the submission that used the
\* set before, if it is as many submissions behind as there are images, and it is then
\* the oldest of them; when the set is submitted again (GuiApp.cpp:305), the wait for
\* the fence has seen it completed.
SetInUseIsOldest ==
    pc \in {"acquire", "fence", "record"} =>
        \A k \in DOMAIN queue : queue[k].sem = sem =>
            pc # "record" /\ k = 1 /\ Len(queue) = ImageCount

\* Only an image that has been drawn goes to the screen; an image that was
\* acquired and not drawn goes with its swap chain (GuiApp.cpp:312).
OnlyDrawnImagesAreShown ==
    [][\A i \in Index : image[i] = "acquired" /\ image'[i] = "free"
                            => rebuild /\ ~rebuild']_vars

\* The loop never hangs, neither in vkAcquireNextImageKHR nor on a fence nor in
\* vkDeviceWaitIdle, all of which wait without a time limit.
FrameEnds == (pc # "poll") ~> (pc \in {"poll"} \union Over)

\* Exit in the menu, or closing the window, ends the program.
CloseEnds == (pc # "start" /\ (shut \/ ~m_Run)) ~> (pc \in Over)

\* An out-of-date swap chain is rebuilt, unless the window stays minimised or the
\* program ends.
RebuildHappens ==
    (rebuild /\ []area) ~> (~rebuild \/ pc \in {"cleanup"} \union Over)
=============================================================================
