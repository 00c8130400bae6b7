-------------------------------- MODULE Window --------------------------------
(***************************************************************************)
(* The program of src/ui_c/src/main.c with os/os_gfx.c and                 *)
(* render/render.c: it opens a window, builds its shaders and draws frames *)
(* until Escape is down when it looks.  Both scripted builds keep asserts, *)
(* which here hold calls that must be made.                                *)
(***************************************************************************)

VARIABLES
  place,    \* where main is
  glfw,     \* GLFW is initialized
  context,  \* there is a window, and its context is current
  linked,   \* the shader program could be linked
  down,     \* Escape is held down
  key,      \* Escape as glfwGetKey tells it: as of the last poll
  asked     \* glfwWindowShouldClose: Escape, or the window manager

windowVars == <<place, glfw, context, linked, down, key, asked>>

WindowInit ==
  /\ place = "gfx_init"
  /\ glfw = FALSE /\ context = FALSE /\ linked = FALSE
  /\ down = FALSE /\ key = FALSE /\ asked = FALSE

\* An assert fails.
Abort == place' = "aborted"

\* os_gfx_init.
GfxInit ==
  /\ place = "gfx_init"
  /\ \/ glfw' = TRUE /\ place' = "window_open"
     \/ glfw' = FALSE /\ Abort
  /\ UNCHANGED <<context, linked, down, key, asked>>

\* Mutant of WindowOpen: without the assert on the window.
WindowOpenUnchecked ==
  /\ place = "window_open"
  /\ context' \in BOOLEAN
  /\ glfw' = context'
  /\ place' = "glew"
  /\ UNCHANGED <<linked, down, key, asked>>

\* os_window_open to the context: without a window GLFW is terminated, and the
\* assert ends the program.
WindowOpen ==
  /\ place = "window_open"
  /\ context' \in BOOLEAN
  /\ glfw' = context'
  /\ IF context' THEN place' = "glew" ELSE Abort
  /\ UNCHANGED <<linked, down, key, asked>>

Glew ==
  /\ place = "glew"
  /\ place' = "r_init" \/ Abort
  /\ UNCHANGED <<glfw, context, linked, down, key, asked>>

\* r_init: compiling is checked, linking is not.
RInit ==
  /\ place = "r_init"
  /\ \/ place' = "render" /\ linked' \in BOOLEAN
     \/ Abort /\ UNCHANGED linked
  /\ UNCHANGED <<glfw, context, down, key, asked>>

\* A frame: render and glfwSwapBuffers.
Render ==
  /\ place = "render"
  /\ place' = "poll"
  /\ UNCHANGED <<glfw, context, linked, down, key, asked>>

Poll ==
  /\ place = "poll"
  /\ key' = down
  /\ place' = "should_close"
  /\ UNCHANGED <<glfw, context, linked, down, asked>>

\* Mutant of ShouldClose: the loop ends on the flag.
ShouldCloseByFlag ==
  /\ place = "should_close"
  /\ IF asked THEN place' = "destroy" ELSE place' = "render"
  /\ UNCHANGED <<glfw, context, linked, down, key, asked>>

\* os_window_should_close: Escape sets the flag, and Escape alone is returned.
ShouldClose ==
  /\ place = "should_close"
  /\ IF key THEN place' = "destroy" /\ asked' = TRUE
            ELSE place' = "render" /\ UNCHANGED asked
  /\ UNCHANGED <<glfw, context, linked, down, key>>

Destroy ==
  /\ place = "destroy"
  /\ context' = FALSE
  /\ place' = "terminate"
  /\ UNCHANGED <<glfw, linked, down, key, asked>>

Terminate ==
  /\ place = "terminate"
  /\ glfw' = FALSE
  /\ place' = "done"
  /\ UNCHANGED <<context, linked, down, key, asked>>

Main ==
  \/ GfxInit \/ WindowOpen \/ Glew \/ RInit \/ Render \/ Poll \/ ShouldClose
  \/ Destroy \/ Terminate

\* Escape goes down or up, or the window manager asks the window to close.
User ==
  /\ context
  /\ \/ down' = ~down /\ UNCHANGED asked
     \/ asked' = TRUE /\ UNCHANGED down
  /\ UNCHANGED <<place, glfw, context, linked, key>>

WindowNext == Main \/ User

-----------------------------------------------------------------------------

\* Each call finds what it needs, whichever call before it failed: GLFW
\* initialized and not terminated, a window whose context is current, and at
\* the end neither is left.  The program leaves its loop for Escape only; the
\* window's close button sets a flag that nobody reads (os_gfx.c:5-40,
\* ui_c/src/main.c:125-132).
CallsInOrder ==
  /\ place \in {"glew", "r_init", "render", "poll", "should_close", "destroy"} =>
       glfw /\ context
  /\ place \in {"window_open", "terminate"} => glfw /\ ~context
  /\ place = "done" => ~glfw /\ ~context
  /\ place \in {"destroy", "terminate", "done"} => key

\* Holding Escape down ends the program, whenever it is pressed for good; one
\* that is let go between two polls is not seen (os_gfx.c:33-39).
EscapeEnds == <>[]down => <>(place \in {"done", "aborted"})
=============================================================================
