-------------------------------- MODULE User --------------------------------
(***************************************************************************)
(* What surrounds a user process: the pages that it gets from the kernel   *)
(* (Mem), what is in them (Image), the heap that its library makes of them *)
(* (Heap), the shell that starts it (Parser, Shell), and the console that  *)
(* it is used from (Keyboard, Screen).  They share no state, so that a run *)
(* is a run of one of them: part says which.                               *)
(***************************************************************************)
EXTENDS Mem, Image, Heap, Shell, Keyboard, Screen

CONSTANTS
    MAXTOKENS       \* how long a line is that is only parsed

VARIABLES
    part,       \* which of the parts runs
    typedline   \* the line that is parsed

uservars == <<part, typedline, vars, imagevars, heapvars, shellvars, keyvars,
              screenvars>>

Part == {"memory", "image", "heap", "parser", "shell", "keyboard", "screen"}

UserInit ==
    /\ part \in Part /\ typedline = <<>>
    /\ Init /\ ImageInit /\ HeapInit /\ ShellInit /\ KeyInit /\ ScreenInit
    /\ part # "memory" => frames = Min(Frames)

\* One more token is typed; to the parser all words are alike.
Type ==
    /\ Len(typedline) < MAXTOKENS
    /\ \E token \in Symbols \cup {CHOOSE word \in Word : TRUE} :
           typedline' = Append(typedline, token)

\* Only part p takes a step.
Only(p) ==
    /\ part = p /\ part' = p
    /\ p # "memory"   => UNCHANGED vars
    /\ p # "image"    => UNCHANGED imagevars
    /\ p # "heap"     => UNCHANGED heapvars
    /\ p # "parser"   => UNCHANGED typedline
    /\ p # "shell"    => UNCHANGED shellvars
    /\ p # "keyboard" => UNCHANGED keyvars
    /\ p # "screen"   => UNCHANGED screenvars

UserNext ==
    \/ Only("memory") /\ Next
    \/ Only("image") /\ ImageNext
    \/ Only("heap") /\ HeapNext
    \/ Only("parser") /\ Type
    \/ Only("shell") /\ ShellNext
    \/ Only("keyboard") /\ KeyNext
    \/ Only("screen") /\ ScreenNext

UserSpec == UserInit /\ [][UserNext]_uservars

-----------------------------------------------------------------------------
\* A part that does not run is as it was in the beginning.

\* An image has what it was given, and system calls find it.
ImageKept == part = "image" => ImageSound

\* The heap loses nothing and hands nothing out twice.
HeapKept == part = "heap" => HeapSound

\* The shell reads a line as it is meant, whatever was typed, and runs it so.
LinesKept ==
    /\ part = "parser" => parsecmd(typedline) = Means(typedline)
    /\ part = "shell" => ShellSound

\* Keys give their characters, and the screen shows what is printed.
ConsoleKept ==
    /\ part = "keyboard" => KeysSound
    /\ part = "screen" => ScreenSound
=============================================================================
