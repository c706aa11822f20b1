---------------------------- MODULE MCEventLoop ----------------------------
(***************************************************************************)
(* Two threads: the main one, which runs its run loop and posts            *)
(* notifications, and one that does the rest; for @synchronized blocks     *)
(* three, so that two can wait for one.                                    *)
(***************************************************************************)
EXTENDS EventLoop

CONSTANTS main, worker, other, root, middle, leaf

Program(first, second) == (main :> first) @@ (worker :> second) @@ (other :> {})

AllPrograms ==
    {Program({"timers", "loops"}, {"loops"}),
     Program({"notifications"}, {}),
     Program({"operations"}, {"operations"}),
     Program({"dispatch"}, {"dispatch"}),
     Program({"messages", "load"}, {}),
     Program({"messages"}, {"messages"}),
     [th \in Threads |-> {"synchronized"}],
     Program({"properties"}, {"properties"})}

\* Three classes in a line.
Line == (root :> <<root>>) @@ (middle :> <<middle, root>>) @@ (leaf :> <<leaf, middle, root>>)
=============================================================================
