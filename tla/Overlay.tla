------------------------------ MODULE Overlay ------------------------------
(***************************************************************************)
(* What the virtual file system promises: a stack of layers of which a     *)
(* reader sees, for every file, the contribution of the foremost layer     *)
(* that has one.  Nothing is said of folders, indexes, write times or of   *)
(* how a layer is found: CFileMap's maps are an implementation of this     *)
(* module (FileMap!ImplementsOverlay).                                     *)
(***************************************************************************)
EXTENDS Naturals

CONSTANTS Sources,  \* the layers: data folders and archives
          Files,
          Sort,     \* Sort[s]: the lower, the nearer to the reader
          Outputs,  \* the layers that may be written to
          Content,  \* what a file may hold
          Missing   \* what a layer without the file holds

VARIABLE held       \* held[s][f]: what layer s contributes to file f

Shows(s, f) == held[s][f] # Missing

\* A reader of f is given the contribution of this layer.
Foremost(s, f) == Shows(s, f) /\ \A t \in Sources : Shows(t, f) => Sort[s] <= Sort[t]

Init == held = [s \in Sources |-> [f \in Files |-> Missing]]

\* A layer that showed nothing shows some of its files.
Attach(s) ==
    /\ \A f \in Files : ~Shows(s, f)
    /\ held'[s] \in [Files -> Content \cup {Missing}]
    /\ held' = [held EXCEPT ![s] = held'[s]]

\* A layer goes away, and disturbs no other layer in going.
Detach(s) == held' = [held EXCEPT ![s] = [f \in Files |-> Missing]]

\* What a layer shows of a file is replaced.
Replace(s, f) == \E c \in Content : held' = [held EXCEPT ![s][f] = c]

\* A file appears in, or is replaced in, a layer that becomes its foremost.
Publish(s, f) ==
    /\ s \in Outputs
    /\ \A t \in Sources : Shows(t, f) => Sort[s] <= Sort[t]
    /\ Replace(s, f)

\* Bytes arrive on a stream that is open on a file of the layer.
Amend(s, f) ==
    /\ s \in Outputs
    /\ Shows(s, f)
    /\ Replace(s, f)

Next ==
    \E s \in Sources :
        \/ Attach(s)
        \/ Detach(s)
        \/ \E f \in Files : Publish(s, f) \/ Amend(s, f)

Spec == Init /\ [][Next]_held
=============================================================================
