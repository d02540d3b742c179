----------------------------- MODULE MCHandlers -----------------------------
(***************************************************************************)
(* What the components of Handlers are given in its run.                   *)
(***************************************************************************)
EXTENDS Handlers, TLC

CONSTANTS t1, t2, u1, i1, i2, i3

\* One tab that logs in, calls and streams, another that logs out.
MCUses == t1 :> {"login", "page", "stream"} @@ t2 :> {"logout"}

\* Hours that are sent well and badly, a number, null, both.
MCUpdates == {"hours" :> "early", "hours" :> Malformed, "match" :> Null,
              "hours" :> "late" @@ "match" :> "low"}
MCHours   == {"hours"}

\* Bursts that blink and move, keep still, blink without moving, close the eyes
\* last, are flat, show no face; and a lone frame.
Frame(mesh, eyes, nose, texture) == [mesh |-> mesh, eyes |-> eyes, nose |-> nose, texture |-> texture]
Shut(nose) == Frame(TRUE, EyesClosed - 1, nose, TextureMin)
Open(nose) == Frame(TRUE, EyesOpen + 1, nose, TextureMin)
Alone      == <<Open(0)>>
Flat       == <<Frame(TRUE, EyesOpen + 1, 0, TextureMin - 1)>>
Bursts == { <<Shut(0), Open(2), Open(4), Open(6), Open(4)>>,
            <<Shut(0), Open(0), Open(1), Open(0), Open(0)>>,
            <<Shut(0), Frame(FALSE, 0, 9, 0), Open(0), Open(0)>>,
            <<Open(0), Open(0), Shut(0)>>,
            Flat, <<>> }
MCPicture == [faces : Bursts, score : {[u \in Person |-> IF u = u1 THEN 9 ELSE 5]}]
             \cup {[faces |-> Alone, score |-> [u \in Person |-> IF u = u1 THEN 2 ELSE 5]]}
MCPictureLists == {p \in MCPicture : p.faces = Flat} \X {p \in MCPicture : p.faces = Alone}
MCRecognitionSettings ==
    [required : {TRUE}, liveness : {50, 67}, match : {6}]
    \cup [required : {FALSE}, liveness : {67}, match : {1}]

\* Runs with a target that their pairs can resolve and with one of zero, with
\* fewer images than k, with no identity left to sample, with a p of zero.
Training(p, k, ratio, far, n1, n2, n3) ==
    [p |-> p, k |-> k, ratio |-> ratio, far |-> far, photos |-> i1 :> n1 @@ i2 :> n2 @@ i3 :> n3]
MCTrainings == { Training(2, 2, 20, 25, 10, 4, 4), Training(2, 2, 50, 0, 5, 4, 3),
                 Training(1, 3, 60, 50, 5, 5, 3), Training(2, 2, 80, 30, 5, 5, 3),
                 Training(0, 2, 20, 1, 4, 4, 4) }

Symmetry == Permutations(Handler) \cup Permutations(Request) \cup Permutations(Admin)
=============================================================================
