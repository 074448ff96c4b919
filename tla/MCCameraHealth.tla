--------------------------- MODULE MCCameraHealth ---------------------------
(* Instances of CameraHealth for TLC. *)
EXTENDS CameraHealth

CONSTANTS s1, s2, plain, portal

\* The second process multiplies the states and the portal's camera does too, so
\* each has an installation of its own.
MCInstallations ==
    {[servers |-> {s1}, cameras |-> {plain, portal}],
     [servers |-> {s1, s2}, cameras |-> {plain}]}

=============================================================================
