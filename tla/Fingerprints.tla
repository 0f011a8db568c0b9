---------------------------- MODULE Fingerprints ----------------------------
(* The fingerprint of a project: what the detector finds in it.            *)
CONSTANTS
    Project,        \* the projects there may be to find ...
    Facts,          \* ... and Facts[q]: the fields of q's fingerprint
    Framework,      \* names of frameworks
    None            \* nothing stored, nothing declared
=============================================================================
