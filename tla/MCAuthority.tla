---------------------------- MODULE MCAuthority ----------------------------
EXTENDS CertificateAuthority, TLC
CONSTANTS p1, p2, p3
J(a, b, c) == (p1 :> a) @@ (p2 :> b) @@ (p3 :> c)
TrustJobs == {J("trust", "untrust", "clean")}
MCJobs == {J("ensure", "ensure", "ensure"), J("migrate", "leaf", "migrate"),
           J("leaf", "leaf", "clean"), J("leaf", "leaf", "leaf"), J("trust", "untrust", "clean")}
=============================================================================
