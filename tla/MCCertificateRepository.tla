---------------------- MODULE MCCertificateRepository ----------------------
(* Model checking of CertificateRepository on small instances. *)
EXTENDS CertificateRepository, TLC

\* Requests are interchangeable: no definition tells two of them apart.
RequestSymmetry == Permutations(Requests)
=============================================================================
