---------------------- MODULE MCAcademicCertification ----------------------
(* AcademicCertification on a small instance.  Hashes are only compared    *)
(* for equality, so the model is symmetric in them.                        *)
EXTENDS AcademicCertification, TLC

HashSymmetry == Permutations(Hash)
==============================================================================
