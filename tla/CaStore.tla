------------------------------ MODULE CaStore ------------------------------
(***************************************************************************)
(* config::config_to(mimt_https_server&) (config.cpp): at its start the    *)
(* program loads the key and the certificate of its CA, or makes a new     *)
(* pair and stores it, key first.  The browser of the user trusts the      *)
(* certificate file, so a pair that was stored must stay.                  *)
(*                                                                         *)
(* A file is the pair it belongs to and how much of it was written.        *)
(***************************************************************************)
EXTENDS Naturals

CONSTANT MaxGen   \* pairs that are made in a behaviour

ASSUME GenAssumption == MaxGen \in Nat

VARIABLES
  kf, cf,   \* the files ca_pkey_path_ and ca_cert_path_
  gen,      \* the last pair made
  pc,       \* the program
  si,       \* the subject_identify it has read or made
  torn,     \* the write of a file that counts was cut, and nobody told
  orphan    \* a user removed the key of a certificate

files == <<kf, cf>>
caVars == <<files, gen, pc, si, torn, orphan>>

File == [gen : Nat, size : {"none", "empty", "part", "whole"}]
NoFile == [gen |-> 0, size |-> "none"]
EmptyFile == [gen |-> 0, size |-> "empty"]
Exists(f) == f.size # "none"
Whole(f) == f.size = "whole"
Nobody == [key |-> NoFile, cert |-> NoFile]

CaInit ==
  /\ kf = NoFile /\ cf = NoFile
  /\ gen = 0 /\ pc = "down" /\ si = Nobody
  /\ torn = FALSE /\ orphan = FALSE

-----------------------------------------------------------------------------
(* Loading                                                                 *)

FindBoth ==
  /\ pc = "down" /\ Exists(kf) /\ Exists(cf)
  /\ pc' = "loadkey"
  /\ UNCHANGED <<files, gen, si, torn, orphan>>

LoadKey ==
  /\ pc = "loadkey" /\ Exists(kf)
  /\ si' = [si EXCEPT !.key = kf] /\ pc' = "loadcert"
  /\ UNCHANGED <<files, gen, torn, orphan>>

\* What the files hold is not looked at.
LoadCert ==
  /\ pc = "loadcert" /\ Exists(cf)
  /\ si' = [si EXCEPT !.cert = cf] /\ pc' = "serving"
  /\ UNCHANGED <<files, gen, torn, orphan>>

-----------------------------------------------------------------------------
(* Making a pair                                                           *)

\* Variant: a pair is made at every start.
GenerateAlways ==
  /\ pc = "down" /\ gen < MaxGen
  /\ gen' = gen + 1 /\ pc' = "openkey"
  /\ UNCHANGED <<files, si, torn, orphan>>

\* Variant: the file that is there is kept, the other made anew.
GenerateMissing ==
  /\ pc = "down" /\ ~(Exists(kf) /\ Exists(cf)) /\ gen < MaxGen
  /\ gen' = gen + 1
  /\ pc' = IF Exists(kf) THEN "opencert" ELSE "openkey"
  /\ UNCHANGED <<files, si, torn, orphan>>

Generate ==
  /\ pc = "down" /\ ~(Exists(kf) /\ Exists(cf)) /\ gen < MaxGen
  /\ gen' = gen + 1 /\ pc' = "openkey"
  /\ UNCHANGED <<files, si, torn, orphan>>

\* Variant: both files are opened before anything is written.
OpenBoth ==
  /\ pc = "openkey"
  /\ kf' = EmptyFile /\ cf' = EmptyFile /\ pc' = "writekey"
  /\ UNCHANGED <<gen, si, torn, orphan>>

\* ofstream truncates the file.
OpenKey ==
  /\ pc = "openkey"
  /\ kf' = EmptyFile /\ pc' = "writekey"
  /\ UNCHANGED <<cf, gen, si, torn, orphan>>

\* The state of the stream is not looked at after <<, and close flushes: a
\* write that stops short is reported as a success (config.cpp:281-283).
WriteKey(size) ==
  /\ pc = "writekey"
  /\ kf' = [gen |-> gen, size |-> size]
  /\ torn' = (torn \/ size # "whole") /\ pc' = "opencert"
  /\ UNCHANGED <<cf, gen, si, orphan>>

OpenCert ==
  /\ pc = "opencert"
  /\ cf' = EmptyFile /\ pc' = "writecert"
  /\ UNCHANGED <<kf, gen, si, torn, orphan>>

\* The program goes on with the pair it made, whatever the files hold.
WriteCert(size) ==
  /\ pc = "writecert"
  /\ cf' = [gen |-> gen, size |-> size]
  /\ torn' = (torn \/ size # "whole")
  /\ si' = [key |-> [gen |-> gen, size |-> "whole"],
            cert |-> [gen |-> gen, size |-> "whole"]]
  /\ pc' = "serving"
  /\ UNCHANGED <<kf, gen, orphan>>

-----------------------------------------------------------------------------
(* The world                                                               *)

\* Variant: what was loaded survives the program.
EndKeepsPair ==
  /\ pc # "down"
  /\ pc' = "down"
  /\ torn' = (torn \/ pc = "writecert")
  /\ UNCHANGED <<files, gen, si, orphan>>

\* The program ends: a file cannot be opened, an exit, a kill at any point.
\* One between the opening of the certificate file and its writing leaves
\* an empty file behind a good key.
End ==
  /\ pc # "down"
  /\ pc' = "down" /\ si' = Nobody
  /\ torn' = (torn \/ pc = "writecert")
  /\ UNCHANGED <<files, gen, orphan>>

\* A user who wants a new CA removes files while the program does not start.
RemoveCert ==
  /\ pc \in {"down", "serving"} /\ Exists(cf)
  /\ cf' = NoFile
  /\ UNCHANGED <<kf, gen, pc, si, torn, orphan>>

RemoveKey ==
  /\ pc \in {"down", "serving"} /\ Exists(kf)
  /\ kf' = NoFile
  /\ orphan' = (orphan \/ Exists(cf))
  /\ UNCHANGED <<cf, gen, pc, si, torn>>

-----------------------------------------------------------------------------
CaNext ==
  \/ FindBoth
  \/ LoadKey
  \/ LoadCert
  \/ Generate
  \/ OpenKey
  \/ \E size \in {"part", "whole"} : WriteKey(size)
  \/ OpenCert
  \/ \E size \in {"part", "whole"} : WriteCert(size)
  \/ End
  \/ RemoveCert
  \/ RemoveKey

CaSpec == CaInit /\ [][CaNext]_caVars

-----------------------------------------------------------------------------
CaTypeOK ==
  /\ kf \in File /\ cf \in File
  /\ gen \in Nat /\ gen <= MaxGen
  /\ pc \in {"down", "loadkey", "loadcert", "openkey", "writekey",
             "opencert", "writecert", "serving"}
  /\ si \in [key : File, cert : File]
  /\ torn \in BOOLEAN /\ orphan \in BOOLEAN
  /\ pc = "down" => si = Nobody

\* The program never works with the key of one pair and the certificate of
\* another, after any number of crashes, cut writes and certificates removed
\* (clients would refuse every certificate it signs).  It could once a key
\* was removed alone: the new one is stored first.
NeverMixed ==
  pc = "serving" /\ ~orphan /\ Whole(si.key) /\ Whole(si.cert) =>
    si.key.gen = si.cert.gen

\* Only a cut write, or a crash between the opening and the writing of the
\* certificate file, makes the program work with less than a whole pair: a
\* crash at any other point heals at the next start (again unless a key was
\* removed alone).
WholeUnlessTorn ==
  pc = "serving" /\ ~orphan /\ ~torn => Whole(si.key) /\ Whole(si.cert)

\* A stored pair stays until the user removes a file: the CA the browser was
\* told to trust is the one in use after every restart.
PairStays ==
  [][Whole(kf) /\ Whole(cf) /\ kf.gen = cf.gen =>
       kf' \in {kf, NoFile} /\ cf' \in {cf, NoFile}]_caVars
=============================================================================
