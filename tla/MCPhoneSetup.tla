---------------------------- MODULE MCPhoneSetup ----------------------------
\* PhoneSetup for TLC; the .cfg gives the constants their values.  Accounts, PCs and proxies are
\* interchangeable: nothing in the module tells one from another.
EXTENDS PhoneSetup, TLC

Interchangeable == Permutations(Users) \cup Permutations(PCs) \cup Permutations(Proxies)
=============================================================================
