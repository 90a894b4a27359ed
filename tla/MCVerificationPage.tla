-------------------------- MODULE MCVerificationPage --------------------------
EXTENDS VerificationPage

certificate(id, url, network, replaces) ==
  [id |-> id, url |-> url, network |-> network, replaces |-> replaces]
First == certificate("c1", "web", "amoy", Null)
Reissued == certificate("c2", "web", "amoy", hashCertificateData(buildHashAnchorDocument(First)))
Worded == certificate("c3", "text", "amoy", Null)
Local == certificate("c4", "web", "elsewhere", Null)
MCCertificate == {First, Reissued, Worded, Local}

stored(c, origin, shape, email) ==
  [certificate |-> c, origin |-> origin, shape |-> shape, email |-> email]
MCFile ==
  {stored(First, "answer", "document", Null), stored(First, "answer", "envelope", "holder"),
   stored(Reissued, "answer", "certificate", "other"), stored(Reissued, "ipfs", "envelope", Null),
   stored(First, "ipfs", "certificate", Null), stored(First, "batch", "document", Null),
   stored(First, "batch", "envelope", Null), stored(Worded, "answer", "document", Null),
   stored(Local, "answer", "document", Null), stored(First, "legacy", "certificate", Null)}

================================================================================
