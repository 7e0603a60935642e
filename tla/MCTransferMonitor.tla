-------------------------- MODULE MCTransferMonitor --------------------------
(***************************************************************************)
(* Instances of TransferMonitor for TLC.                                   *)
(***************************************************************************)
EXTENDS TransferMonitor

\* Every mode but the upload for which this host listens: that one fails an
\* assert, see EarlyUploadModes.
SafeModes == (Types \X Sides) \ {<<"UPLOAD", "src">>}

EarlyUploadModes == {<<"UPLOAD", "src">>}
=============================================================================
