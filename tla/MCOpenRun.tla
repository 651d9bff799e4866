----------------------------- MODULE MCOpenRun -----------------------------
EXTENDS OpenRun

plain == [auto |-> FALSE, dryRun |-> FALSE, probe |-> "off", postSlot |-> FALSE,
          completion |-> FALSE, payAuto |-> FALSE, zeroOnly |-> FALSE]

MCConfigs ==
  {[plain EXCEPT !.auto = TRUE, !.postSlot = TRUE, !.completion = TRUE, !.payAuto = TRUE],
   [plain EXCEPT !.dryRun = TRUE, !.probe = "empty_exit"],
   [plain EXCEPT !.probe = "observe"],
   [plain EXCEPT !.postSlot = TRUE, !.payAuto = TRUE, !.zeroOnly = TRUE],
   [plain EXCEPT !.postSlot = TRUE, !.completion = TRUE]}
=============================================================================
