---------------------------- MODULE MCSubmission ----------------------------
EXTENDS Submission, TLC

CONSTANTS one, two

MCCalls == {one, two}
MCSymmetry == Permutations(MCCalls)
=============================================================================
