------------------------------ MODULE MCWebui ------------------------------
EXTENDS Webui, TLC

ChatSymmetry == Permutations(Chats)
=============================================================================
