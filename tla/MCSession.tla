------------------------------ MODULE MCSession ------------------------------
(* Two tabs, two names, and three users, one of whom has yet to register.    *)
EXTENDS Session
===============================================================================
