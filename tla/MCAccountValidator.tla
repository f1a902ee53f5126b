---- MODULE MCAccountValidator ----
EXTENDS AccountValidator
====
