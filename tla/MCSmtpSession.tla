---- MODULE MCSmtpSession ----
EXTENDS SmtpSession
====
