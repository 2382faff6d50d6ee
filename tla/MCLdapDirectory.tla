--------------------------- MODULE MCLdapDirectory ---------------------------
(* LdapDirectory for TLC: clients work on the base entry and the            *)
(* administrator's.                                                         *)
EXTENDS LdapDirectory

CONSTANTS base, admin, ous, groups

MCServed == {base, admin}
MCClasses == {"person", "organization"}
=============================================================================
