----------------------------- MODULE MCContract -----------------------------
EXTENDS ProviderContract

Three == <<"instances", "metrics", "ingress">>
=============================================================================
