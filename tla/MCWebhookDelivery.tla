------------------------- MODULE MCWebhookDelivery -------------------------
EXTENDS WebhookDelivery, TLC

Symmetry == Permutations(Events) \cup Permutations(Processes)
=============================================================================
