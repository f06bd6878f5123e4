----------------------------- MODULE MCLLMBudget -----------------------------
EXTENDS LLMBudget
=============================================================================
