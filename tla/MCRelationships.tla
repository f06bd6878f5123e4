---------------------------- MODULE MCRelationships ----------------------------
EXTENDS Relationships

MCTemplates == <<"TOPIC_SEARCH">>
MCAreas     == <<"ai_agents", "data">>
MCGroups    == << << {"ai_agents", "data"} >>, << {"ai_agents", "data"} >> >>
MCDays      == 0..1
MCRepos     == 1..4
==============================================================================
